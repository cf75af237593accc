---------------------------- MODULE DeviceEvents ----------------------------
(***************************************************************************)
(* Events of the device: the event, OD and command handlers of the data    *)
(* link layer (iolink_dl.c), as much of the message and mode handlers as   *)
(* moves their messages, and the event machine of the application layer    *)
(* (iolink_al.c).  The device freezes a set of events and raises the event *)
(* flag; the master reads the StatusCode and, if it announces details, the *)
(* octets of the entries, one per message; it hands the set to the AL as a *)
(* series of jobs and confirms it by writing the StatusCode.               *)
(*                                                                         *)
(* The ISDU handler is idle and process data is not interleaved.           *)
(***************************************************************************)
EXTENDS Integers, Sequences, FiniteSets, SequencesExt

CONSTANTS
    MaxEvents,      \* IOLINK_MAX_EVENTS
    Kinds,          \* the sets a device may freeze
    MaxRetry,       \* IOLINK_MAX_RETRY
    Limit,          \* bounds of the model, see Spend
    Calm,           \* the device and the SM keep out of each other's way
    Prompt,         \* the main thread is done with a set before the next
    Paced           \* a control code is given when none is under way, and the
                    \* call that gives it meets no other user of the handlers

Slots == 0 .. MaxEvents - 1

(* A kind says whether the StatusCode announces details, which bits of it  *)
(* are set, and which entry is DS_UPLOAD_REQ (MaxEvents for none).         *)
ASSUME EventAssumption ==
    /\ MaxEvents \in Nat \ {0} /\ MaxRetry \in Nat
    /\ \A k \in Kinds :
        /\ k.details \in BOOLEAN /\ k.bits \subseteq Slots /\ k.bits # {}
        /\ k.upload \in Slots \cup {MaxEvents}
        /\ ~k.details => MaxEvents - 1 \notin k.bits /\ k.upload = MaxEvents
    /\ Limit \in [{"raise", "loss", "control", "config", "restart"} -> Nat]
    /\ {Calm, Prompt, Paced} \subseteq BOOLEAN

VARIABLES
    h,          \* the handlers of iolink_dl_t
    al,         \* the event machine of iolink_al_port_t
    mbox,       \* jobs for the main thread
    frozen,     \* kinds of the sets the device has raised (external)
    settled,    \* how many of them it has got rid of (external)
    told,       \* history: the sets signalled to the AL
    reports,    \* history: what the AL made of them
    lost,       \* history: communication was lost since the last signal
    app,        \* where the application is in DL_Control_req
    used        \* how often each bounded event has happened

vars == <<h, al, mbox, frozen, settled, told, reports, lost, app, used>>

-----------------------------------------------------------------------------
(* The device: the octets of its event memory are known by the number of   *)
(* the set and their address, the StatusCode by the number and its bits.   *)

Pending == settled < Len(frozen)

NoStatus == [no |-> 0, details |-> FALSE, bits |-> {}]
StatusCode ==
    IF Pending
    THEN LET kind == Last(frozen)
         IN  [no |-> Len(frozen), details |-> kind.details, bits |-> kind.bits]
    ELSE NoStatus

(* A reply to another message carries no service: it reads as zero.        *)
Octet(no, addr) == [no |-> no, addr |-> addr]
NoOctet == Octet(0, 0)

Details(no, slot) == [i \in 1 .. 3 |-> Octet(no, 3 * slot + i)]
NoDetails(no, slot) == <<Octet(no, slot)>>

(* How many of a set are below a slot, and the set in ascending order.     *)
Rank(set, slot) == Cardinality({s \in set : s < slot})
Ascending(set) == [i \in 1 .. Cardinality(set) |-> CHOOSE s \in set : Rank(set, s) = i - 1]

(* The set as the device means it, and what the AL should make of it.      *)
Meant(no) ==
    LET kind == frozen[no]
        Entry(slot) == IF kind.details THEN Details(no, slot) ELSE NoDetails(no, slot)
        slots == Ascending(kind.bits)
    IN  [i \in 1 .. Len(slots) |-> Entry(slots[i])]

(* The set that was meant by what is handed over; one the device never     *)
(* raised, or octets of two sets, are no set at all.                       *)
Number(set) ==
    IF \E no \in 1 .. Len(frozen) : set = Meant(no)
    THEN CHOOSE no \in 1 .. Len(frozen) : set = Meant(no)
    ELSE 0

IsUpload(entry) ==
    \E no \in 1 .. Len(frozen) :
        frozen[no].upload # MaxEvents /\ entry = Details(no, frozen[no].upload)

-----------------------------------------------------------------------------
(* Messages and the record of the handlers.                                *)

Message(kind, addr) == [kind |-> kind, addr |-> addr]
NoMessage == Message("none", 0)
Service   == Message("service", 0)
Command   == Message("command", 0)
Confirm   == Message("confirm", 0)
Read(addr) == Message("read", addr)

Unread == [i \in 1 .. 3 |-> NoOctet]

Init ==
    /\ h = [mdh |-> "IDLE", mode |-> "INACTIVE", comlost |-> FALSE, mdhEvent |-> FALSE,
            mh |-> "INACTIVE", mhEvent |-> FALSE, retry |-> 0, dataready |-> FALSE,
            cycle |-> FALSE, tx |-> Service, message |-> NoMessage,
            od |-> "INACTIVE", trigger |-> "NONE",
            cmdh |-> "INACTIVE", chActive |-> FALSE, code |-> FALSE, operate |-> FALSE,
            preop |-> "none",
            ev |-> "INACTIVE", ehActive |-> FALSE, flag |-> FALSE, confirmation |-> FALSE,
            addr |-> 0, cnt |-> 0, current |-> 0, num |-> 0, status |-> NoStatus,
            events |-> [s \in Slots |-> Unread], signals |-> <<>>]
    /\ al = [state |-> "Event_idle", cnt |-> 0, events |-> [s \in Slots |-> <<>>]]
    /\ mbox = <<>>
    /\ frozen = <<>> /\ settled = 0
    /\ told = <<>> /\ reports = <<>> /\ lost = FALSE /\ app = "idle"
    /\ used = [b \in DOMAIN Limit |-> 0]

(* Bounds: sets raised, messages lost, control codes given, changes of the *)
(* port, restarts of the device.                                           *)
Spend(bound) == used[bound] < Limit[bound] /\ used' = [used EXCEPT ![bound] = @ + 1]

-----------------------------------------------------------------------------
(* One call of a handler, as a function of the record.                     *)

Od_req(d, message) == [d EXCEPT !.tx = message]

(* iolink_dl_cmd_h_sm *)
CmdHandler(d) ==
    CASE d.cmdh = "INACTIVE" /\ d.chActive       -> [d EXCEPT !.cmdh = "IDLE"]
      [] d.cmdh = "IDLE" /\ ~d.chActive          -> [d EXCEPT !.cmdh = "INACTIVE"]
      [] d.cmdh = "IDLE" /\ d.chActive /\ d.code -> [d EXCEPT !.cmdh = "MASTERCOMMAND"]
      [] d.cmdh = "MASTERCOMMAND" -> [Od_req(d, Command) EXCEPT !.code = FALSE, !.cmdh = "IDLE"]
      [] OTHER                    -> d

(* iolink_dl_isdu_h_sm, which has no service *)
IsduHandler(d) == IF d.trigger = "MASTER" THEN Od_req(d, Service) ELSE d

(* iolink_dl_ev_h_sm_signal_event3: the entries are taken from the front   *)
(* of events[], or made from the bits of the StatusCode.                   *)
Signalled(d) ==
    IF d.status.details
    THEN [i \in 1 .. d.num |-> d.events[i - 1]]
    ELSE LET bits == Ascending(d.status.bits)
         IN  [i \in 1 .. Len(bits) |-> NoDetails(d.status.no, bits[i])]
SignalEvent(d) ==
    [d EXCEPT !.signals = Append(@, Signalled(d)), !.confirmation = TRUE, !.ev = "IDLE"]

(* ..._read_event2_for_device_status_code *)
ReadStatusCode(d) ==
    LET code == IF d.message = Read(0) THEN StatusCode ELSE NoStatus
        num  == d.num + Cardinality(code.bits)
        read == [d EXCEPT !.status = code, !.num = num]
    IN  CASE ~code.details -> SignalEvent(read)
          [] code.details /\ code.bits # {} ->
                LET first == Min(code.bits)
                IN  [read EXCEPT !.addr = 3 * first + 1, !.cnt = first]
          [] OTHER -> [read EXCEPT !.cnt = 0]

(* ..._read_event2_for_device_event_memory_byte *)
NextBits(d) == {s \in d.status.bits : s > d.cnt}
NextEntry(d) ==
    IF NextBits(d) # {}
    THEN LET next == Min(NextBits(d))
         IN  [d EXCEPT !.cnt = next, !.addr = 3 * next + 1]
    ELSE SignalEvent([d EXCEPT !.cnt = MaxEvents, !.current = 0])
ReadMemory(d) ==
    LET octet == IF d.message.kind # "read" THEN NoOctet
                 ELSE Octet(IF Pending THEN Len(frozen) ELSE 0, d.message.addr)
        part  == d.addr - 3 * d.cnt
        taken == IF d.current \in Slots
                 THEN [d EXCEPT !.events[d.current][part] = octet]
                 ELSE d
    IN  IF part < 3
        THEN [taken EXCEPT !.addr = @ + 1]
        ELSE NextEntry([taken EXCEPT !.current = @ + 1])

(* iolink_dl_ev_h_sm_idle1 and iolink_dl_ev_h_sm_read_event2 *)
EvIdle(d) ==
    CASE ~d.ehActive -> [d EXCEPT !.ev = "INACTIVE"]
      [] d.ehActive /\ d.trigger = "MASTER" /\ d.confirmation ->
            IF d.comlost THEN [d EXCEPT !.ev = "INACTIVE"]
            ELSE [Od_req(d, Confirm) EXCEPT !.confirmation = FALSE]
      [] d.ehActive /\ d.trigger = "MASTER" /\ ~d.confirmation ->
            [Od_req(d, Read(0)) EXCEPT
                !.addr = 0, !.num = 0, !.current = 0,
                !.events = [s \in Slots |-> Unread], !.ev = "READEVENT"]
      [] OTHER -> d
(* Mutant: a loss of communication does not end the reading of a set.      *)
EvReadIgnoresLoss(d) ==
    CASE d.trigger = "MASTER" -> Od_req(d, Read(d.addr))
      [] d.trigger = "DEVICE" -> IF d.addr = 0 THEN ReadStatusCode(d) ELSE ReadMemory(d)
      [] OTHER -> d
EvRead(d) ==
    CASE d.comlost             -> [d EXCEPT !.ev = "INACTIVE"]
      [] ~d.comlost /\ d.trigger = "MASTER" -> Od_req(d, Read(d.addr))
      [] ~d.comlost /\ d.trigger = "DEVICE" ->
            IF d.addr = 0 THEN ReadStatusCode(d) ELSE ReadMemory(d)
      [] OTHER -> d
EvHandler(d) ==
    CASE d.ev = "INACTIVE"  -> IF d.ehActive THEN [d EXCEPT !.ev = "IDLE"] ELSE d
      [] d.ev = "IDLE"      -> EvIdle(d)
      [] d.ev = "READEVENT" -> EvRead(d)

(* iolink_dl_od_h_sm while ohcmd is ACTIVE *)
CommandDue(d) == d.code /\ d.trigger = "MASTER"
(* Mutant: the command handler is not called.                              *)
OdIsduUnsent(d) ==
    CASE CommandDue(d)            -> [d EXCEPT !.od = "COMMAND"]
      [] ~CommandDue(d) /\ d.flag -> [IsduHandler(d) EXCEPT !.od = "EVENT"]
      [] OTHER                    -> [IsduHandler(d) EXCEPT !.trigger = "NONE"]
OdIsdu(d) ==
    CASE CommandDue(d)            -> [CmdHandler(d) EXCEPT !.od = "COMMAND"]
      [] ~CommandDue(d) /\ d.flag -> [IsduHandler(d) EXCEPT !.od = "EVENT"]
      [] OTHER                    -> [IsduHandler(d) EXCEPT !.trigger = "NONE"]
CommandOver(d) == d.trigger # "NONE" /\ ~d.code
OdCommand(d) ==
    IF CommandOver(d)
    THEN [d EXCEPT !.trigger = "NONE", !.operate = FALSE,
                   !.preop = IF d.operate THEN "confirmed" ELSE @,
                   !.od = IF d.flag THEN "EVENT" ELSE "ISDU"]
    ELSE [d EXCEPT !.trigger = "NONE"]
OdEvent(d) ==
    CASE CommandDue(d)             -> [CmdHandler(d) EXCEPT !.od = "COMMAND"]
      [] ~CommandDue(d) /\ ~d.flag -> [d EXCEPT !.od = "ISDU"]
      [] ~CommandDue(d) /\ d.flag /\ d.trigger # "NONE" ->
            [EvHandler(d) EXCEPT !.trigger = "NONE"]
      [] OTHER -> d
OdHandler(d) ==
    CASE d.od = "INACTIVE" -> [d EXCEPT !.od = "ISDU"]
      [] d.od = "ISDU"     -> OdIsdu(d)
      [] d.od = "COMMAND"  -> OdCommand(d)
      [] d.od = "EVENT"    -> OdEvent(d)

Device(d) == OdHandler([d EXCEPT !.trigger = "DEVICE"])
Master(d) == OdHandler([d EXCEPT !.trigger = "MASTER"])

(* OH_Conf, IH_Conf and EH_Conf in their order.                            *)
OH_ConfInactive(d) ==
    IF d.od = "COMMAND" THEN [d EXCEPT !.cmdh = "INACTIVE"] ELSE [d EXCEPT !.od = "INACTIVE"]
EH_Conf(d, active) == EvHandler([d EXCEPT !.ehActive = active])
HandlersActive(d)   == EH_Conf(OdHandler(d), TRUE)
HandlersInactive(d) == EH_Conf(OH_ConfInactive(d), FALSE)
CH_Conf(d, active)  == CmdHandler([d EXCEPT !.chActive = active])

-----------------------------------------------------------------------------
(* A step of the DL thread leaves a record and the sets it signalled,      *)
(* which it posts entry by entry.                                          *)

Jobs(set) ==
    [i \in 1 .. Len(set) |-> [type |-> "DL_EVENT_IND", entry |-> set[i], left |-> Len(set) - i]]
Handed(sets) == [i \in 1 .. Len(sets) |-> [set |-> sets[i], no |-> Number(sets[i])]]
Settle(step) ==
    \E d \in {step} :
        /\ h' = [d EXCEPT !.signals = <<>>]
        /\ mbox' = mbox \o FlattenSeq([i \in 1 .. Len(d.signals) |-> Jobs(d.signals[i])])
        /\ told' = told \o Handed(d.signals)
        /\ lost' = (lost /\ told' = told)

(* PL_MessageDownload_req and PL_Transfer_req: the transceiver repeats the *)
(* message it holds in every cycle once its cycle timer runs.              *)
PL_MessageDownload_req(d) ==
    [d EXCEPT !.message = IF d.cycle THEN d.tx ELSE NoMessage, !.dataready = FALSE]
PL_Transfer_req(d) == [d EXCEPT !.message = d.tx, !.dataready = FALSE, !.retry = 0]

-----------------------------------------------------------------------------
(* The device (external).  It keeps a set until that is confirmed, and     *)
(* freezes the next one not before the confirmation has been answered.     *)

Quiet == mbox = <<>> /\ al.state = "Event_idle"
Raise(kind) ==
    /\ ~Pending /\ h.message # Confirm
    /\ Prompt => Quiet
    /\ Calm => "PREOPERATE" \notin {h.mdh, h.mode} /\ (h.mdh = "OPERATE" => h.mode = "OPERATE")
    /\ Spend("raise")
    /\ frozen' = Append(frozen, kind)
    /\ UNCHANGED <<h, al, mbox, settled, told, reports, lost, app>>

DeviceRestart ==
    /\ h.mdh = "IDLE" /\ Pending
    /\ Calm => ~h.confirmation
    /\ Spend("restart")
    /\ settled' = Len(frozen)
    /\ UNCHANGED <<h, al, mbox, frozen, told, reports, lost, app>>

Confirmed == h.message = Confirm /\ Pending

(* The steps of the DL thread that run the OD or the command handler.      *)
HandlerFree == Paced => app = "idle"

(* The reply reaches the master: iolink_dl_message_h_sm_await_reply16.     *)
Exchange(d) == \E r \in {Device(d)} : Settle(PL_MessageDownload_req(Master(r)))
Reply16 ==
    /\ h.mh = "AW_REPLY_16" /\ h.message # NoMessage /\ HandlerFree
    /\ settled' = IF Confirmed THEN Len(frozen) ELSE settled
    /\ Exchange([h EXCEPT !.flag = Pending /\ ~Confirmed])
    /\ UNCHANGED <<al, frozen, reports, app, used>>

(* iolink_dl_message_h_sm_await_reply9.  A set flag keeps the handler      *)
(* there, with the reply it has handled still marked as new.               *)
AwaitReply9(d) ==
    LET handled == [Device(d) EXCEPT !.message = NoMessage, !.dataready = TRUE]
    IN  CASE d.mode = "OPERATE" /\ d.mdh = "OPERATE" -> [handled EXCEPT !.mh = "AW_REPLY_16"]
          [] d.mdh # "OPERATE" /\ ~d.flag -> [handled EXCEPT !.mh = "PREOPERATE_6"]
          [] OTHER -> handled
Reply9 ==
    /\ h.mh = "AW_REPLY_9" /\ h.message # NoMessage /\ HandlerFree
    /\ Settle(AwaitReply9([h EXCEPT !.flag = Pending]))
    /\ UNCHANGED <<al, frozen, settled, reports, app, used>>

(* A reply is lost or broken, whether the device has seen the message or   *)
(* not; retry is not reset before the cyclic exchange starts again.        *)
ComLost(d) ==
    [d EXCEPT !.mh = "INACTIVE", !.message = NoMessage, !.comlost = TRUE, !.mdhEvent = TRUE,
              !.operate = d.mh = "AW_REPLY_16" /\ @,
              !.retry = IF d.mh = "AW_REPLY_16" THEN @ + 1 ELSE @]
MessageLost ==
    /\ h.mh \in {"AW_REPLY_16", "AW_REPLY_9"} /\ h.message # NoMessage
    /\ Spend("loss")
    /\ settled' \in {settled, IF Confirmed THEN Len(frozen) ELSE settled}
    /\ \/ /\ h.retry < MaxRetry
          /\ h' = [h EXCEPT !.retry = @ + 1] /\ UNCHANGED lost
       \/ /\ h.retry >= MaxRetry
          /\ h' = ComLost(h) /\ lost' = TRUE
    /\ UNCHANGED <<al, mbox, frozen, told, reports, app>>

(* iolink_dl_message_h_sm_preoperate6, for IOLINK_DL_EVENT_MH              *)
Preoperate6 ==
    /\ h.mhEvent
    /\ h' = [h EXCEPT !.mhEvent = FALSE,
                      !.mh = IF @ = "PREOPERATE_6" /\ (h.operate \/ h.flag) THEN "GETOD_7" ELSE @]
    /\ UNCHANGED <<al, mbox, frozen, settled, told, reports, lost, app, used>>

(* The timeout of TInitcyc: ..._get_od7; ..._operate12, whose first        *)
(* message starts the cycle timer; and a handler that came from AW_REPLY_9 *)
(* to AW_REPLY_16, which handles the reply of that state again.            *)
TimedOut(d) ==
    CASE d.mh = "GETOD_7"    -> [PL_Transfer_req(Master(d)) EXCEPT !.mh = "AW_REPLY_9"]
      [] d.mh = "OPERATE_12" -> [PL_Transfer_req(Master(d)) EXCEPT
                                    !.mh = "AW_REPLY_16", !.cycle = TRUE]
      [] OTHER               -> PL_MessageDownload_req(Master(Device(d)))
Timeout ==
    /\ h.mh \in {"GETOD_7", "OPERATE_12"} \/ (h.mh = "AW_REPLY_16" /\ h.dataready)
    /\ HandlerFree
    /\ Settle(TimedOut(h))
    /\ UNCHANGED <<al, frozen, settled, reports, app, used>>

-----------------------------------------------------------------------------
(* The mode handler.                                                       *)

(* MH_Conf for IOL_MHCMD_OPERATE: a handler in AW_REPLY_9 runs on its last *)
(* reply.  For INACTIVE and STARTUP in OPERATE the cycle timer is stopped. *)
(* Mutant: the message handler is only told in STARTUP.                    *)
MH_ConfOperateOnlyStartup(d) ==
    IF d.mh = "STARTUP_2" THEN [d EXCEPT !.mh = "OPERATE_12"] ELSE d
MH_ConfOperate(d) ==
    CASE d.mh \in {"STARTUP_2", "PREOPERATE_6"}   -> [d EXCEPT !.mh = "OPERATE_12"]
      [] d.mh = "AW_REPLY_9" /\ d.dataready       -> AwaitReply9(d)
      [] OTHER                                    -> d
Stop(d, mh) ==
    IF d.mh \in {"OPERATE_12", "AW_REPLY_16"}
    THEN [d EXCEPT !.mh = mh, !.message = NoMessage, !.cycle = FALSE, !.dataready = FALSE]
    ELSE [d EXCEPT !.cycle = FALSE]

GotoOperate(d)  == MH_ConfOperate([d EXCEPT !.mdh = "OPERATE"])
GotoIdle(d) ==
    [Stop(CH_Conf(HandlersInactive(d), FALSE), "INACTIVE") EXCEPT
        !.mdh = "IDLE", !.comlost = FALSE,
        !.mdhEvent = h.mh \in {"OPERATE_12", "AW_REPLY_16"}]
GotoStartup(d)  == [Stop(HandlersInactive(d), "STARTUP_2") EXCEPT !.mdh = "STARTUP"]

(* iolink_dl_mode_h_sm *)
Run(d) == Settle(d) /\ UNCHANGED <<al, frozen, settled, reports, app, used>>
ModeHandler ==
    LET d == [h EXCEPT !.mdhEvent = FALSE]
    IN  /\ h.mdhEvent /\ HandlerFree
        /\ \/ /\ h.mdh = "STARTUP" /\ h.mode = "PREOPERATE"
              /\ Run([HandlersActive(d) EXCEPT
                        !.mdh = "PREOPERATE", !.mh = "PREOPERATE_6", !.preop = "none"])
           \/ /\ h.mdh = "STARTUP" /\ h.mode = "OPERATE"
              /\ Run(GotoOperate(HandlersActive(d)))
           \/ /\ h.mdh = "STARTUP" /\ h.mode = "INACTIVE"
              /\ Run(GotoIdle(d))
           \/ /\ h.mdh = "PREOPERATE" /\ h.comlost
              /\ Run(GotoIdle(d))
           \/ /\ h.mdh = "PREOPERATE" /\ ~h.comlost /\ h.mode = "OPERATE"
              /\ Run(GotoOperate(d))
           \/ /\ h.mdh = "OPERATE" /\ h.mode = "STARTUP"
              /\ Run(GotoStartup(d))
           \/ /\ h.mdh = "OPERATE" /\ h.mode # "STARTUP"
              /\ h.mode = "INACTIVE" \/ h.comlost
              /\ Run(GotoIdle(d))
           \/ /\ h.mdh = "IDLE" /\ h.mode # "STARTUP"
              /\ Run(d)

(* iolink_pl_init_sdci and iolink_dl_wurq_recv *)
WakeUp ==
    /\ h.mdhEvent /\ h.mdh = "IDLE" /\ h.mode = "STARTUP"
    /\ h' = CH_Conf([h EXCEPT !.mdhEvent = FALSE, !.mdh = "STARTUP", !.mh = "STARTUP_2",
                              !.cycle = FALSE, !.dataready = FALSE, !.mhEvent = TRUE], TRUE)
    /\ UNCHANGED <<al, mbox, frozen, settled, told, reports, lost, app, used>>

-----------------------------------------------------------------------------
(* The system management and the application (main and calling threads).   *)

DL_SetMode_req(mode) ==
    /\ h' = [h EXCEPT !.mode = mode, !.mdhEvent = TRUE]
    /\ UNCHANGED <<al, mbox, frozen, settled, told, reports, lost, app>>

(* The way up: STARTUP, then OPERATE at once (a device of revision 1.0) or *)
(* by way of PREOPERATE, which takes a MasterCommand.  A port whose device *)
(* was lost on its way back to STARTUP does not answer and is given up.    *)
(* The SM learns of a mode by a job that waits behind those of the events. *)
SmStartup ==
    /\ mbox = <<>> /\ h.mdh = "IDLE" /\ h.mode # "STARTUP"
    /\ DL_SetMode_req("STARTUP") /\ UNCHANGED used
SmPreoperate ==
    /\ mbox = <<>> /\ h.mdh = "STARTUP" /\ h.mode = "STARTUP" /\ h.mh = "STARTUP_2"
    /\ Calm => ~Pending
    /\ DL_SetMode_req("PREOPERATE") /\ UNCHANGED used
(* The OPERATE command: the code is set and the command handler called in  *)
(* one step, since the message handler waits in PREOPERATE for the event   *)
(* raised at the end and no OD handler runs in between (but for an event   *)
(* of the device, see Calm).                                               *)
DL_Write_Devicemode_req ==
    /\ mbox = <<>> /\ h.mdh = "PREOPERATE" /\ h.preop = "none"
    /\ h' = [CmdHandler([h EXCEPT !.operate = TRUE, !.code = TRUE]) EXCEPT
                !.preop = "asked", !.mhEvent = TRUE]
    /\ UNCHANGED <<al, mbox, frozen, settled, told, reports, lost, app, used>>
SmOperate ==
    /\ \/ h.mdh = "STARTUP" /\ h.mode = "STARTUP" /\ h.mh = "STARTUP_2"
       \/ h.mdh = "PREOPERATE" /\ h.mode = "PREOPERATE" /\ h.preop = "confirmed"
    /\ mbox = <<>>
    /\ DL_SetMode_req("OPERATE") /\ UNCHANGED used
SmGiveUp ==
    /\ mbox = <<>> /\ h.mdh = "STARTUP" /\ h.mode = "STARTUP" /\ h.mh = "INACTIVE"
    /\ DL_SetMode_req("INACTIVE") /\ UNCHANGED used
Reconfigure(mode) ==
    /\ h.mdh = "OPERATE" /\ h.mode = "OPERATE"
    /\ Calm => ~Pending /\ ~h.code /\ ~h.flag /\ h.od = "ISDU" /\ h.ev = "IDLE"
    /\ Spend("config")
    /\ DL_SetMode_req(mode)

(* A control code for the process data outputs: the thread of the          *)
(* application sets it and then calls the command handler, without a lock. *)
DL_Control_req ==
    /\ h.mdh = "OPERATE" /\ h.mode = "OPERATE" /\ app = "idle"
    /\ Paced => ~h.code /\ h.od # "COMMAND"
    /\ Spend("control")
    /\ h' = [h EXCEPT !.code = TRUE] /\ app' = "cmd"
    /\ UNCHANGED <<al, mbox, frozen, settled, told, reports, lost>>
ControlCmd ==
    /\ app = "cmd"
    /\ h' = CmdHandler(h) /\ app' = "idle"
    /\ UNCHANGED <<al, mbox, frozen, settled, told, reports, lost, used>>

-----------------------------------------------------------------------------
(* The event machine of the AL (main thread).                              *)

(* AL_Event_ind: the confirmation of the AL comes first; every slot of the *)
(* array is searched for an upload request, those of earlier sets too, and *)
(* nothing else of the set is reported with it.                            *)
Collected(a) == [i \in 1 .. a.cnt |-> a.events[i - 1]]
DS_Upload == [to |-> "DS", set |-> <<>>]
Told(set) == [to |-> "application", set |-> set]
Report(a) ==
    IF \E s \in Slots : IsUpload(a.events[s]) THEN DS_Upload ELSE Told(Collected(a))
Expect(set) ==
    IF \E i \in 1 .. Len(set) : IsUpload(set[i]) THEN DS_Upload ELSE Told(set)

(* al_dl_event_ind_cb; a job that finds no transition only has counted.    *)
Collecting(a) == a.state \in {"Event_idle", "Read_Event_Set"}
(* Mutant: the last but one entry completes the set.                       *)
CollectOffByOne(a, job) ==
    LET got == [a EXCEPT !.events[a.cnt] = job.entry, !.cnt = @ + 1]
    IN  CASE a.cnt \notin Slots                -> [a EXCEPT !.state = "ASSERTED"]
          [] a.cnt \in Slots /\ ~Collecting(a) -> got
          [] a.cnt \in Slots /\ Collecting(a) /\ job.left > 1 ->
                [got EXCEPT !.state = "Read_Event_Set"]
          [] OTHER -> [got EXCEPT !.state = "DU_Event_handling"]
Collect(a, job) ==
    LET got == [a EXCEPT !.events[a.cnt] = job.entry, !.cnt = @ + 1]
    IN  CASE a.cnt \notin Slots                      -> [a EXCEPT !.state = "ASSERTED"]
          [] a.cnt \in Slots /\ ~Collecting(a)       -> got
          [] a.cnt \in Slots /\ Collecting(a) /\ job.left > 0 ->
                [got EXCEPT !.state = "Read_Event_Set"]
          [] OTHER -> [got EXCEPT !.state = "DU_Event_handling"]
AlEventInd ==
    /\ mbox # <<>> /\ Head(mbox).type = "DL_EVENT_IND"
    /\ al' = Collect(al, Head(mbox))
    /\ LET done == Collecting(al) /\ al'.state = "DU_Event_handling"
       IN  /\ reports' = IF done THEN Append(reports, Report(al')) ELSE reports
           /\ mbox' = IF done THEN Append(Tail(mbox), [type |-> "AL_EVENT_RSP"]) ELSE Tail(mbox)
    /\ UNCHANGED <<h, frozen, settled, told, lost, app, used>>

(* Mutant: the entries of the set are not forgotten.                       *)
AlEventRspKeepsCount ==
    /\ mbox # <<>> /\ Head(mbox).type = "AL_EVENT_RSP"
    /\ mbox' = Tail(mbox)
    /\ al' = [al EXCEPT !.state = "Event_idle"]
    /\ UNCHANGED <<h, frozen, settled, told, reports, lost, app, used>>

(* al_event_rsp_cb *)
AlEventRsp ==
    /\ mbox # <<>> /\ Head(mbox).type = "AL_EVENT_RSP"
    /\ mbox' = Tail(mbox)
    /\ al' = IF al.state = "DU_Event_handling" THEN [al EXCEPT !.state = "Event_idle", !.cnt = 0]
             ELSE al
    /\ UNCHANGED <<h, frozen, settled, told, reports, lost, app, used>>

-----------------------------------------------------------------------------
DlThread   == Reply9 \/ Reply16 \/ Preoperate6 \/ Timeout \/ ModeHandler \/ WakeUp
MainThread == AlEventInd \/ AlEventRsp
Bringup    == SmStartup \/ SmPreoperate \/ DL_Write_Devicemode_req \/ SmOperate \/ SmGiveUp

Next ==
    \/ \E kind \in Kinds : Raise(kind)
    \/ DeviceRestart \/ MessageLost
    \/ DlThread \/ MainThread \/ Bringup
    \/ \E mode \in {"STARTUP", "INACTIVE"} : Reconfigure(mode)
    \/ DL_Control_req \/ ControlCmd

Spec == Init /\ [][Next]_vars

(* All threads run, and the SM brings the port up again.                   *)
LiveSpec ==
    /\ Spec
    /\ WF_vars(DlThread) /\ WF_vars(MainThread) /\ WF_vars(Bringup) /\ WF_vars(ControlCmd)

-----------------------------------------------------------------------------
(* Properties.                                                             *)

Octets == [no : 0 .. Len(frozen), addr : 0 .. 3 * MaxEvents]
Entry(e) == e \in Seq(Octets) /\ Len(e) \in {1, 3}

(* Type invariant; the AL never counts past its array, and the octet the   *)
(* event handler is about to ask for lies in the memory of the device.     *)
TypeOK ==
    /\ h.mdh \in {"IDLE", "STARTUP", "PREOPERATE", "OPERATE"}
    /\ h.mh \in {"INACTIVE", "STARTUP_2", "PREOPERATE_6", "GETOD_7", "AW_REPLY_9",
                  "OPERATE_12", "AW_REPLY_16"}
    /\ h.od \in {"INACTIVE", "ISDU", "COMMAND", "EVENT"}
    /\ h.cmdh \in {"INACTIVE", "IDLE", "MASTERCOMMAND"}
    /\ h.ev \in {"INACTIVE", "IDLE", "READEVENT"}
    /\ h.retry \in 0 .. MaxRetry + 1
    /\ h.addr \in 0 .. 3 * MaxEvents /\ h.cnt \in 0 .. MaxEvents
    /\ h.num \in 0 .. MaxEvents /\ h.current \in 0 .. MaxEvents
    /\ \A s \in Slots : h.events[s] \in [1 .. 3 -> Octets]
    /\ al.state \in {"Event_idle", "Read_Event_Set", "DU_Event_handling"}
    /\ al.cnt \in 0 .. MaxEvents
    /\ \A i \in 1 .. Len(mbox) : mbox[i].type = "DL_EVENT_IND" => Entry(mbox[i].entry)
    /\ settled \in 0 .. Len(frozen)

(* The event channel implements its promise to the device.                 *)
Transfer == INSTANCE EventTransfer WITH
    raised  <- Len(frozen),
    handed  <- [i \in 1 .. Len(told) |-> told[i].no],
    restarts <- used.restart
ImplementsEventTransfer == Transfer!Spec

(* The AL collects the entries of one set and reports them together, in    *)
(* the order of the sets, nothing else with them; and no set is left       *)
(* unreported when the main thread has done its work.                      *)
ReportedAsTold ==
    /\ Len(reports) <= Len(told)
    /\ \A i \in 1 .. Len(reports) : reports[i] = Expect(told[i].set)
    /\ mbox = <<>> => Len(reports) = Len(told)

(* A port that was brought to OPERATE exchanges messages, or is on its way *)
(* out of that mode.                                                       *)
Operating == h.mdh = "OPERATE" /\ h.mode = "OPERATE" /\ ~h.comlost
ExchangesInOperate == [](Operating => <>(h.message # NoMessage \/ ~Operating))

(* A control code given to an operating port is sent to the device: a      *)
(* MasterCommand goes out, or the port is on its way out of OPERATE.       *)
ControlIsSent == []((Operating /\ h.code) => <>(h.message = Command \/ ~Operating))
=============================================================================

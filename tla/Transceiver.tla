------------------------------ MODULE Transceiver ------------------------------
(***************************************************************************)
(* One MAX14819 chip with its channels, its driver                         *)
(* (iolink_max14819_pl.c), and the DL threads of the ports at it           *)
(* (iolink_dl.c) up to STARTUP: interrupts, the events of the threads, the *)
(* wake-up, and the exchange of the pages the SM reads and writes.  A call *)
(* of the driver runs under the mutex of the chip and is one step; only    *)
(* the interrupt handler is two, for the chip goes on between its reads.   *)
(***************************************************************************)
EXTENDS Naturals, FiniteSets

CONSTANTS
    Channels,       \* of the chip: MAX14819_NUM_CHANNELS
    None,           \* no channel
    MaxRetry,       \* IOLINK_MAX_RETRY
    MaxCfg,         \* bound: calls of the SM that change the mode of a port
    MaxReq,         \* bound: reads and writes of the SM
    Patient         \* a port is configured only while its thread and the chip are quiet

ASSUME TransceiverAssumption ==
    /\ None \notin Channels
    /\ {MaxRetry, MaxCfg, MaxReq} \subseteq Nat
    /\ Patient \in BOOLEAN

VARIABLES
    chip,       \* registers of the MAX14819 (external)
    isr,        \* iolink_14819_isr is due
    drv,        \* is_iolink and wurq_request of iolink_14819_drv_t
    handler,    \* iolink_pl_max14819_pl_handler has read REG_Interrupt
    holder,     \* the thread that did not give the mutex back
    events,     \* dl->event of each port
    turn,       \* what is left of triggered_events in this turn of dl_main
    dl,         \* the mode and message handlers of each port
    main        \* a call of the main thread that is half done, and the calls so far

vars == <<chip, isr, drv, handler, holder, events, turn, dl, main>>

(* Bits of REG_Interrupt.                                                  *)
Wurq == <<"WURQ">>
Rdy(ch) == <<"RX_DATA_RDY", ch>>
Err(ch) == <<"RX_ERR", ch>>
Bits == {Wurq} \cup {Rdy(ch) : ch \in Channels} \cup {Err(ch) : ch \in Channels}
(* Bits of the event of a DL thread.                                       *)
Events == {"PL", "RXRDY", "RXERR", "WURQ", "MDH", "MH", "TIMEOUT"}

NoHandler == [by |-> None, reg |-> {}, data |-> FALSE]

Off == [ch \in Channels |-> FALSE]

DlInit ==
    [mdh |-> "IDLE", mode |-> "INACTIVE", lost |-> FALSE, mh |-> "INACTIVE",
     rwcmd |-> FALSE, retry |-> 0, dataready |-> FALSE, rxerror |-> FALSE,
     timer |-> FALSE, timed |-> FALSE, asked |-> FALSE]

Init ==
    /\ chip = [pending |-> {}, enabled |-> {}, est |-> Off, com |-> Off, err |-> Off,
               fifo |-> Off, busy |-> Off]
    /\ isr = FALSE
    /\ drv = [io |-> Off, wurq |-> Off]
    /\ handler = NoHandler
    /\ holder = None
    /\ events = [ch \in Channels |-> {}]
    /\ turn = [ch \in Channels |-> {}]
    /\ dl = [ch \in Channels |-> DlInit]
    /\ main = [on |-> None, mode |-> "INACTIVE", cfg |-> 0, req |-> 0]

-----------------------------------------------------------------------------
(* The chip (external).  Its interrupt line is low while a bit is pending  *)
(* that is enabled; only the read of REG_Interrupt clears the bits.  The   *)
(* interrupt is taken at the falling edge of the line.                     *)

Line(c) == c.pending \cap c.enabled # {}

Chip(c) ==
    /\ chip' = c
    /\ isr' = (isr \/ (Line(c) /\ ~Line(chip)))

(* The wake-up ends, with a device found or not.                           *)
WakeUpOver(ch) ==
    /\ chip.est[ch]
    /\ \E found \in BOOLEAN :
        Chip([chip EXCEPT !.est[ch] = FALSE, !.com[ch] = found, !.pending = @ \cup {Wurq}])
    /\ UNCHANGED <<drv, handler, holder, events, turn, dl, main>>

Reply(ch) ==
    /\ chip.busy[ch] /\ chip.com[ch]
    /\ Chip([chip EXCEPT !.busy[ch] = FALSE, !.fifo[ch] = TRUE, !.pending = @ \cup {Rdy(ch)}])
    /\ UNCHANGED <<drv, handler, holder, events, turn, dl, main>>
(* A bad reply, or none in time.                                           *)
Fault(ch) ==
    /\ chip.busy[ch]
    /\ Chip([chip EXCEPT !.busy[ch] = FALSE, !.err[ch] = TRUE, !.pending = @ \cup {Err(ch)}])
    /\ UNCHANGED <<drv, handler, holder, events, turn, dl, main>>

(* Mutant: only the first port of the chip is told.                        *)
IsrFirst ==
    /\ isr
    /\ isr' = FALSE
    /\ LET first == CHOOSE ch \in Channels : TRUE
       IN  events' = [events EXCEPT ![first] = @ \cup {"PL"}]
    /\ UNCHANGED <<chip, drv, handler, holder, turn, dl, main>>
(* iolink_14819_isr *)
Isr ==
    /\ isr
    /\ isr' = FALSE
    /\ events' = [ch \in Channels |-> events[ch] \cup {"PL"}]
    /\ UNCHANGED <<chip, drv, handler, holder, turn, dl, main>>

-----------------------------------------------------------------------------
(* The driver: what a call makes of the registers.                         *)

Free(thread) == handler = NoHandler /\ holder \in {None, thread}

(* iolink_pl_max14819_set_mode *)
Reset(c, ch) ==
    [c EXCEPT !.est[ch] = FALSE, !.com[ch] = FALSE, !.fifo[ch] = FALSE, !.busy[ch] = FALSE]
(* Mutant: the interrupt of the wake-up is disabled with the port.         *)
SetDIWurq(ch) ==
    /\ Chip([Reset(chip, ch) EXCEPT !.enabled = @ \ {Rdy(ch), Err(ch), Wurq}])
    /\ drv' = [drv EXCEPT !.io[ch] = FALSE, !.wurq[ch] = FALSE]
SetDI(ch) ==
    /\ Chip([Reset(chip, ch) EXCEPT !.enabled = @ \ {Rdy(ch), Err(ch)}])
    /\ drv' = [drv EXCEPT !.io[ch] = FALSE, !.wurq[ch] = FALSE]
SetSDCI(ch) ==
    /\ Chip([Reset(chip, ch) EXCEPT !.err[ch] = FALSE, !.enabled = @ \cup {Rdy(ch), Err(ch)}])
    /\ drv' = [drv EXCEPT !.io[ch] = TRUE, !.wurq[ch] = FALSE]

(* iolink_pl_max14819_init_sdci *)
InitSdci(ch) ==
    /\ Chip([Reset(chip, ch) EXCEPT !.est[ch] = TRUE, !.enabled = @ \cup {Wurq}])
    /\ drv' = [drv EXCEPT !.wurq[ch] = TRUE]

(* iolink_pl_max14819_pl_handler: REG_Interrupt is read, which clears it,  *)
(* and then CQCtrl of the channels.  It serves all the channels.           *)
ReadInterrupt(ch, c, data) ==
    /\ Chip([c EXCEPT !.pending = {}])
    /\ handler' = [by |-> ch, reg |-> c.pending, data |-> data]

(* Mutant: the search ends at the first channel that is found.             *)
WokenUpFirst ==
    LET found == {x \in Channels : Wurq \in handler.reg /\ drv.wurq[x] /\ ~chip.est[x]}
    IN  IF found = {} THEN {} ELSE {CHOOSE x \in found : TRUE}
WokenUp == {x \in Channels : Wurq \in handler.reg /\ drv.wurq[x] /\ ~chip.est[x]}
PlEvents(x) ==
    (IF x \in WokenUp THEN {"WURQ"} ELSE {})
    \cup (IF Err(x) \in handler.reg THEN {"RXERR"} ELSE {})
    \cup (IF Rdy(x) \in handler.reg THEN {"RXRDY"} ELSE {})
SetEvents == [x \in Channels |-> events[x] \cup PlEvents(x)]

(* PL_Transfer_req and PL_Resend; iolink_pl_get_error clears what it reads.*)
Send(c, ch)     == [c EXCEPT !.busy[ch] = TRUE]
GetError(c, ch) == [c EXCEPT !.err[ch] = FALSE]

-----------------------------------------------------------------------------
(* The message handler, as a function of its record and the registers.     *)
(* RESPONSE_3 and AW_REPLY_4 are one.                                      *)

Step(d, c) == [d |-> d, c |-> c]
(* Mutant: os_timer_start is forgotten.                                    *)
StartTimerNot(d) == [d EXCEPT !.timed = TRUE]
StartTimer(d) == [d EXCEPT !.timer = TRUE, !.timed = TRUE]

(* iolink_dl_message_h_sm_startup2 *)
Startup2(d, c, ch) ==
    IF d.rwcmd
    THEN Step([d EXCEPT !.mh = "AW_REPLY_4", !.retry = 0, !.dataready = FALSE], Send(c, ch))
    ELSE Step(d, c)

(* iolink_dl_message_h_sm_await_reply4 *)
AwaitReply4(d, c) ==
    CASE d.dataready -> Step([d EXCEPT !.mh = "STARTUP_2", !.rwcmd = FALSE], c)
      [] ~d.dataready /\ d.rxerror ->
            Step([StartTimer(d) EXCEPT !.mh = "ERRORHANDLING_5"], c)
      [] OTHER -> Step(d, c)

(* Mutant: one retry too many.                                             *)
ErrorHandling5More(d, c, ch, elapsed) ==
    CASE d.retry > MaxRetry ->
            Step([d EXCEPT !.mh = "INACTIVE", !.lost = TRUE, !.rwcmd = FALSE, !.timed = FALSE], c)
      [] d.retry <= MaxRetry /\ elapsed ->
            Step([d EXCEPT !.mh = "AW_REPLY_4", !.retry = @ + 1], Send(c, ch))
      [] OTHER -> Step(d, c)
(* iolink_dl_message_h_sm_error_handling5 *)
ErrorHandling5(d, c, ch, elapsed) ==
    CASE d.retry >= MaxRetry ->
            Step([d EXCEPT !.mh = "INACTIVE", !.lost = TRUE, !.rwcmd = FALSE, !.timed = FALSE], c)
      [] d.retry < MaxRetry /\ elapsed ->
            Step([d EXCEPT !.mh = "AW_REPLY_4", !.retry = @ + 1], Send(c, ch))
      [] OTHER -> Step(d, c)

(* iolink_dl_message_h_sm *)
MessageH(d, c, ch, elapsed) ==
    CASE d.mh = "STARTUP_2"       -> Startup2(d, c, ch)
      [] d.mh = "AW_REPLY_4"      -> AwaitReply4(d, c)
      [] d.mh = "ERRORHANDLING_5" -> ErrorHandling5(d, c, ch, elapsed)
      [] OTHER                    -> Step(d, c)

(* A loss of communication raises IOLINK_DL_EVENT_MDH.                     *)
Raised(d, step) == IF d.mh # "INACTIVE" /\ step.d.mh = "INACTIVE" THEN {"MDH"} ELSE {}

(* What a call of the message handler leaves behind.                       *)
Leave(ch, step) ==
    /\ Chip(step.c)
    /\ dl' = [dl EXCEPT ![ch] = step.d]
    /\ events' = [events EXCEPT ![ch] = @ \cup Raised(dl[ch], step)]

-----------------------------------------------------------------------------
(* A turn of dl_main: the events that were set are handled in this order.  *)

Before == [PL |-> {}, RXRDY |-> {"PL"}, RXERR |-> {"PL", "RXRDY"},
           WURQ |-> {"PL", "RXRDY", "RXERR"}, MDH |-> {"PL", "RXRDY", "RXERR", "WURQ"},
           MH |-> {"PL", "RXRDY", "RXERR", "WURQ", "MDH"}, TIMEOUT |-> Events \ {"TIMEOUT"}]
Handle(ch, event) ==
    /\ event \in turn[ch] /\ turn[ch] \cap Before[event] = {}
    /\ turn' = [turn EXCEPT ![ch] = @ \ {event}]
    /\ Free(ch)

TakeTurn(ch) ==
    /\ turn[ch] = {} /\ events[ch] # {} /\ handler.by # ch
    /\ turn' = [turn EXCEPT ![ch] = events[ch]]
    /\ events' = [events EXCEPT ![ch] = {}]
    /\ UNCHANGED <<chip, isr, drv, handler, holder, dl, main>>

PlEvent(ch) ==
    /\ Handle(ch, "PL")
    /\ IF drv.io[ch] THEN ReadInterrupt(ch, chip, FALSE) ELSE UNCHANGED <<chip, isr, handler>>
    /\ UNCHANGED <<drv, holder, events, dl, main>>

(* The rest of the handler, and of get_data if it was called there.        *)
PlServe(ch) ==
    /\ handler.by = ch
    /\ drv' = [drv EXCEPT !.wurq = [x \in Channels |-> @[x] /\ x \notin WokenUp]]
    /\ LET d    == [dl[ch] EXCEPT !.dataready = TRUE]
           step == MessageH(d, chip, ch, FALSE)
       IN  IF handler.data
           THEN /\ Chip(step.c)
                /\ dl' = [dl EXCEPT ![ch] = step.d]
                /\ events' = [SetEvents EXCEPT ![ch] = @ \cup Raised(d, step)]
           ELSE /\ events' = SetEvents
                /\ UNCHANGED <<chip, isr, dl>>
    /\ handler' = NoHandler
    /\ UNCHANGED <<holder, turn, main>>

(* iolink_pl_max14819_get_data.  If the chip reports an interrupt with the *)
(* data, the interrupt handler runs first.                                 *)
RxReady(ch) ==
    /\ Handle(ch, "RXRDY")
    /\ LET taken == [chip EXCEPT !.fifo[ch] = FALSE]
           known == Line(chip) /\ drv.io[ch]
       IN  \/ /\ ~chip.fifo[ch]
              /\ UNCHANGED <<chip, isr, handler, events, dl>>
           \/ /\ chip.fifo[ch] /\ known
              /\ ReadInterrupt(ch, taken, TRUE)
              /\ UNCHANGED <<events, dl>>
           \/ /\ chip.fifo[ch] /\ ~known
              /\ Leave(ch, MessageH([dl[ch] EXCEPT !.dataready = TRUE], taken, ch, FALSE))
              /\ UNCHANGED handler
    /\ UNCHANGED <<drv, holder, main>>

(* The levels of the receive FIFO disagree: it is reset, and the function  *)
(* returns with the mutex.                                                 *)
RxDisagrees(ch) ==
    /\ Handle(ch, "RXRDY") /\ chip.fifo[ch]
    /\ Chip([chip EXCEPT !.fifo[ch] = FALSE])
    /\ holder' = ch
    /\ UNCHANGED <<drv, handler, events, dl, main>>

(* iolink_dl_handle_error *)
RxError(ch) ==
    /\ Handle(ch, "RXERR")
    /\ Leave(ch, IF chip.err[ch]
                 THEN MessageH([dl[ch] EXCEPT !.rxerror = TRUE], GetError(chip, ch), ch, FALSE)
                 ELSE Step(dl[ch], chip))
    /\ UNCHANGED <<drv, handler, holder, main>>

(* iolink_dl_wurq_recv; a baud rate means a device was found.              *)
WurqRecv(ch) ==
    /\ Handle(ch, "WURQ")
    /\ \/ /\ ~chip.com[ch]
          /\ dl' = [dl EXCEPT ![ch] = [@ EXCEPT !.mdh = "IDLE", !.lost = FALSE, !.asked = FALSE]]
          /\ UNCHANGED <<chip, isr, events>>
       \/ /\ chip.com[ch]
          /\ dl' = [dl EXCEPT ![ch] = [@ EXCEPT !.mdh = "STARTUP", !.mh = "STARTUP_2",
                                                !.asked = FALSE]]
          /\ Chip(GetError(chip, ch))
          /\ events' = [events EXCEPT ![ch] = @ \cup {"MH"}]
    /\ UNCHANGED <<drv, handler, holder, main>>

(* iolink_dl_mode_h_sm_idle0, which gives up if a wake-up is under way.    *)
Starting(ch) == dl[ch].mdh = "IDLE" /\ dl[ch].mode = "STARTUP" /\ ~drv.wurq[ch]
StartCom(ch) ==
    /\ Starting(ch)
    /\ InitSdci(ch)
    /\ dl' = [dl EXCEPT ![ch].mdh = "ESTCOM"]
    /\ UNCHANGED events

(* iolink_dl_mode_h_sm_startup2 and ..._goto_idle, with MH_Conf(INACTIVE). *)
(* Mutant: DL_SetMode(INACTIVE) is not looked at in STARTUP.               *)
EndingLost(ch) == dl[ch].mdh = "STARTUP" /\ dl[ch].lost
Ending(ch) == dl[ch].mdh = "STARTUP" /\ (dl[ch].mode = "INACTIVE" \/ dl[ch].lost)
GotoIdle(ch) ==
    /\ Ending(ch)
    /\ LET step == MessageH(dl[ch], chip, ch, FALSE)
       IN  Leave(ch, Step([step.d EXCEPT !.mdh = "IDLE", !.lost = FALSE], step.c))
    /\ UNCHANGED drv

ModeHandler(ch) ==
    /\ Handle(ch, "MDH")
    /\ \/ StartCom(ch)
       \/ GotoIdle(ch)
       \/ ~Starting(ch) /\ ~Ending(ch) /\ UNCHANGED <<chip, isr, drv, events, dl>>
    /\ UNCHANGED <<handler, holder, main>>

MhEvent(ch) ==
    /\ Handle(ch, "MH")
    /\ Leave(ch, MessageH(dl[ch], chip, ch, FALSE))
    /\ UNCHANGED <<drv, handler, holder, main>>

(* dl_timer_timeout, on the thread of the timers.                          *)
TimerOver(ch) ==
    /\ dl[ch].timer
    /\ dl' = [dl EXCEPT ![ch].timer = FALSE]
    /\ events' = [events EXCEPT ![ch] = @ \cup {"TIMEOUT"}]
    /\ UNCHANGED <<chip, isr, drv, handler, holder, turn, main>>

(* The event is cleared once more.                                         *)
Timeout(ch) ==
    /\ Handle(ch, "TIMEOUT")
    /\ LET step == IF dl[ch].timed THEN MessageH(dl[ch], chip, ch, TRUE) ELSE Step(dl[ch], chip)
       IN  /\ Chip(step.c)
           /\ dl' = [dl EXCEPT ![ch] = [step.d EXCEPT !.timed = FALSE]]
           /\ events' = [events EXCEPT ![ch] = (@ \ {"TIMEOUT"}) \cup Raised(dl[ch], step)]
    /\ UNCHANGED <<drv, handler, holder, main>>

DlThread(ch) ==
    \/ TakeTurn(ch) \/ PlEvent(ch) \/ PlServe(ch) \/ RxReady(ch) \/ RxError(ch)
    \/ WurqRecv(ch) \/ ModeHandler(ch) \/ MhEvent(ch) \/ Timeout(ch)

-----------------------------------------------------------------------------
(* The system management on the main thread: sm_portinactive (T14, T15)    *)
(* and sm_dido; PL_SetMode_req and DL_SetMode_req are two calls.           *)

Quiet(ch) ==
    /\ dl[ch].mdh # "ESTCOM" /\ events[ch] \cup turn[ch] = {}
    /\ ~isr /\ ~Line(chip) /\ handler = NoHandler
(* The SM takes a new configuration when no read or write is outstanding.  *)
May(ch) ==
    /\ main.on = None /\ main.cfg < MaxCfg
    /\ ~dl[ch].rwcmd /\ dl[ch].mh \in {"INACTIVE", "STARTUP_2"}
    /\ Patient => Quiet(ch)
Call(ch, mode) == main' = [main EXCEPT !.on = ch, !.mode = mode, !.cfg = @ + 1]

Configure(ch) ==
    /\ May(ch) /\ Free("main")
    /\ dl[ch].mdh # "STARTUP"
    /\ SetSDCI(ch) /\ Call(ch, "STARTUP")
    /\ UNCHANGED <<handler, holder, events, turn, dl>>
Disable(ch) ==
    /\ May(ch) /\ Free("main")
    /\ SetDI(ch) /\ Call(ch, "INACTIVE")
    /\ UNCHANGED <<handler, holder, events, turn, dl>>
Deactivate(ch) ==
    /\ May(ch)
    /\ Call(ch, "INACTIVE")
    /\ UNCHANGED <<chip, isr, drv, handler, holder, events, turn, dl>>

DL_SetMode_req ==
    \E ch \in Channels :
        /\ main.on = ch
        /\ main' = [main EXCEPT !.on = None, !.mode = "INACTIVE"]
        /\ dl' = [dl EXCEPT ![ch] = [@ EXCEPT !.mode = main.mode,
                                              !.asked = (main.mode = "STARTUP")]]
        /\ events' = [events EXCEPT ![ch] = @ \cup {"MDH"}]
        /\ UNCHANGED <<chip, isr, drv, handler, holder, turn>>

(* DL_Read_req and DL_Write_req, of which the SM has one at a time, and    *)
(* which the main thread does not make in the middle of another call.      *)
DL_ReadWrite_req(ch) ==
    /\ main.on = None
    /\ dl[ch].mh = "STARTUP_2" /\ dl[ch].mdh = "STARTUP" /\ ~dl[ch].rwcmd
    /\ main.req < MaxReq
    /\ main' = [main EXCEPT !.req = @ + 1]
    /\ dl' = [dl EXCEPT ![ch].rwcmd = TRUE]
    /\ events' = [events EXCEPT ![ch] = @ \cup {"MH"}]
    /\ UNCHANGED <<chip, isr, drv, handler, holder, turn>>

Next ==
    \/ Isr \/ DL_SetMode_req
    \/ \E ch \in Channels :
        \/ WakeUpOver(ch) \/ Reply(ch) \/ Fault(ch) \/ TimerOver(ch)
        \/ DlThread(ch) \/ RxDisagrees(ch)
        \/ Configure(ch) \/ Disable(ch) \/ Deactivate(ch) \/ DL_ReadWrite_req(ch)

Spec == Init /\ [][Next]_vars

(* The interrupt is served, the timers and the chip end what they began;   *)
(* a DL thread that finds the mutex free again and again gets it.  Nobody  *)
(* needs to configure a port or to request anything.                       *)
LiveSpec ==
    /\ Spec
    /\ WF_vars(Isr) /\ WF_vars(DL_SetMode_req)
    /\ \A ch \in Channels :
        /\ SF_vars(DlThread(ch) \/ RxDisagrees(ch))
        /\ WF_vars(WakeUpOver(ch)) /\ WF_vars(Reply(ch) \/ Fault(ch)) /\ WF_vars(TimerOver(ch))

-----------------------------------------------------------------------------
ChipRecord ==
    [pending : SUBSET Bits, enabled : SUBSET Bits, est : [Channels -> BOOLEAN],
     com : [Channels -> BOOLEAN], err : [Channels -> BOOLEAN],
     fifo : [Channels -> BOOLEAN], busy : [Channels -> BOOLEAN]]
DlRecord ==
    [mdh : {"IDLE", "ESTCOM", "STARTUP"}, mode : {"INACTIVE", "STARTUP"},
     lost : BOOLEAN, mh : {"INACTIVE", "STARTUP_2", "AW_REPLY_4", "ERRORHANDLING_5"},
     rwcmd : BOOLEAN, retry : 0 .. MaxRetry, dataready : BOOLEAN, rxerror : BOOLEAN,
     timer : BOOLEAN, timed : BOOLEAN, asked : BOOLEAN]

(* The variables keep their types; no transfer is repeated more often than *)
(* IOLINK_MAX_RETRY allows.                                                *)
TypeOK ==
    /\ chip \in ChipRecord
    /\ isr \in BOOLEAN
    /\ drv \in [io : [Channels -> BOOLEAN], wurq : [Channels -> BOOLEAN]]
    /\ handler \in [by : Channels \cup {None}, reg : SUBSET Bits, data : BOOLEAN]
    /\ holder \in Channels \cup {None}
    /\ events \in [Channels -> SUBSET Events]
    /\ turn \in [Channels -> SUBSET Events]
    /\ dl \in [Channels -> DlRecord]
    /\ main \in [on : Channels \cup {None}, mode : {"STARTUP", "INACTIVE"},
                 cfg : 0 .. MaxCfg, req : 0 .. MaxReq]

(* A wake-up of the driver that is over is still to be told: the bit of    *)
(* the interrupt is set, or the handler has just read it.  One bit serves  *)
(* all the channels, whoever clears it (pl_handler reads REG_Interrupt     *)
(* before it asks each channel).                                           *)
WakeUpHeard ==
    \A ch \in Channels : drv.wurq[ch] /\ ~chip.est[ch] =>
        Wurq \in chip.enabled /\ Wurq \in chip.pending \cup handler.reg

(* The edge is never missed: while the line is low somebody is about to    *)
(* read REG_Interrupt (iolink_14819_isr sets the event of every port, for  *)
(* the handler does nothing on behalf of a port that is not SDCI).         *)
LineServed ==
    Line(chip) => \/ isr
                  \/ \E ch \in Channels : drv.io[ch] /\ "PL" \in events[ch] \cup turn[ch]

(* Unless a mutex is kept, a start that the SM asked for is answered: with *)
(* a device in STARTUP, or with a wake-up that failed.                     *)
Kept == holder # None
StartAnswered == \A ch \in Channels : dl[ch].asked ~> (~dl[ch].asked \/ Kept)

(* A port that is told to stop stops (iolink_dl_mode_h_sm_startup2).       *)
StopEnds ==
    \A ch \in Channels :
        dl[ch].mode = "INACTIVE" ~> (dl[ch].mode # "INACTIVE" \/ dl[ch].mdh = "IDLE" \/ Kept)

(* A read or write of the SM is confirmed, by the device or because        *)
(* communication is lost.                                                  *)
RequestAnswered ==
    \A ch \in Channels :
        (dl[ch].rwcmd /\ dl[ch].mdh = "STARTUP")
            ~> (~dl[ch].rwcmd \/ dl[ch].mdh # "STARTUP" \/ Kept)
=============================================================================

--------------------------- MODULE TransceiverProofs ---------------------------
(***************************************************************************)
(* The types of Transceiver, that no wake-up is lost, whether or not ports *)
(* are configured patiently, and that no edge of the interrupt line is     *)
(* missed if they are: for any number of channels and retries.             *)
(***************************************************************************)
EXTENDS Transceiver, TLAPS

-----------------------------------------------------------------------------
(* A call of the message handler keeps the types.  Of the chip it changes  *)
(* only what the exchange of a message changes.                            *)
LEMMA MessageHType ==
    ASSUME NEW d \in DlRecord, NEW c \in ChipRecord, NEW ch \in Channels, NEW e \in BOOLEAN
    PROVE  LET step == MessageH(d, c, ch, e)
           IN  /\ step.d \in DlRecord
               /\ step.c \in ChipRecord
               /\ step.c.est = c.est /\ step.c.pending = c.pending /\ step.c.enabled = c.enabled
<1> DEFINE Good(step) ==
        /\ step.d \in DlRecord
        /\ step.c \in ChipRecord
        /\ step.c.est = c.est /\ step.c.pending = c.pending /\ step.c.enabled = c.enabled
<1>1. /\ Send(c, ch) \in ChipRecord
      /\ Send(c, ch).est = c.est /\ Send(c, ch).pending = c.pending
      /\ Send(c, ch).enabled = c.enabled
  BY DEF Send, ChipRecord
<1>2. MaxRetry \in Nat /\ d.retry \in 0 .. MaxRetry /\ 0 \in 0 .. MaxRetry
  BY TransceiverAssumption DEF DlRecord
<1>3. ASSUME NEW x \in DlRecord
      PROVE  Good(Step(x, c)) /\ Good(Step(x, Send(c, ch)))
  BY <1>1, <1>3 DEF Step
<1> HIDE DEF Good
<1>4. Good(Startup2(d, c, ch))
  <2>1. [d EXCEPT !.mh = "AW_REPLY_4", !.retry = 0, !.dataready = FALSE] \in DlRecord
    BY <1>2 DEF DlRecord
  <2> QED BY <2>1, <1>3 DEF Startup2
<1>5. Good(AwaitReply4(d, c))
  <2>1. [d EXCEPT !.mh = "STARTUP_2", !.rwcmd = FALSE] \in DlRecord
    BY DEF DlRecord
  <2>2. [StartTimer(d) EXCEPT !.mh = "ERRORHANDLING_5"] \in DlRecord
    <3>1. StartTimer(d) \in DlRecord
      BY DEF DlRecord, StartTimer
    <3> QED BY <3>1 DEF DlRecord
  <2> QED BY <2>1, <2>2, <1>3 DEF AwaitReply4
<1>6. Good(ErrorHandling5(d, c, ch, e))
  <2>1. [d EXCEPT !.mh = "INACTIVE", !.lost = TRUE, !.rwcmd = FALSE, !.timed = FALSE] \in DlRecord
    BY DEF DlRecord
  <2>2. CASE d.retry >= MaxRetry
    <3>1. ~(d.retry < MaxRetry)
      BY <1>2, <2>2
    <3> QED BY <1>3, <2>1, <2>2, <3>1 DEF ErrorHandling5
  <2>3. CASE d.retry < MaxRetry /\ e
    <3>1. d.retry + 1 \in 0 .. MaxRetry
      BY <1>2, <2>3
    <3>2. [d EXCEPT !.mh = "AW_REPLY_4", !.retry = @ + 1] \in DlRecord
      BY <3>1 DEF DlRecord
    <3>3. ~(d.retry >= MaxRetry)
      BY <1>2, <2>3
    <3> QED BY <1>3, <2>3, <3>2, <3>3 DEF ErrorHandling5
  <2>4. CASE ~(d.retry >= MaxRetry) /\ ~e
    BY <1>3, <2>4 DEF ErrorHandling5
  <2> QED BY <1>2, <2>2, <2>3, <2>4
<1>7. Good(MessageH(d, c, ch, e))
  BY <1>3, <1>4, <1>5, <1>6 DEF MessageH
<1> QED BY <1>7 DEF Good

(* A change of the registers keeps the types of what Chip determines.      *)
LEMMA ChipType ==
    ASSUME TypeOK, NEW c \in ChipRecord, Chip(c)
    PROVE  chip' \in ChipRecord /\ isr' \in BOOLEAN
BY Zenon DEF TypeOK, Chip

(* What a call of the message handler leaves behind is typed.              *)
LEMMA LeaveType ==
    ASSUME TypeOK, NEW ch \in Channels, NEW step,
           step.d \in DlRecord, step.c \in ChipRecord,
           Leave(ch, step)
    PROVE  /\ chip' \in ChipRecord /\ isr' \in BOOLEAN
           /\ dl' \in [Channels -> DlRecord]
           /\ events' \in [Channels -> SUBSET Events]
<1>1. chip' \in ChipRecord /\ isr' \in BOOLEAN
  BY ChipType DEF Leave
<1>2. dl' \in [Channels -> DlRecord]
  BY DEF Leave, TypeOK
<1>3. Raised(dl[ch], step) \subseteq Events
  BY DEF Raised, Events
<1>4. events' \in [Channels -> SUBSET Events]
  BY <1>3 DEF Leave, TypeOK
<1> QED BY <1>1, <1>2, <1>4

(* What set_mode and init_sdci make of the registers is typed.             *)
LEMMA DriverType ==
    ASSUME TypeOK, NEW ch \in Channels
    PROVE  /\ Reset(chip, ch) \in ChipRecord
           /\ GetError(chip, ch) \in ChipRecord
           /\ SetDI(ch) \/ SetSDCI(ch) \/ InitSdci(ch) =>
                 /\ chip' \in ChipRecord /\ isr' \in BOOLEAN
                 /\ drv' \in [io : [Channels -> BOOLEAN], wurq : [Channels -> BOOLEAN]]
<1>1. Reset(chip, ch) \in ChipRecord /\ GetError(chip, ch) \in ChipRecord
  BY DEF TypeOK, ChipRecord, Reset, GetError
<1>2. Wurq \in Bits /\ Rdy(ch) \in Bits /\ Err(ch) \in Bits
  BY Zenon DEF Bits
<1>3. CASE SetDI(ch)
  <2>1. [Reset(chip, ch) EXCEPT !.enabled = @ \ {Rdy(ch), Err(ch)}] \in ChipRecord
    BY <1>1 DEF ChipRecord
  <2> QED BY <1>1, <1>3, <2>1, ChipType DEF SetDI, TypeOK
<1>4. CASE SetSDCI(ch)
  <2>1. [Reset(chip, ch) EXCEPT !.err[ch] = FALSE, !.enabled = @ \cup {Rdy(ch), Err(ch)}]
            \in ChipRecord
    BY <1>1, <1>2 DEF ChipRecord
  <2> QED BY <1>1, <1>4, <2>1, ChipType DEF SetSDCI, TypeOK
<1>5. CASE InitSdci(ch)
  <2>1. [Reset(chip, ch) EXCEPT !.est[ch] = TRUE, !.enabled = @ \cup {Wurq}] \in ChipRecord
    BY <1>1, <1>2 DEF ChipRecord
  <2> QED BY <1>1, <1>5, <2>1, ChipType DEF InitSdci, TypeOK
<1> QED BY <1>1, <1>3, <1>4, <1>5

(* The interrupt handler sets known events.                                *)
LEMMA EventsType ==
    ASSUME TypeOK
    PROVE  SetEvents \in [Channels -> SUBSET Events]
<1>1. \A x \in Channels : PlEvents(x) \subseteq Events
  BY DEF PlEvents, Events
<1> QED BY <1>1 DEF SetEvents, TypeOK

-----------------------------------------------------------------------------
LEMMA InitType == Init => TypeOK
<1> SUFFICES ASSUME Init PROVE TypeOK
  OBVIOUS
<1>1. chip \in ChipRecord
  BY DEF Init, Off, ChipRecord
<1>2. DlInit \in DlRecord
  BY TransceiverAssumption DEF DlInit, DlRecord
<1>3. 0 \in 0 .. MaxCfg /\ 0 \in 0 .. MaxReq
  BY TransceiverAssumption
<1>4. drv \in [io : [Channels -> BOOLEAN], wurq : [Channels -> BOOLEAN]]
  BY DEF Init, Off
<1>5. handler \in [by : Channels \cup {None}, reg : SUBSET Bits, data : BOOLEAN]
  BY DEF Init, NoHandler
<1> QED BY <1>1, <1>2, <1>3, <1>4, <1>5 DEF Init, TypeOK

(* The steps of the chip.                                                  *)
LEMMA ChipStepType ==
    ASSUME TypeOK, NEW ch \in Channels, WakeUpOver(ch) \/ Reply(ch) \/ Fault(ch)
    PROVE  TypeOK'
<1>1. Wurq \in Bits /\ Rdy(ch) \in Bits /\ Err(ch) \in Bits
  BY Zenon DEF Bits
<1>2. CASE WakeUpOver(ch)
  <2>1. PICK found \in BOOLEAN :
          Chip([chip EXCEPT !.est[ch] = FALSE, !.com[ch] = found, !.pending = @ \cup {Wurq}])
    BY <1>2 DEF WakeUpOver
  <2>2. [chip EXCEPT !.est[ch] = FALSE, !.com[ch] = found, !.pending = @ \cup {Wurq}]
            \in ChipRecord
    BY <1>1 DEF TypeOK, ChipRecord
  <2>3. chip' \in ChipRecord /\ isr' \in BOOLEAN
    BY <2>1, <2>2, ChipType
  <2> QED BY <1>2, <2>3 DEF WakeUpOver, TypeOK
<1>3. CASE Reply(ch)
  <2>1. [chip EXCEPT !.busy[ch] = FALSE, !.fifo[ch] = TRUE, !.pending = @ \cup {Rdy(ch)}]
            \in ChipRecord
    BY <1>1 DEF TypeOK, ChipRecord
  <2>2. chip' \in ChipRecord /\ isr' \in BOOLEAN
    BY <1>3, <2>1, ChipType DEF Reply
  <2> QED BY <1>3, <2>2 DEF Reply, TypeOK
<1>4. CASE Fault(ch)
  <2>1. [chip EXCEPT !.busy[ch] = FALSE, !.err[ch] = TRUE, !.pending = @ \cup {Err(ch)}]
            \in ChipRecord
    BY <1>1 DEF TypeOK, ChipRecord
  <2>2. chip' \in ChipRecord /\ isr' \in BOOLEAN
    BY <1>4, <2>1, ChipType DEF Fault
  <2> QED BY <1>4, <2>2 DEF Fault, TypeOK
<1> QED BY <1>2, <1>3, <1>4

(* Reading REG_Interrupt keeps the types.                                  *)
LEMMA ReadInterruptType ==
    ASSUME TypeOK, NEW ch \in Channels, NEW c \in ChipRecord, NEW data \in BOOLEAN,
           ReadInterrupt(ch, c, data)
    PROVE  /\ chip' \in ChipRecord /\ isr' \in BOOLEAN
           /\ handler' \in [by : Channels \cup {None}, reg : SUBSET Bits, data : BOOLEAN]
<1>1. [c EXCEPT !.pending = {}] \in ChipRecord
  BY DEF ChipRecord
<1>2. c.pending \in SUBSET Bits
  BY DEF ChipRecord
<1> QED BY <1>1, <1>2, ChipType DEF ReadInterrupt

(* The steps of a DL thread.                                               *)
LEMMA DlStepType ==
    ASSUME TypeOK, NEW ch \in Channels, DlThread(ch) \/ RxDisagrees(ch)
    PROVE  TypeOK'
<1> DEFINE TurnOK == turn' \in [Channels -> SUBSET Events]
           ChipOK == chip' \in ChipRecord /\ isr' \in BOOLEAN
           DlOK == dl' \in [Channels -> DlRecord]
           EventsOK == events' \in [Channels -> SUBSET Events]
           Drv == [io : [Channels -> BOOLEAN], wurq : [Channels -> BOOLEAN]]
<1>1. dl[ch] \in DlRecord /\ chip \in ChipRecord
  BY DEF TypeOK
<1>2. ASSUME NEW event, Handle(ch, event)
      PROVE  TurnOK
  BY <1>2 DEF Handle, TypeOK
<1>3. ASSUME NEW d \in DlRecord, NEW c \in ChipRecord, NEW e \in BOOLEAN
      PROVE  MessageH(d, c, ch, e).d \in DlRecord /\ MessageH(d, c, ch, e).c \in ChipRecord
  BY <1>3, MessageHType
<1>4. [dl[ch] EXCEPT !.dataready = TRUE] \in DlRecord
  BY <1>1 DEF DlRecord
<1>5. CASE TakeTurn(ch)
  BY <1>5 DEF TakeTurn, TypeOK
<1>6. CASE PlEvent(ch)
  <2>1. ChipOK /\ handler' \in [by : Channels \cup {None}, reg : SUBSET Bits, data : BOOLEAN]
    BY <1>1, <1>6, ReadInterruptType DEF PlEvent, TypeOK
  <2>2. TurnOK
    BY <1>2, <1>6 DEF PlEvent
  <2> QED BY <1>6, <2>1, <2>2 DEF PlEvent, TypeOK
<1>7. CASE PlServe(ch)
  <2>1. drv' \in Drv
    BY <1>7 DEF PlServe, TypeOK
  <2>2. handler' \in [by : Channels \cup {None}, reg : SUBSET Bits, data : BOOLEAN]
    BY <1>7 DEF PlServe, NoHandler
  <2>3. ChipOK /\ DlOK /\ EventsOK
    <3>1. CASE handler.data
      <4> DEFINE d == [dl[ch] EXCEPT !.dataready = TRUE]
                 step == MessageH(d, chip, ch, FALSE)
      <4>1. step.d \in DlRecord /\ step.c \in ChipRecord
        BY <1>1, <1>3, <1>4
      <4> HIDE DEF step
      <4>2. /\ Chip(step.c)
            /\ dl' = [dl EXCEPT ![ch] = step.d]
            /\ events' = [SetEvents EXCEPT ![ch] = @ \cup Raised(d, step)]
        BY <1>7, <3>1 DEF PlServe, step
      <4>3. ChipOK /\ DlOK
        BY <4>1, <4>2, ChipType DEF TypeOK
      <4>4. Raised(d, step) \subseteq Events
        BY DEF Raised, Events
      <4>5. EventsOK
        BY <4>2, <4>4, EventsType
      <4> QED BY <4>3, <4>5
    <3>2. CASE ~handler.data
      BY <1>7, <3>2, EventsType DEF PlServe, TypeOK
    <3> QED BY <3>1, <3>2
  <2> QED BY <1>7, <2>1, <2>2, <2>3 DEF PlServe, TypeOK
<1>8. CASE RxReady(ch)
  <2> DEFINE taken == [chip EXCEPT !.fifo[ch] = FALSE]
             step == MessageH([dl[ch] EXCEPT !.dataready = TRUE], taken, ch, FALSE)
  <2>1. taken \in ChipRecord
    BY DEF TypeOK, ChipRecord
  <2> HIDE DEF taken
  <2>2. step.d \in DlRecord /\ step.c \in ChipRecord
    BY <1>3, <1>4, <2>1
  <2> HIDE DEF step
  <2>3. \/ UNCHANGED <<chip, isr, handler, events, dl>>
        \/ ReadInterrupt(ch, taken, TRUE) /\ UNCHANGED <<events, dl>>
        \/ Leave(ch, step) /\ UNCHANGED handler
    BY <1>8 DEF RxReady, taken, step
  <2>4. /\ ChipOK /\ DlOK /\ EventsOK
        /\ handler' \in [by : Channels \cup {None}, reg : SUBSET Bits, data : BOOLEAN]
    <3>1. CASE UNCHANGED <<chip, isr, handler, events, dl>>
      BY <3>1 DEF TypeOK
    <3>2. CASE ReadInterrupt(ch, taken, TRUE) /\ UNCHANGED <<events, dl>>
      BY <2>1, <3>2, ReadInterruptType DEF TypeOK
    <3>3. CASE Leave(ch, step) /\ UNCHANGED handler
      BY <2>2, <3>3, LeaveType DEF TypeOK
    <3> QED BY <2>3, <3>1, <3>2, <3>3
  <2>5. TurnOK
    BY <1>2, <1>8 DEF RxReady
  <2> QED BY <1>8, <2>4, <2>5 DEF RxReady, TypeOK
<1>9. CASE RxDisagrees(ch)
  <2>1. [chip EXCEPT !.fifo[ch] = FALSE] \in ChipRecord
    BY DEF TypeOK, ChipRecord
  <2>2. ChipOK
    BY <1>9, <2>1, ChipType DEF RxDisagrees
  <2>3. TurnOK
    BY <1>2, <1>9 DEF RxDisagrees
  <2> QED BY <1>9, <2>2, <2>3 DEF RxDisagrees, TypeOK
<1>10. CASE RxError(ch)
  <2> DEFINE step == IF chip.err[ch]
                     THEN MessageH([dl[ch] EXCEPT !.rxerror = TRUE], GetError(chip, ch), ch, FALSE)
                     ELSE Step(dl[ch], chip)
  <2>1. [dl[ch] EXCEPT !.rxerror = TRUE] \in DlRecord
    BY <1>1 DEF DlRecord
  <2>2. step.d \in DlRecord /\ step.c \in ChipRecord
    BY <1>1, <1>3, <2>1, DriverType DEF Step
  <2>3. Leave(ch, step)
    BY <1>10 DEF RxError
  <2> HIDE DEF step
  <2>4. ChipOK /\ DlOK /\ EventsOK
    BY <2>2, <2>3, LeaveType
  <2>5. TurnOK
    BY <1>2, <1>10 DEF RxError
  <2> QED BY <1>10, <2>4, <2>5 DEF RxError, TypeOK
<1>11. CASE WurqRecv(ch)
  <2>1. [dl[ch] EXCEPT !.mdh = "IDLE", !.lost = FALSE, !.asked = FALSE] \in DlRecord
    BY <1>1 DEF DlRecord
  <2>2. [dl[ch] EXCEPT !.mdh = "STARTUP", !.mh = "STARTUP_2", !.asked = FALSE] \in DlRecord
    BY <1>1 DEF DlRecord
  <2>3. DlOK
    BY <1>11, <2>1, <2>2 DEF WurqRecv, TypeOK
  <2>4. ChipOK
    BY <1>11, DriverType, ChipType DEF WurqRecv, TypeOK
  <2>5. EventsOK
    BY <1>11 DEF WurqRecv, TypeOK, Events
  <2>6. TurnOK
    BY <1>2, <1>11 DEF WurqRecv
  <2> QED BY <1>11, <2>3, <2>4, <2>5, <2>6 DEF WurqRecv, TypeOK
<1>12. CASE ModeHandler(ch)
  <2>1. ChipOK /\ DlOK /\ EventsOK /\ drv' \in Drv
    <3>1. CASE StartCom(ch)
      <4>1. [dl[ch] EXCEPT !.mdh = "ESTCOM"] \in DlRecord
        BY <1>1 DEF DlRecord
      <4>2. DlOK
        BY <3>1, <4>1 DEF StartCom, TypeOK
      <4> QED BY <3>1, <4>2, DriverType DEF StartCom, TypeOK
    <3>2. CASE GotoIdle(ch)
      <4> DEFINE step == MessageH(dl[ch], chip, ch, FALSE)
                 idle == Step([step.d EXCEPT !.mdh = "IDLE", !.lost = FALSE], step.c)
      <4>1. step.d \in DlRecord /\ step.c \in ChipRecord
        BY <1>1, <1>3
      <4>2. Leave(ch, idle) /\ UNCHANGED drv
        BY <3>2 DEF GotoIdle
      <4> HIDE DEF step
      <4>3. [step.d EXCEPT !.mdh = "IDLE", !.lost = FALSE] \in DlRecord
        BY <4>1 DEF DlRecord
      <4>4. idle.d \in DlRecord /\ idle.c \in ChipRecord
        BY <4>1, <4>3 DEF Step
      <4> HIDE DEF idle
      <4> QED BY <4>2, <4>4, LeaveType DEF TypeOK
    <3>3. CASE UNCHANGED <<chip, isr, drv, events, dl>>
      BY <3>3 DEF TypeOK
    <3> QED BY <1>12, <3>1, <3>2, <3>3 DEF ModeHandler
  <2>2. TurnOK
    BY <1>2, <1>12 DEF ModeHandler
  <2> QED BY <1>12, <2>1, <2>2 DEF ModeHandler, TypeOK
<1>13. CASE MhEvent(ch)
  <2>1. ChipOK /\ DlOK /\ EventsOK
    BY <1>1, <1>3, <1>13, LeaveType DEF MhEvent
  <2>2. TurnOK
    BY <1>2, <1>13 DEF MhEvent
  <2> QED BY <1>13, <2>1, <2>2 DEF MhEvent, TypeOK
<1>14. CASE Timeout(ch)
  <2> DEFINE step == IF dl[ch].timed THEN MessageH(dl[ch], chip, ch, TRUE) ELSE Step(dl[ch], chip)
  <2>1. step.d \in DlRecord /\ step.c \in ChipRecord
    BY <1>1, <1>3 DEF Step
  <2>2. /\ Chip(step.c)
        /\ dl' = [dl EXCEPT ![ch] = [step.d EXCEPT !.timed = FALSE]]
        /\ events' = [events EXCEPT ![ch] = (@ \ {"TIMEOUT"}) \cup Raised(dl[ch], step)]
    BY <1>14 DEF Timeout
  <2> HIDE DEF step
  <2>3. [step.d EXCEPT !.timed = FALSE] \in DlRecord
    BY <2>1 DEF DlRecord
  <2>4. Raised(dl[ch], step) \subseteq Events
    BY DEF Raised, Events
  <2>5. ChipOK /\ DlOK /\ EventsOK
    BY <2>1, <2>2, <2>3, <2>4, ChipType DEF TypeOK
  <2>6. TurnOK
    BY <1>2, <1>14 DEF Timeout
  <2> QED BY <1>14, <2>5, <2>6 DEF Timeout, TypeOK
<1> QED
  BY <1>5, <1>6, <1>7, <1>8, <1>9, <1>10, <1>11, <1>12, <1>13, <1>14 DEF DlThread

(* The steps of the main thread, the interrupt and the timers.             *)
LEMMA OtherStepType ==
    ASSUME TypeOK,
           \/ Isr \/ DL_SetMode_req
           \/ \E ch \in Channels :
                \/ TimerOver(ch) \/ Configure(ch) \/ Disable(ch) \/ Deactivate(ch)
                \/ DL_ReadWrite_req(ch)
    PROVE  TypeOK'
<1> DEFINE Main == [on : Channels \cup {None}, mode : {"STARTUP", "INACTIVE"},
                   cfg : 0 .. MaxCfg, req : 0 .. MaxReq]
<1>1. MaxCfg \in Nat /\ MaxReq \in Nat
  BY TransceiverAssumption
<1>2. ASSUME NEW ch \in Channels PROVE dl[ch] \in DlRecord
  BY DEF TypeOK
<1>3. CASE Isr
  BY <1>3 DEF Isr, TypeOK, Events
<1>4. CASE DL_SetMode_req
  <2>1. PICK ch \in Channels :
          /\ main' = [main EXCEPT !.on = None, !.mode = "INACTIVE"]
          /\ dl' = [dl EXCEPT ![ch] = [@ EXCEPT !.mode = main.mode,
                                                !.asked = (main.mode = "STARTUP")]]
          /\ events' = [events EXCEPT ![ch] = @ \cup {"MDH"}]
          /\ UNCHANGED <<chip, isr, drv, handler, holder, turn>>
    BY <1>4 DEF DL_SetMode_req
  <2>2. main' \in Main
    BY <2>1 DEF TypeOK
  <2>3. [dl[ch] EXCEPT !.mode = main.mode, !.asked = (main.mode = "STARTUP")] \in DlRecord
    <3>1. main.mode \in {"INACTIVE", "STARTUP"}
      BY DEF TypeOK
    <3> QED BY <1>2, <3>1 DEF DlRecord
  <2>4. dl' \in [Channels -> DlRecord]
    BY <2>1, <2>3 DEF TypeOK
  <2>5. events' \in [Channels -> SUBSET Events]
    BY <2>1 DEF TypeOK, Events
  <2> QED BY <2>1, <2>2, <2>4, <2>5 DEF TypeOK
<1>5. ASSUME NEW ch \in Channels, TimerOver(ch)
      PROVE  TypeOK'
  <2>1. [dl[ch] EXCEPT !.timer = FALSE] \in DlRecord
    BY <1>2 DEF DlRecord
  <2>2. dl' \in [Channels -> DlRecord]
    BY <1>5, <2>1 DEF TimerOver, TypeOK
  <2>3. events' \in [Channels -> SUBSET Events]
    BY <1>5 DEF TimerOver, TypeOK, Events
  <2> QED BY <1>5, <2>2, <2>3 DEF TimerOver, TypeOK
<1>6. ASSUME NEW ch \in Channels, NEW mode \in {"STARTUP", "INACTIVE"},
             main.cfg < MaxCfg, Call(ch, mode)
      PROVE  main' \in Main
  <2>1. main.cfg + 1 \in 0 .. MaxCfg
    BY <1>1, <1>6 DEF TypeOK
  <2> QED BY <1>6, <2>1 DEF Call, TypeOK
<1>7. ASSUME NEW ch \in Channels, Configure(ch) \/ Disable(ch)
      PROVE  TypeOK'
  <2>1. main' \in Main
    BY <1>6, <1>7 DEF Configure, Disable, May
  <2>2. /\ chip' \in ChipRecord /\ isr' \in BOOLEAN
        /\ drv' \in [io : [Channels -> BOOLEAN], wurq : [Channels -> BOOLEAN]]
    BY <1>7, DriverType DEF Configure, Disable
  <2>3. UNCHANGED <<handler, holder, events, turn, dl>>
    BY <1>7 DEF Configure, Disable
  <2> QED BY <2>1, <2>2, <2>3 DEF TypeOK
<1>8. ASSUME NEW ch \in Channels, Deactivate(ch)
      PROVE  TypeOK'
  <2>1. main' \in Main
    BY <1>6, <1>8 DEF Deactivate, May
  <2> QED BY <1>8, <2>1 DEF Deactivate, TypeOK
<1>9. ASSUME NEW ch \in Channels, DL_ReadWrite_req(ch)
      PROVE  TypeOK'
  <2>1. main.req + 1 \in 0 .. MaxReq
    BY <1>1, <1>9 DEF DL_ReadWrite_req, TypeOK
  <2>2. main' \in Main
    BY <1>9, <2>1 DEF DL_ReadWrite_req, TypeOK
  <2>3. [dl[ch] EXCEPT !.rwcmd = TRUE] \in DlRecord
    BY <1>2 DEF DlRecord
  <2>4. dl' \in [Channels -> DlRecord]
    BY <1>9, <2>3 DEF DL_ReadWrite_req, TypeOK
  <2>5. events' \in [Channels -> SUBSET Events]
    BY <1>9 DEF DL_ReadWrite_req, TypeOK, Events
  <2> QED BY <1>9, <2>2, <2>4, <2>5 DEF DL_ReadWrite_req, TypeOK
<1> QED BY <1>3, <1>4, <1>5, <1>7, <1>8, <1>9

(* All that a chip, its driver and the DL threads do keeps the types, and  *)
(* with them the bound on the retries (iolink_dl_message_h_sm_error_       *)
(* handling5).                                                             *)
THEOREM TypeCorrect == Spec => []TypeOK
<1>1. Init => TypeOK
  BY InitType
<1>2. TypeOK /\ [Next]_vars => TypeOK'
  <2> SUFFICES ASSUME TypeOK, [Next]_vars PROVE TypeOK'
    OBVIOUS
  <2>1. CASE Next
    BY <2>1, ChipStepType, DlStepType, OtherStepType DEF Next
  <2>2. CASE UNCHANGED vars
    BY <2>2 DEF vars, TypeOK
  <2> QED BY <2>1, <2>2
<1> QED BY <1>1, <1>2, PTL DEF Spec

-----------------------------------------------------------------------------
(* Nobody ever disables the interrupt of the wake-up again: what the two   *)
(* channels share is not taken away by a port that is disabled.            *)
EnabledWhileAwaited == \A ch \in Channels : drv.wurq[ch] => Wurq \in chip.enabled

HeardInv == TypeOK /\ EnabledWhileAwaited /\ WakeUpHeard

(* A step that leaves the driver and the handler alone, keeps the enabled  *)
(* and the pending bits and ends no wake-up keeps both.                    *)
LEMMA StillHeard ==
    ASSUME HeardInv, UNCHANGED <<drv, handler>>,
           chip.enabled \subseteq chip'.enabled, chip.pending \subseteq chip'.pending,
           \A ch \in Channels : chip.est[ch] => chip'.est[ch]
    PROVE  EnabledWhileAwaited' /\ WakeUpHeard'
BY DEF HeardInv, EnabledWhileAwaited, WakeUpHeard

(* A call of the message handler does not touch the wake-up.               *)
LEMMA HandlerHeard ==
    ASSUME HeardInv, UNCHANGED <<drv, handler>>, NEW ch \in Channels,
           NEW d \in DlRecord, NEW c \in ChipRecord, NEW e \in BOOLEAN,
           c.est = chip.est, c.enabled = chip.enabled, c.pending = chip.pending,
           Chip(MessageH(d, c, ch, e).c)
    PROVE  EnabledWhileAwaited' /\ WakeUpHeard'
<1>1. chip' = MessageH(d, c, ch, e).c
  BY DEF Chip
<1>2. chip'.est = chip.est /\ chip'.enabled = chip.enabled /\ chip'.pending = chip.pending
  BY <1>1, MessageHType
<1> QED BY <1>2, StillHeard

(* The handler takes what was pending with it.                             *)
LEMMA ReadHeard ==
    ASSUME HeardInv, NEW ch \in Channels, NEW c \in ChipRecord, NEW data \in BOOLEAN,
           handler = NoHandler, UNCHANGED drv, ReadInterrupt(ch, c, data),
           c.est = chip.est, c.enabled = chip.enabled, c.pending = chip.pending
    PROVE  EnabledWhileAwaited' /\ WakeUpHeard'
<1>1. chip' = [c EXCEPT !.pending = {}] /\ handler'.reg = chip.pending
  BY DEF ReadInterrupt, Chip
<1>2. chip'.est = chip.est /\ chip'.enabled = chip.enabled
  BY <1>1 DEF ChipRecord
<1>3. handler.reg = {}
  BY DEF NoHandler
<1> QED BY <1>1, <1>2, <1>3 DEF HeardInv, EnabledWhileAwaited, WakeUpHeard

(* Enabling and disabling: the bit of the wake-up is not one of a channel. *)
LEMMA SetModeHeard ==
    ASSUME HeardInv, UNCHANGED handler, NEW ch \in Channels,
           SetDI(ch) \/ SetSDCI(ch) \/ InitSdci(ch)
    PROVE  EnabledWhileAwaited' /\ WakeUpHeard'
<1>1. Wurq \notin {Rdy(ch), Err(ch)}
  BY DEF Wurq, Rdy, Err
<1>2. chip \in ChipRecord /\ drv \in [io : [Channels -> BOOLEAN], wurq : [Channels -> BOOLEAN]]
  BY DEF HeardInv, TypeOK
<1>3. /\ Reset(chip, ch) \in ChipRecord
      /\ Reset(chip, ch).enabled = chip.enabled /\ Reset(chip, ch).pending = chip.pending
      /\ \A x \in Channels \ {ch} : Reset(chip, ch).est[x] = chip.est[x]
  BY <1>2 DEF ChipRecord, Reset
<1>4. /\ chip'.pending = chip.pending
      /\ Wurq \in chip.enabled => Wurq \in chip'.enabled
      /\ \A x \in Channels \ {ch} : chip'.est[x] = chip.est[x] /\ drv'.wurq[x] = drv.wurq[x]
  <2>1. CASE SetDI(ch)
    BY <1>1, <1>2, <1>3, <2>1 DEF SetDI, Chip, ChipRecord
  <2>2. CASE SetSDCI(ch)
    BY <1>2, <1>3, <2>2 DEF SetSDCI, Chip, ChipRecord
  <2>3. CASE InitSdci(ch)
    BY <1>2, <1>3, <2>3 DEF InitSdci, Chip, ChipRecord
  <2> QED BY <2>1, <2>2, <2>3
<1>5. drv'.wurq[ch] => chip'.est[ch] /\ Wurq \in chip'.enabled
  <2>1. CASE SetDI(ch) \/ SetSDCI(ch)
    BY <1>2, <2>1 DEF SetDI, SetSDCI
  <2>2. CASE InitSdci(ch)
    BY <1>2, <1>3, <2>2 DEF InitSdci, Chip, ChipRecord
  <2> QED BY <2>1, <2>2
<1> QED BY <1>4, <1>5 DEF HeardInv, EnabledWhileAwaited, WakeUpHeard

(* Serving the channels: those whose bit was read and whose wake-up is     *)
(* over are told now, the others are still awaited.                        *)
LEMMA ServeHeard ==
    ASSUME HeardInv, NEW ch \in Channels, PlServe(ch)
    PROVE  EnabledWhileAwaited' /\ WakeUpHeard'
<1>1. /\ chip'.est = chip.est /\ chip'.enabled = chip.enabled /\ chip'.pending = chip.pending
  <2>1. CASE handler.data
    <3>1. [dl[ch] EXCEPT !.dataready = TRUE] \in DlRecord /\ chip \in ChipRecord
      <4>1. dl[ch] \in DlRecord /\ chip \in ChipRecord
        BY DEF HeardInv, TypeOK
      <4> QED BY <4>1 DEF DlRecord
    <3>2. chip' = MessageH([dl[ch] EXCEPT !.dataready = TRUE], chip, ch, FALSE).c
      BY <2>1 DEF PlServe, Chip
    <3> QED BY <3>1, <3>2, MessageHType
  <2>2. CASE ~handler.data
    BY <2>2 DEF PlServe
  <2> QED BY <2>1, <2>2
<1>2. \A x \in Channels : drv'.wurq[x] <=> drv.wurq[x] /\ x \notin WokenUp
  BY DEF PlServe, HeardInv, TypeOK
<1>3. ASSUME NEW x \in Channels, drv'.wurq[x], ~chip'.est[x]
      PROVE  Wurq \in chip'.pending
  <2>1. Wurq \notin handler.reg
    BY <1>1, <1>2, <1>3 DEF WokenUp
  <2> QED BY <1>1, <1>2, <1>3, <2>1 DEF HeardInv, WakeUpHeard
<1> QED BY <1>1, <1>2, <1>3 DEF HeardInv, EnabledWhileAwaited, WakeUpHeard

(* A DL thread loses no wake-up.                                           *)
LEMMA DlStepHeard ==
    ASSUME HeardInv, NEW ch \in Channels, DlThread(ch) \/ RxDisagrees(ch)
    PROVE  EnabledWhileAwaited' /\ WakeUpHeard'
<1>1. dl[ch] \in DlRecord /\ chip \in ChipRecord
  BY DEF HeardInv, TypeOK
<1>2. [dl[ch] EXCEPT !.dataready = TRUE] \in DlRecord
      /\ [dl[ch] EXCEPT !.rxerror = TRUE] \in DlRecord
  BY <1>1 DEF DlRecord
<1>3. /\ GetError(chip, ch) \in ChipRecord /\ GetError(chip, ch).est = chip.est
      /\ GetError(chip, ch).enabled = chip.enabled /\ GetError(chip, ch).pending = chip.pending
  BY <1>1 DEF GetError, ChipRecord
<1> DEFINE taken == [chip EXCEPT !.fifo[ch] = FALSE]
<1>4. /\ taken \in ChipRecord /\ taken.est = chip.est
      /\ taken.enabled = chip.enabled /\ taken.pending = chip.pending
  BY <1>1 DEF ChipRecord
<1> HIDE DEF taken
<1>5. ASSUME UNCHANGED <<chip, drv, handler>>
      PROVE  EnabledWhileAwaited' /\ WakeUpHeard'
  BY <1>5, StillHeard
<1>6. CASE TakeTurn(ch)
  BY <1>5, <1>6 DEF TakeTurn
<1>7. CASE PlEvent(ch)
  <2>1. CASE drv.io[ch]
    <3>1. ReadInterrupt(ch, chip, FALSE) /\ handler = NoHandler /\ UNCHANGED drv
      BY <1>7, <2>1 DEF PlEvent, Handle, Free
    <3> QED BY <1>1, <3>1, ReadHeard
  <2>2. CASE ~drv.io[ch]
    BY <1>5, <1>7, <2>2 DEF PlEvent
  <2> QED BY <2>1, <2>2
<1>8. CASE PlServe(ch)
  BY <1>8, ServeHeard
<1>9. CASE RxReady(ch)
  <2>1. UNCHANGED drv /\ handler = NoHandler
    BY <1>9 DEF RxReady, Handle, Free
  <2>2. \/ UNCHANGED <<chip, handler>>
        \/ ReadInterrupt(ch, taken, TRUE)
        \/ /\ Chip(MessageH([dl[ch] EXCEPT !.dataready = TRUE], taken, ch, FALSE).c)
           /\ UNCHANGED handler
    BY <1>9 DEF RxReady, Leave, taken
  <2> QED BY <1>2, <1>4, <1>5, <2>1, <2>2, ReadHeard, HandlerHeard
<1>10. CASE RxDisagrees(ch)
  <2>1. chip' = taken /\ UNCHANGED <<drv, handler>>
    BY <1>10 DEF RxDisagrees, Chip, taken
  <2> QED BY <1>4, <2>1, StillHeard
<1>11. CASE RxError(ch)
  <2>1. UNCHANGED <<drv, handler>>
    BY <1>11 DEF RxError
  <2>2. \/ Chip(MessageH([dl[ch] EXCEPT !.rxerror = TRUE], GetError(chip, ch), ch, FALSE).c)
        \/ UNCHANGED chip
    BY <1>11 DEF RxError, Leave, Step, Chip
  <2> QED BY <1>2, <1>3, <1>5, <2>1, <2>2, HandlerHeard
<1>12. CASE WurqRecv(ch)
  <2>1. (chip' = chip \/ chip' = GetError(chip, ch)) /\ UNCHANGED <<drv, handler>>
    BY <1>12 DEF WurqRecv, Chip
  <2> QED BY <1>3, <2>1, StillHeard
<1>13. CASE ModeHandler(ch)
  <2>1. UNCHANGED handler
    BY <1>13 DEF ModeHandler
  <2>2. CASE StartCom(ch)
    BY <2>1, <2>2, SetModeHeard DEF StartCom
  <2>3. CASE GotoIdle(ch)
    <3>1. Chip(MessageH(dl[ch], chip, ch, FALSE).c) /\ UNCHANGED drv
      BY <2>3 DEF GotoIdle, Leave, Step
    <3> QED BY <1>1, <2>1, <3>1, HandlerHeard
  <2>4. CASE UNCHANGED <<chip, drv>>
    BY <1>5, <2>1, <2>4
  <2> QED BY <1>13, <2>2, <2>3, <2>4 DEF ModeHandler
<1>14. CASE MhEvent(ch)
  <2>1. Chip(MessageH(dl[ch], chip, ch, FALSE).c) /\ UNCHANGED <<drv, handler>>
    BY <1>14 DEF MhEvent, Leave
  <2> QED BY <1>1, <2>1, HandlerHeard
<1>15. CASE Timeout(ch)
  <2>1. UNCHANGED <<drv, handler>>
    BY <1>15 DEF Timeout
  <2>2. Chip(MessageH(dl[ch], chip, ch, TRUE).c) \/ UNCHANGED chip
    BY <1>15 DEF Timeout, Step, Chip
  <2> QED BY <1>1, <1>5, <2>1, <2>2, HandlerHeard
<1> QED
  BY <1>6, <1>7, <1>8, <1>9, <1>10, <1>11, <1>12, <1>13, <1>14, <1>15 DEF DlThread

(* Nor does anybody else.                                                  *)
LEMMA OtherStepHeard ==
    ASSUME HeardInv,
           \/ Isr \/ DL_SetMode_req
           \/ \E ch \in Channels :
                \/ WakeUpOver(ch) \/ Reply(ch) \/ Fault(ch) \/ TimerOver(ch)
                \/ Configure(ch) \/ Disable(ch) \/ Deactivate(ch) \/ DL_ReadWrite_req(ch)
    PROVE  EnabledWhileAwaited' /\ WakeUpHeard'
<1>1. chip \in ChipRecord
  BY DEF HeardInv, TypeOK
<1>2. CASE Isr \/ DL_SetMode_req
  BY <1>2, StillHeard DEF Isr, DL_SetMode_req
<1>3. ASSUME NEW ch \in Channels, WakeUpOver(ch)
      PROVE  EnabledWhileAwaited' /\ WakeUpHeard'
  <2>1. /\ Wurq \in chip'.pending /\ chip'.enabled = chip.enabled
        /\ UNCHANGED <<drv, handler>>
    BY <1>1, <1>3 DEF WakeUpOver, Chip, ChipRecord
  <2> QED BY <2>1 DEF HeardInv, EnabledWhileAwaited, WakeUpHeard
<1>4. ASSUME NEW ch \in Channels, Reply(ch) \/ Fault(ch)
      PROVE  EnabledWhileAwaited' /\ WakeUpHeard'
  <2>1. /\ chip.pending \subseteq chip'.pending /\ chip'.enabled = chip.enabled
        /\ chip'.est = chip.est /\ UNCHANGED <<drv, handler>>
    <3>1. CASE Reply(ch)
      BY <1>1, <3>1 DEF Reply, Chip, ChipRecord
    <3>2. CASE Fault(ch)
      BY <1>1, <3>2 DEF Fault, Chip, ChipRecord
    <3> QED BY <1>4, <3>1, <3>2
  <2> QED BY <2>1, StillHeard
<1>5. ASSUME NEW ch \in Channels, TimerOver(ch) \/ Deactivate(ch) \/ DL_ReadWrite_req(ch)
      PROVE  EnabledWhileAwaited' /\ WakeUpHeard'
  BY <1>5, StillHeard DEF TimerOver, Deactivate, DL_ReadWrite_req
<1>6. ASSUME NEW ch \in Channels, Configure(ch) \/ Disable(ch)
      PROVE  EnabledWhileAwaited' /\ WakeUpHeard'
  BY <1>6, SetModeHeard DEF Configure, Disable
<1> QED BY <1>2, <1>3, <1>4, <1>5, <1>6

(* No wake-up is lost, however many channels share the bit and the handler *)
(* (iolink_pl_max14819_pl_handler), and even if ports are configured in    *)
(* the middle of one.                                                      *)
THEOREM WakeUps == Spec => []WakeUpHeard
<1>1. Init => HeardInv
  <2>1. Init => EnabledWhileAwaited /\ WakeUpHeard
    BY DEF Init, Off, EnabledWhileAwaited, WakeUpHeard
  <2> QED BY <2>1, InitType DEF HeardInv
<1>2. HeardInv /\ TypeOK' /\ [Next]_vars => HeardInv'
  <2> SUFFICES ASSUME HeardInv, TypeOK', [Next]_vars PROVE EnabledWhileAwaited' /\ WakeUpHeard'
    BY DEF HeardInv
  <2>1. CASE Next
    BY <2>1, DlStepHeard, OtherStepHeard DEF Next
  <2>2. CASE UNCHANGED vars
    BY <2>2, StillHeard DEF vars
  <2> QED BY <2>1, <2>2
<1>3. HeardInv => WakeUpHeard
  BY DEF HeardInv
<1> QED BY <1>1, <1>2, <1>3, TypeCorrect, PTL DEF Spec

-----------------------------------------------------------------------------
(* Why the line is served, port by port: only a port that is SDCI has its  *)
(* interrupts enabled, waits for a wake-up or is told of one, and only     *)
(* such a port is asked to start.  A port that is taken out of SDCI is     *)
(* quiet until the other half of the call has stopped its DL.              *)
Pending(ch) == events[ch] \cup turn[ch]
Settled(ch) ==
    /\ "MDH" \notin Pending(ch)
    /\ dl[ch].mh \in {"INACTIVE", "STARTUP_2"} /\ ~dl[ch].rwcmd
Stopping(ch) == main.on = ch /\ main.mode = "INACTIVE" /\ Settled(ch)

OnlySdci(ch) ==
    /\ Rdy(ch) \in chip.enabled \/ Err(ch) \in chip.enabled => drv.io[ch]
    /\ chip.est[ch] => drv.wurq[ch]
    /\ drv.wurq[ch] => drv.io[ch] /\ dl[ch].mdh = "ESTCOM"
    /\ "WURQ" \in Pending(ch) =>
          /\ drv.io[ch] /\ ~drv.wurq[ch] /\ dl[ch].mdh = "ESTCOM"
          /\ "WURQ" \notin events[ch] \cap turn[ch]
    /\ ~drv.io[ch] => dl[ch].mode = "INACTIVE" \/ Stopping(ch)
    /\ main.on = ch /\ main.mode = "STARTUP" => drv.io[ch]
    /\ handler.by = ch => drv.io[ch]

(* And then there is a port for which the handler reads REG_Interrupt.     *)
SomeSdci == Line(chip) => \E ch \in Channels : drv.io[ch]

LineInv ==
    /\ TypeOK
    /\ \A ch \in Channels : OnlySdci(ch)
    /\ SomeSdci
    /\ LineServed

(* What a step may do that does not concern the wake-up of a port.         *)
LEMMA PortKept ==
    ASSUME LineInv, NEW x \in Channels,
           drv'.io[x] = drv.io[x], drv'.wurq[x] = drv.wurq[x],
           Rdy(x) \in chip'.enabled => Rdy(x) \in chip.enabled,
           Err(x) \in chip'.enabled => Err(x) \in chip.enabled,
           chip'.est[x] => chip.est[x],
           dl'[x].mdh = dl[x].mdh, dl'[x].mode = dl[x].mode,
           "WURQ" \in Pending(x)' => "WURQ" \in Pending(x),
           "WURQ" \in events'[x] \cap turn'[x] => "WURQ" \in events[x] \cap turn[x],
           main'.on = x => main.on = x /\ main'.mode = main.mode,
           Stopping(x) => Stopping(x)',
           handler'.by = x => drv.io[x]
    PROVE  OnlySdci(x)'
BY DEF LineInv, OnlySdci

(* The line stays served as long as the events of the ports that are SDCI  *)
(* are not lost: Chip sees to it that its falling edge is noticed.         *)
LEMMA LineKept ==
    ASSUME LineInv, UNCHANGED <<chip, isr>> \/ Chip(chip'),
           Line(chip') => Line(chip) \/ \E x \in Channels : drv.io[x],
           \A x \in Channels : drv'.io[x] = drv.io[x],
           \A x \in Channels : drv.io[x] /\ "PL" \in Pending(x) => "PL" \in Pending(x)'
    PROVE  SomeSdci' /\ LineServed'
BY DEF LineInv, SomeSdci, LineServed, Pending, Chip

(* A step that concerns no wake-up, of whatever port.                      *)
LEMMA Ordinary ==
    ASSUME LineInv, UNCHANGED drv, UNCHANGED <<chip, isr>> \/ Chip(chip'),
           chip'.enabled = chip.enabled,
           Line(chip') => Line(chip) \/ \E x \in Channels : drv.io[x],
           main'.on = main.on, main'.mode = main.mode,
           \A x \in Channels :
              /\ chip'.est[x] => chip.est[x]
              /\ dl'[x].mdh = dl[x].mdh /\ dl'[x].mode = dl[x].mode
              /\ "WURQ" \in Pending(x)' => "WURQ" \in Pending(x)
              /\ "WURQ" \in events'[x] \cap turn'[x] => "WURQ" \in events[x] \cap turn[x]
              /\ drv.io[x] /\ "PL" \in Pending(x) => "PL" \in Pending(x)'
              /\ Stopping(x) => Stopping(x)'
              /\ handler'.by = x => drv.io[x]
    PROVE  (\A x \in Channels : OnlySdci(x))' /\ SomeSdci' /\ LineServed'
<1>1. \A x \in Channels : OnlySdci(x)'
  BY PortKept
<1>2. SomeSdci' /\ LineServed'
  BY LineKept
<1> QED BY <1>1, <1>2

(* The message handler leaves the mode of the port alone, and does nothing *)
(* while no message is under way or asked for.                             *)
LEMMA MessageHKeeps ==
    ASSUME NEW d \in DlRecord, NEW c \in ChipRecord, NEW ch \in Channels, NEW e \in BOOLEAN
    PROVE  LET step == MessageH(d, c, ch, e)
           IN  /\ step.d.mdh = d.mdh /\ step.d.mode = d.mode
               /\ d.mh \in {"INACTIVE", "STARTUP_2"} /\ ~d.rwcmd => step.d = d
<1> DEFINE Good(step) ==
        /\ step.d.mdh = d.mdh /\ step.d.mode = d.mode
        /\ d.mh \in {"INACTIVE", "STARTUP_2"} /\ ~d.rwcmd => step.d = d
<1>1. ASSUME NEW x PROVE Good(Step(d, x))
  BY DEF Step
<1>2. CASE d.mh = "STARTUP_2" /\ d.rwcmd
  BY <1>2 DEF DlRecord, MessageH, Startup2, Step
<1>3. CASE d.mh = "AW_REPLY_4"
  <2>1. StartTimer(d).mdh = d.mdh /\ StartTimer(d).mode = d.mode /\ StartTimer(d) \in DlRecord
    BY DEF DlRecord, StartTimer
  <2>2. [StartTimer(d) EXCEPT !.mh = "ERRORHANDLING_5"].mdh = d.mdh
        /\ [StartTimer(d) EXCEPT !.mh = "ERRORHANDLING_5"].mode = d.mode
    BY <2>1 DEF DlRecord
  <2>3. [d EXCEPT !.mh = "STARTUP_2", !.rwcmd = FALSE].mdh = d.mdh
        /\ [d EXCEPT !.mh = "STARTUP_2", !.rwcmd = FALSE].mode = d.mode
    BY DEF DlRecord
  <2>4. AwaitReply4(d, c).d \in {[StartTimer(d) EXCEPT !.mh = "ERRORHANDLING_5"],
                                 [d EXCEPT !.mh = "STARTUP_2", !.rwcmd = FALSE], d}
    BY DEF AwaitReply4, Step
  <2> QED BY <1>3, <2>2, <2>3, <2>4 DEF MessageH
<1>4. CASE d.mh = "ERRORHANDLING_5"
  <2> DEFINE lost == [d EXCEPT !.mh = "INACTIVE", !.lost = TRUE, !.rwcmd = FALSE, !.timed = FALSE]
             again == [d EXCEPT !.mh = "AW_REPLY_4", !.retry = @ + 1]
  <2>1. lost.mdh = d.mdh /\ lost.mode = d.mode /\ again.mdh = d.mdh /\ again.mode = d.mode
    BY DEF DlRecord
  <2>2. ErrorHandling5(d, c, ch, e).d \in {lost, again, d}
    <3> MaxRetry \in Nat /\ d.retry \in Nat
      BY TransceiverAssumption DEF DlRecord
    <3> QED BY DEF ErrorHandling5, Step
  <2> QED BY <1>4, <2>1, <2>2 DEF MessageH
<1>5. CASE d.mh = "INACTIVE" \/ (d.mh = "STARTUP_2" /\ ~d.rwcmd)
  BY <1>1, <1>5 DEF MessageH, Startup2
<1> QED BY <1>2, <1>3, <1>4, <1>5 DEF DlRecord

(* A call of the message handler on behalf of an event of a port.          *)
LEMMA Handled ==
    ASSUME LineInv, UNCHANGED <<drv, handler, main>>, handler = NoHandler,
           NEW ch \in Channels, NEW event \in Events \ {"PL"}, Handle(ch, event),
           NEW d \in DlRecord, NEW c \in ChipRecord, NEW e \in BOOLEAN, NEW f \in DlRecord,
           d.mdh = dl[ch].mdh, d.mode = dl[ch].mode, d.mh = dl[ch].mh, d.rwcmd = dl[ch].rwcmd,
           c.est = chip.est, c.enabled = chip.enabled, c.pending = chip.pending,
           Chip(MessageH(d, c, ch, e).c),
           dl' = [dl EXCEPT ![ch] = f],
           f.mdh = dl[ch].mdh, f.mode = dl[ch].mode,
           f.mh = MessageH(d, c, ch, e).d.mh, f.rwcmd = MessageH(d, c, ch, e).d.rwcmd,
           \A x \in Channels \ {ch} : events'[x] = events[x],
           events'[ch] \in {events[ch] \cup Raised(dl[ch], MessageH(d, c, ch, e)),
                            (events[ch] \ {"TIMEOUT"}) \cup Raised(dl[ch], MessageH(d, c, ch, e))}
    PROVE  (\A x \in Channels : OnlySdci(x))' /\ SomeSdci' /\ LineServed'
<1> DEFINE step == MessageH(d, c, ch, e)
<1>1. TypeOK
  BY DEF LineInv
<1>2. /\ step.c.est = chip.est /\ step.c.enabled = chip.enabled /\ step.c.pending = chip.pending
      /\ d.mh \in {"INACTIVE", "STARTUP_2"} /\ ~d.rwcmd => step.d = d
  BY MessageHType, MessageHKeeps
<1> HIDE DEF step
<1>3. chip' = step.c /\ Chip(chip') /\ chip'.est = chip.est /\ chip'.enabled = chip.enabled
      /\ Line(chip') = Line(chip)
  BY <1>2 DEF Chip, Line, step
<1>4. Raised(dl[ch], step) \subseteq {"MDH"}
      /\ (Settled(ch) => Raised(dl[ch], step) = {} /\ f.mh = dl[ch].mh /\ f.rwcmd = dl[ch].rwcmd)
  BY <1>2 DEF Raised, Settled, step
<1>5. /\ turn'[ch] = turn[ch] \ {event}
      /\ \A x \in Channels \ {ch} : turn'[x] = turn[x]
      /\ dl'[ch] = f /\ \A x \in Channels \ {ch} : dl'[x] = dl[x]
  BY <1>1 DEF Handle, TypeOK
<1>6. /\ Pending(ch)' \subseteq Pending(ch) \cup Raised(dl[ch], step)
      /\ events'[ch] \cap turn'[ch] \subseteq (events[ch] \cap turn[ch]) \cup {"MDH"}
      /\ "PL" \in Pending(ch) => "PL" \in Pending(ch)'
  BY <1>4, <1>5 DEF Pending, step
<1>7. \A x \in Channels \ {ch} : Pending(x)' = Pending(x)
  BY <1>5 DEF Pending
<1>8. Stopping(ch) => Stopping(ch)'
  BY <1>4, <1>5, <1>6 DEF Stopping, Settled
<1>9. \A x \in Channels \ {ch} : Stopping(x) => Stopping(x)'
  BY <1>5, <1>7 DEF Stopping, Settled
<1>10. \A x \in Channels : handler'.by # x
  BY TransceiverAssumption DEF NoHandler
<1> QED BY <1>3, <1>4, <1>5, <1>6, <1>7, <1>8, <1>9, <1>10, Ordinary

(* An event that finds nothing to do.                                      *)
LEMMA Ignored ==
    ASSUME LineInv, NEW ch \in Channels, NEW event, Handle(ch, event),
           event = "PL" => ~drv.io[ch],
           UNCHANGED <<chip, isr, drv, handler, main, events, dl>>
    PROVE  (\A x \in Channels : OnlySdci(x))' /\ SomeSdci' /\ LineServed'
<1>1. /\ turn'[ch] = turn[ch] \ {event}
      /\ \A x \in Channels \ {ch} : turn'[x] = turn[x]
  BY DEF Handle, LineInv, TypeOK
<1>2. \A x \in Channels : Pending(x)' \subseteq Pending(x) /\ turn'[x] \subseteq turn[x]
  BY <1>1 DEF Pending
<1>3. \A x \in Channels : drv.io[x] /\ "PL" \in Pending(x) => "PL" \in Pending(x)'
  BY <1>1 DEF Pending
<1>4. \A x \in Channels : Stopping(x) => Stopping(x)'
  BY <1>2 DEF Stopping, Settled
<1>5. \A x \in Channels : handler'.by = x => drv.io[x]
  BY DEF LineInv, OnlySdci
<1> QED BY <1>2, <1>3, <1>4, <1>5, Ordinary

(* The handler reads REG_Interrupt, which raises the line.                 *)
LEMMA ReadLine ==
    ASSUME LineInv, NEW ch \in Channels, NEW event, Handle(ch, event), drv.io[ch],
           NEW c \in ChipRecord, NEW data \in BOOLEAN, ReadInterrupt(ch, c, data),
           c.est = chip.est, c.enabled = chip.enabled,
           UNCHANGED <<drv, main, events, dl>>
    PROVE  (\A x \in Channels : OnlySdci(x))' /\ SomeSdci' /\ LineServed'
<1>1. chip' = [c EXCEPT !.pending = {}] /\ handler'.by = ch
  BY DEF ReadInterrupt, Chip
<1>2. chip'.est = chip.est /\ chip'.enabled = chip.enabled /\ chip'.pending = {}
  BY <1>1 DEF ChipRecord
<1>3. \A x \in Channels : Pending(x)' \subseteq Pending(x) /\ turn'[x] \subseteq turn[x]
  BY DEF Handle, LineInv, TypeOK, Pending
<1>4. \A x \in Channels : Stopping(x) => Stopping(x)'
  BY <1>3 DEF Stopping, Settled
<1>5. \A x \in Channels : OnlySdci(x)'
  BY <1>1, <1>2, <1>3, <1>4, PortKept
<1> QED BY <1>2, <1>5 DEF SomeSdci, LineServed, Line

(* The wake-up begins: only in a port that is SDCI, for a port that is not *)
(* SDCI is asked to stop before its mode handler looks.                    *)
LEMMA StartLine ==
    ASSUME LineInv, NEW ch \in Channels, Handle(ch, "MDH"), StartCom(ch),
           UNCHANGED <<handler, main>>
    PROVE  (\A x \in Channels : OnlySdci(x))' /\ SomeSdci' /\ LineServed'
<1>1. TypeOK /\ OnlySdci(ch) /\ chip \in ChipRecord
  BY DEF LineInv, TypeOK
<1>2. drv.io[ch]
  BY <1>1 DEF OnlySdci, Stopping, Settled, Pending, Handle, StartCom, Starting
<1>3. /\ \A x \in Channels : drv'.io[x] = drv.io[x]
      /\ \A x \in Channels \ {ch} : drv'.wurq[x] = drv.wurq[x] /\ dl'[x] = dl[x]
      /\ drv'.wurq[ch] /\ dl'[ch].mdh = "ESTCOM" /\ dl'[ch].mode = dl[ch].mode
  BY <1>1 DEF StartCom, InitSdci, TypeOK, DlRecord
<1>4. /\ chip' = [Reset(chip, ch) EXCEPT !.est[ch] = TRUE, !.enabled = @ \cup {Wurq}]
      /\ Chip(chip')
  BY DEF StartCom, InitSdci, Chip
<1>5. /\ chip'.enabled = chip.enabled \cup {Wurq}
      /\ \A x \in Channels \ {ch} : chip'.est[x] = chip.est[x]
  BY <1>1, <1>4 DEF Reset, ChipRecord
<1>6. /\ events' = events /\ turn'[ch] = turn[ch] \ {"MDH"}
      /\ \A x \in Channels \ {ch} : turn'[x] = turn[x]
  BY <1>1 DEF Handle, StartCom, TypeOK
<1>7. \A x \in Channels : /\ Rdy(x) \in chip'.enabled => Rdy(x) \in chip.enabled
                          /\ Err(x) \in chip'.enabled => Err(x) \in chip.enabled
  BY <1>5 DEF Rdy, Err, Wurq
<1>8. \A x \in Channels : Pending(x)' \subseteq Pending(x)
                          /\ ("PL" \in Pending(x) => "PL" \in Pending(x)')
  BY <1>6 DEF Pending
<1>9. ASSUME NEW x \in Channels \ {ch} PROVE OnlySdci(x)'
  <2>1. Stopping(x) => Stopping(x)'
    BY <1>3, <1>8 DEF Stopping, Settled
  <2>2. handler'.by = x => drv.io[x]
    BY DEF LineInv, OnlySdci
  <2>3. drv'.io[x] = drv.io[x] /\ drv'.wurq[x] = drv.wurq[x] /\ chip'.est[x] => chip.est[x]
        /\ dl'[x].mdh = dl[x].mdh /\ dl'[x].mode = dl[x].mode
    BY <1>3, <1>5
  <2> QED BY <1>3, <1>5, <1>6, <1>7, <1>8, <2>1, <2>2, <2>3, PortKept
<1>10. "WURQ" \notin Pending(ch)
  BY <1>1 DEF OnlySdci, StartCom, Starting
<1>11. OnlySdci(ch)'
  BY <1>2, <1>3, <1>8, <1>10 DEF OnlySdci
<1>12. SomeSdci' /\ LineServed'
  BY <1>2, <1>3, <1>4, <1>8, LineKept
<1> QED BY <1>9, <1>11, <1>12

(* The port is told how the wake-up ended.                                 *)
LEMMA WurqLine ==
    ASSUME LineInv, NEW ch \in Channels, WurqRecv(ch)
    PROVE  (\A x \in Channels : OnlySdci(x))' /\ SomeSdci' /\ LineServed'
<1>1. TypeOK /\ OnlySdci(ch) /\ chip \in ChipRecord
  BY DEF LineInv, TypeOK
<1>2. /\ Handle(ch, "WURQ") /\ UNCHANGED <<drv, handler, main>>
      /\ \A x \in Channels \ {ch} : dl'[x] = dl[x] /\ events'[x] = events[x]
      /\ events'[ch] \subseteq events[ch] \cup {"MH"} /\ events[ch] \subseteq events'[ch]
  BY <1>1 DEF WurqRecv, TypeOK
<1>3. /\ turn'[ch] = turn[ch] \ {"WURQ"}
      /\ \A x \in Channels \ {ch} : turn'[x] = turn[x]
  BY <1>1, <1>2 DEF Handle, TypeOK
<1>4. /\ UNCHANGED <<chip, isr>> \/ Chip(chip')
      /\ chip'.enabled = chip.enabled /\ chip'.est = chip.est /\ chip'.pending = chip.pending
  <2>1. UNCHANGED <<chip, isr>> \/ Chip(GetError(chip, ch))
    BY DEF WurqRecv
  <2>2. GetError(chip, ch).enabled = chip.enabled /\ GetError(chip, ch).est = chip.est
        /\ GetError(chip, ch).pending = chip.pending
    BY <1>1 DEF GetError, ChipRecord
  <2> QED BY <2>1, <2>2 DEF Chip
<1>5. drv.io[ch] /\ ~drv.wurq[ch] /\ ~chip.est[ch] /\ "WURQ" \notin events[ch]
  BY <1>1, <1>2 DEF OnlySdci, Handle, Pending
<1>6. "WURQ" \notin Pending(ch)'
  BY <1>2, <1>3, <1>5 DEF Pending
<1>7. OnlySdci(ch)'
  BY <1>1, <1>2, <1>4, <1>5, <1>6 DEF OnlySdci
<1>8. ASSUME NEW x \in Channels \ {ch} PROVE OnlySdci(x)'
  <2>1. Pending(x)' = Pending(x) /\ (Stopping(x) => Stopping(x)')
    BY <1>2, <1>3 DEF Pending, Stopping, Settled
  <2>2. handler'.by = x => drv.io[x]
    BY <1>2 DEF LineInv, OnlySdci
  <2> QED BY <1>2, <1>3, <1>4, <2>1, <2>2, PortKept
<1>9. \A x \in Channels : "PL" \in Pending(x) => "PL" \in Pending(x)'
  BY <1>2, <1>3 DEF Pending
<1>10. SomeSdci' /\ LineServed'
  BY <1>2, <1>4, <1>9, LineKept DEF Line
<1> QED BY <1>7, <1>8, <1>10

(* The handler tells the ports: a port that is told of its wake-up does    *)
(* not wait for it any longer.                                             *)
LEMMA ServeLine ==
    ASSUME LineInv, NEW ch \in Channels, PlServe(ch)
    PROVE  (\A x \in Channels : OnlySdci(x))' /\ SomeSdci' /\ LineServed'
<1> DEFINE d == [dl[ch] EXCEPT !.dataready = TRUE]
           step == MessageH(d, chip, ch, FALSE)
<1>1. TypeOK /\ chip \in ChipRecord /\ dl[ch] \in DlRecord
  BY DEF LineInv, TypeOK
<1>2. d \in DlRecord /\ d.mdh = dl[ch].mdh /\ d.mode = dl[ch].mode
      /\ d.mh = dl[ch].mh /\ d.rwcmd = dl[ch].rwcmd
  BY <1>1 DEF DlRecord
<1> HIDE DEF d
<1>3. /\ step.c.est = chip.est /\ step.c.enabled = chip.enabled /\ step.c.pending = chip.pending
      /\ step.d.mdh = d.mdh /\ step.d.mode = d.mode
      /\ d.mh \in {"INACTIVE", "STARTUP_2"} /\ ~d.rwcmd => step.d = d
  <2>1. /\ step.c.est = chip.est /\ step.c.enabled = chip.enabled
        /\ step.c.pending = chip.pending
    BY <1>1, <1>2, MessageHType
  <2>2. /\ step.d.mdh = d.mdh /\ step.d.mode = d.mode
        /\ d.mh \in {"INACTIVE", "STARTUP_2"} /\ ~d.rwcmd => step.d = d
    BY <1>1, <1>2, MessageHKeeps
  <2> QED BY <2>1, <2>2
<1> HIDE DEF step
<1>4. Raised(d, step) \subseteq {"MDH"}
  BY DEF Raised
<1>5. /\ UNCHANGED <<main, turn>> /\ handler' = NoHandler /\ handler.by = ch
      /\ drv'.io = drv.io
      /\ \A x \in Channels : drv'.wurq[x] <=> drv.wurq[x] /\ x \notin WokenUp
  BY <1>1 DEF PlServe, TypeOK
<1>6. /\ UNCHANGED <<chip, isr>> \/ Chip(chip')
      /\ chip'.enabled = chip.enabled /\ chip'.est = chip.est /\ chip'.pending = chip.pending
      /\ \A x \in Channels : dl'[x].mdh = dl[x].mdh /\ dl'[x].mode = dl[x].mode
      /\ \A x \in Channels \ {ch} : dl'[x] = dl[x] /\ events'[x] = SetEvents[x]
      /\ SetEvents[ch] \subseteq events'[ch] /\ events'[ch] \subseteq SetEvents[ch] \cup {"MDH"}
  <2>1. CASE handler.data
    <3>1. /\ Chip(step.c)
          /\ dl' = [dl EXCEPT ![ch] = step.d]
          /\ events' = [SetEvents EXCEPT ![ch] = @ \cup Raised(d, step)]
      BY <2>1 DEF PlServe, d, step
    <3>2. SetEvents \in [Channels -> SUBSET Events]
      BY <1>1, EventsType
    <3> QED BY <1>1, <1>2, <1>3, <1>4, <3>1, <3>2 DEF Chip, TypeOK
  <2>2. CASE ~handler.data
    BY <2>2 DEF PlServe
  <2> QED BY <2>1, <2>2
<1>7. ASSUME NEW x \in Channels
      PROVE  /\ events[x] \subseteq SetEvents[x]
             /\ SetEvents[x] \subseteq events[x] \cup {"WURQ", "RXERR", "RXRDY"}
             /\ "WURQ" \in SetEvents[x] => "WURQ" \in events[x] \/ x \in WokenUp
  BY DEF SetEvents, PlEvents
<1>8. \A x \in Channels : handler'.by # x
  BY <1>5, TransceiverAssumption DEF NoHandler
<1>9. drv.io[ch]
  BY <1>5 DEF LineInv, OnlySdci
<1>10. ASSUME NEW x \in WokenUp PROVE OnlySdci(x)'
  <2>1. OnlySdci(x) /\ drv.wurq[x] /\ ~chip.est[x] /\ x \in Channels
    BY DEF WokenUp, LineInv
  <2>2. drv.io[x] /\ "WURQ" \notin Pending(x) /\ dl[x].mdh = "ESTCOM"
    BY <2>1 DEF OnlySdci
  <2>3. "WURQ" \notin events'[x] \cap turn'[x]
    BY <1>5, <2>2 DEF Pending
  <2> QED BY <1>5, <1>6, <1>8, <2>1, <2>2, <2>3 DEF OnlySdci
<1>11. ASSUME NEW x \in Channels \ WokenUp PROVE OnlySdci(x)'
  <2>1. "WURQ" \in events'[x] => "WURQ" \in events[x]
    BY <1>6, <1>7
  <2>2. ("WURQ" \in Pending(x)' => "WURQ" \in Pending(x))
        /\ ("WURQ" \in events'[x] \cap turn'[x] => "WURQ" \in events[x] \cap turn[x])
    BY <1>5, <2>1 DEF Pending
  <2>3. x # ch /\ Stopping(x) => Stopping(x)'
    <3>1. x # ch /\ "MDH" \in Pending(x)' => "MDH" \in Pending(x)
      BY <1>5, <1>6, <1>7 DEF Pending
    <3> QED BY <1>5, <1>6, <3>1 DEF Stopping, Settled
  <2>4. drv'.io[x] = drv.io[x] /\ (drv'.wurq[x] <=> drv.wurq[x])
    BY <1>5
  <2>5. OnlySdci(x)
    BY DEF LineInv
  <2> QED BY <1>5, <1>6, <1>8, <1>9, <2>2, <2>3, <2>4, <2>5 DEF OnlySdci
<1>12. \A x \in Channels : "PL" \in Pending(x) => "PL" \in Pending(x)'
  BY <1>5, <1>6, <1>7 DEF Pending
<1>13. SomeSdci' /\ LineServed'
  BY <1>5, <1>6, <1>12, LineKept DEF Line
<1> QED BY <1>10, <1>11, <1>13

(* A port that stops, or lost its device, was not waiting for a wake-up.   *)
LEMMA IdleLine ==
    ASSUME LineInv, NEW ch \in Channels, Handle(ch, "MDH"), GotoIdle(ch),
           UNCHANGED <<handler, main>>
    PROVE  (\A x \in Channels : OnlySdci(x))' /\ SomeSdci' /\ LineServed'
<1> DEFINE step == MessageH(dl[ch], chip, ch, FALSE)
           idle == [step.d EXCEPT !.mdh = "IDLE", !.lost = FALSE]
<1>1. TypeOK /\ chip \in ChipRecord /\ dl[ch] \in DlRecord /\ OnlySdci(ch)
      /\ dl[ch].mdh = "STARTUP"
  BY DEF LineInv, TypeOK, GotoIdle, Ending
<1>2. /\ step.d \in DlRecord
      /\ step.c.est = chip.est /\ step.c.enabled = chip.enabled /\ step.c.pending = chip.pending
  BY <1>1, MessageHType
<1>3. step.d.mode = dl[ch].mode
  BY <1>1, MessageHKeeps
<1>4. Leave(ch, Step(idle, step.c)) /\ UNCHANGED drv
  BY DEF GotoIdle
<1> HIDE DEF step
<1>5. idle.mode = dl[ch].mode
  BY <1>2, <1>3 DEF DlRecord
<1> HIDE DEF idle
<1>6. /\ Chip(step.c) /\ dl' = [dl EXCEPT ![ch] = idle]
      /\ events' = [events EXCEPT ![ch] = @ \cup Raised(dl[ch], Step(idle, step.c))]
  BY <1>4 DEF Leave, Step
<1>7. /\ Chip(chip') /\ chip'.est = chip.est /\ chip'.enabled = chip.enabled
      /\ chip'.pending = chip.pending
  BY <1>2, <1>6 DEF Chip
<1>8. /\ turn'[ch] = turn[ch] \ {"MDH"} /\ events[ch] \subseteq events'[ch]
      /\ events'[ch] \subseteq events[ch] \cup {"MDH"}
      /\ dl'[ch].mode = dl[ch].mode
      /\ \A x \in Channels \ {ch} :
            dl'[x] = dl[x] /\ events'[x] = events[x] /\ turn'[x] = turn[x]
  BY <1>1, <1>5, <1>6 DEF Handle, Raised, TypeOK
<1>9. ASSUME NEW x \in Channels \ {ch} PROVE OnlySdci(x)'
  <2>1. Pending(x)' = Pending(x) /\ (Stopping(x) => Stopping(x)')
    BY <1>8 DEF Pending, Stopping, Settled
  <2>2. handler'.by = x => drv.io[x]
    BY DEF LineInv, OnlySdci
  <2> QED BY <1>4, <1>7, <1>8, <2>1, <2>2, PortKept
<1>10. ~drv.wurq[ch] /\ ~chip.est[ch] /\ "WURQ" \notin Pending(ch) /\ ~Stopping(ch)
  BY <1>1 DEF OnlySdci, Stopping, Settled, Handle, Pending
<1>11. "WURQ" \notin Pending(ch)'
  BY <1>8, <1>10 DEF Pending
<1>12. OnlySdci(ch)'
  BY <1>1, <1>4, <1>7, <1>8, <1>10, <1>11 DEF OnlySdci
<1>13. \A x \in Channels : "PL" \in Pending(x) => "PL" \in Pending(x)'
  BY <1>8 DEF Pending
<1>14. SomeSdci' /\ LineServed'
  BY <1>4, <1>7, <1>13, LineKept DEF Line
<1> QED BY <1>9, <1>12, <1>14

(* The same for a timeout, whose event is cleared once more.               *)
LEMMA TimeoutLine ==
    ASSUME LineInv, NEW ch \in Channels, Timeout(ch)
    PROVE  (\A x \in Channels : OnlySdci(x))' /\ SomeSdci' /\ LineServed'
<1>1. TypeOK /\ chip \in ChipRecord /\ dl[ch] \in DlRecord
  BY DEF LineInv, TypeOK
<1>2. /\ Handle(ch, "TIMEOUT") /\ handler = NoHandler /\ UNCHANGED <<drv, handler, main>>
      /\ "TIMEOUT" \in Events \ {"PL"}
  BY DEF Timeout, Handle, Free, Events
<1>3. CASE dl[ch].timed
  <2> DEFINE step == MessageH(dl[ch], chip, ch, TRUE)
             f == [step.d EXCEPT !.timed = FALSE]
  <2>1. step.d \in DlRecord
    BY <1>1, MessageHType
  <2>2. step.d.mdh = dl[ch].mdh /\ step.d.mode = dl[ch].mode
    BY <1>1, MessageHKeeps
  <2>3. /\ Chip(step.c) /\ dl' = [dl EXCEPT ![ch] = f]
        /\ events' = [events EXCEPT ![ch] = (@ \ {"TIMEOUT"}) \cup Raised(dl[ch], step)]
    BY <1>3 DEF Timeout
  <2>4. f \in DlRecord /\ f.mdh = dl[ch].mdh /\ f.mode = dl[ch].mode
        /\ f.mh = step.d.mh /\ f.rwcmd = step.d.rwcmd
    <3> HIDE DEF step
    <3> QED BY <2>1, <2>2 DEF DlRecord
  <2>5. /\ events'[ch] = (events[ch] \ {"TIMEOUT"}) \cup Raised(dl[ch], step)
        /\ \A x \in Channels \ {ch} : events'[x] = events[x]
    BY <1>1, <2>3 DEF TypeOK
  <2> HIDE DEF f
  <2> QED BY <1>1, <1>2, <2>3, <2>4, <2>5, Handled
<1>4. CASE ~dl[ch].timed
  <2>1. /\ Chip(chip) /\ dl' = [dl EXCEPT ![ch] = [dl[ch] EXCEPT !.timed = FALSE]]
        /\ events' = [events EXCEPT ![ch] = (@ \ {"TIMEOUT"}) \cup Raised(dl[ch], Step(dl[ch], chip))]
    BY <1>4 DEF Timeout, Step
  <2>2. Raised(dl[ch], Step(dl[ch], chip)) = {}
    BY DEF Raised, Step
  <2>3. /\ turn'[ch] = turn[ch] \ {"TIMEOUT"} /\ events'[ch] = events[ch] \ {"TIMEOUT"}
        /\ \A x \in Channels \ {ch} :
              dl'[x] = dl[x] /\ events'[x] = events[x] /\ turn'[x] = turn[x]
        /\ dl'[ch].mdh = dl[ch].mdh /\ dl'[ch].mode = dl[ch].mode
        /\ dl'[ch].mh = dl[ch].mh /\ dl'[ch].rwcmd = dl[ch].rwcmd
    BY <1>1, <1>2, <2>1, <2>2 DEF Handle, TypeOK, DlRecord
  <2>4. chip' = chip /\ Chip(chip')
    BY <2>1 DEF Chip
  <2>5. \A x \in Channels :
           /\ Pending(x)' \subseteq Pending(x) /\ turn'[x] \subseteq turn[x]
           /\ events'[x] \subseteq events[x]
           /\ "PL" \in Pending(x) => "PL" \in Pending(x)'
    BY <2>3 DEF Pending
  <2>6. \A x \in Channels : Stopping(x) => Stopping(x)'
    BY <1>2, <2>3, <2>5 DEF Stopping, Settled
  <2>7. \A x \in Channels : handler'.by = x => drv.io[x]
    BY <1>2 DEF LineInv, OnlySdci
  <2>8. \A x \in Channels : dl'[x].mdh = dl[x].mdh /\ dl'[x].mode = dl[x].mode
    BY <2>3
  <2> QED BY <1>2, <2>4, <2>5, <2>6, <2>7, <2>8, Ordinary
<1> QED BY <1>3, <1>4

(* A DL thread keeps the line served.                                      *)
LEMMA DlStepLine ==
    ASSUME LineInv, NEW ch \in Channels, DlThread(ch) \/ RxDisagrees(ch)
    PROVE  (\A x \in Channels : OnlySdci(x))' /\ SomeSdci' /\ LineServed'
<1> DEFINE Served == (\A x \in Channels : OnlySdci(x))' /\ SomeSdci' /\ LineServed'
<1>1. dl[ch] \in DlRecord /\ chip \in ChipRecord /\ OnlySdci(ch)
  BY DEF LineInv, TypeOK
<1>2. handler = NoHandler => \A x \in Channels : handler.by # x
  BY TransceiverAssumption DEF NoHandler
<1> DEFINE ready == [dl[ch] EXCEPT !.dataready = TRUE]
           error == [dl[ch] EXCEPT !.rxerror = TRUE]
           taken == [chip EXCEPT !.fifo[ch] = FALSE]
<1>3. /\ ready \in DlRecord /\ ready.mdh = dl[ch].mdh /\ ready.mode = dl[ch].mode
      /\ ready.mh = dl[ch].mh /\ ready.rwcmd = dl[ch].rwcmd
      /\ error \in DlRecord /\ error.mdh = dl[ch].mdh /\ error.mode = dl[ch].mode
      /\ error.mh = dl[ch].mh /\ error.rwcmd = dl[ch].rwcmd
  BY <1>1 DEF DlRecord
<1>4. /\ taken \in ChipRecord /\ taken.est = chip.est
      /\ taken.enabled = chip.enabled /\ taken.pending = chip.pending
  BY <1>1 DEF ChipRecord
<1>5. /\ GetError(chip, ch) \in ChipRecord /\ GetError(chip, ch).est = chip.est
      /\ GetError(chip, ch).enabled = chip.enabled /\ GetError(chip, ch).pending = chip.pending
  BY <1>1 DEF GetError, ChipRecord
<1> HIDE DEF ready, error, taken
<1>6. ASSUME NEW d \in DlRecord, NEW c \in ChipRecord, NEW e \in BOOLEAN,
             d.mdh = dl[ch].mdh, d.mode = dl[ch].mode
      PROVE  /\ MessageH(d, c, ch, e).d \in DlRecord
             /\ MessageH(d, c, ch, e).d.mdh = dl[ch].mdh
             /\ MessageH(d, c, ch, e).d.mode = dl[ch].mode
  BY <1>6, MessageHType, MessageHKeeps
<1>7. ASSUME NEW event \in Events \ {"PL"}, Handle(ch, event),
             NEW d \in DlRecord, NEW c \in ChipRecord, NEW e \in BOOLEAN,
             d.mdh = dl[ch].mdh, d.mode = dl[ch].mode, d.mh = dl[ch].mh, d.rwcmd = dl[ch].rwcmd,
             c.est = chip.est, c.enabled = chip.enabled, c.pending = chip.pending,
             Raised(d, MessageH(d, c, ch, e)) = Raised(dl[ch], MessageH(d, c, ch, e)),
             Leave(ch, MessageH(d, c, ch, e)), UNCHANGED <<drv, handler, main>>
      PROVE  Served
  <2>1. handler = NoHandler
    BY <1>7 DEF Handle, Free
  <2>2. /\ events' = [events EXCEPT ![ch] = @ \cup Raised(dl[ch], MessageH(d, c, ch, e))]
        /\ dl' = [dl EXCEPT ![ch] = MessageH(d, c, ch, e).d]
        /\ Chip(MessageH(d, c, ch, e).c)
    BY <1>7 DEF Leave
  <2>3. /\ \A x \in Channels \ {ch} : events'[x] = events[x]
        /\ events'[ch] = events[ch] \cup Raised(dl[ch], MessageH(d, c, ch, e))
    BY <2>2 DEF LineInv, TypeOK
  <2> DEFINE f == MessageH(d, c, ch, e).d
  <2>4. f \in DlRecord /\ f.mdh = dl[ch].mdh /\ f.mode = dl[ch].mode
        /\ f.mh = MessageH(d, c, ch, e).d.mh /\ f.rwcmd = MessageH(d, c, ch, e).d.rwcmd
        /\ dl' = [dl EXCEPT ![ch] = f]
    BY <1>6, <1>7, <2>2
  <2>5. events'[ch] \in {events[ch] \cup Raised(dl[ch], MessageH(d, c, ch, e)),
                         (events[ch] \ {"TIMEOUT"}) \cup Raised(dl[ch], MessageH(d, c, ch, e))}
    BY <2>3
  <2>6. /\ UNCHANGED <<drv, handler, main>> /\ Handle(ch, event)
        /\ c.est = chip.est /\ c.enabled = chip.enabled /\ c.pending = chip.pending
    BY <1>7
  <2>7. /\ d.mdh = dl[ch].mdh /\ d.mode = dl[ch].mode /\ d.mh = dl[ch].mh
        /\ d.rwcmd = dl[ch].rwcmd
    BY <1>7
  <2>8. Chip(MessageH(d, c, ch, e).c) /\ \A x \in Channels \ {ch} : events'[x] = events[x]
    BY <2>2, <2>3
  <2> HIDE DEF f
  <2> QED BY <2>1, <2>4, <2>5, <2>6, <2>7, <2>8, Handled
<1>8. \A step : /\ Raised(ready, step) = Raised(dl[ch], step)
                /\ Raised(error, step) = Raised(dl[ch], step)
  BY <1>3 DEF Raised
<1>9. CASE TakeTurn(ch)
  <2>1. \A x \in Channels : /\ Pending(x)' = Pending(x)
                            /\ x = ch => events'[x] = {}
                            /\ x # ch => events'[x] = events[x] /\ turn'[x] = turn[x]
    BY <1>9 DEF TakeTurn, Pending, LineInv, TypeOK
  <2>2. \A x \in Channels : handler.by = x => drv.io[x]
    BY DEF LineInv, OnlySdci
  <2>3. \A x \in Channels : Stopping(x) => Stopping(x)'
    BY <1>9, <2>1 DEF TakeTurn, Stopping, Settled
  <2> QED BY <1>9, <2>1, <2>2, <2>3, Ordinary DEF TakeTurn
<1>10. CASE PlEvent(ch)
  <2>1. CASE drv.io[ch]
    BY <1>1, <1>10, <2>1, ReadLine DEF PlEvent
  <2>2. CASE ~drv.io[ch]
    BY <1>10, <2>2, Ignored DEF PlEvent
  <2> QED BY <2>1, <2>2
<1>11. CASE PlServe(ch)
  BY <1>11, ServeLine
<1>12. CASE RxReady(ch)
  <2>1. /\ Handle(ch, "RXRDY") /\ UNCHANGED <<drv, holder, main>>
        /\ \/ UNCHANGED <<chip, isr, handler, events, dl>>
           \/ drv.io[ch] /\ ReadInterrupt(ch, taken, TRUE) /\ UNCHANGED <<events, dl>>
           \/ Leave(ch, MessageH(ready, taken, ch, FALSE)) /\ UNCHANGED handler
    BY <1>12 DEF RxReady, ready, taken
  <2>2. "RXRDY" \in Events \ {"PL"}
    BY DEF Events
  <2>3. CASE UNCHANGED <<chip, isr, handler, events, dl>>
    BY <2>1, <2>3, Ignored
  <2>4. CASE drv.io[ch] /\ ReadInterrupt(ch, taken, TRUE) /\ UNCHANGED <<events, dl>>
    BY <1>4, <2>1, <2>4, ReadLine
  <2>5. CASE Leave(ch, MessageH(ready, taken, ch, FALSE)) /\ UNCHANGED handler
    BY <1>3, <1>4, <1>7, <1>8, <2>1, <2>2, <2>5
  <2> QED BY <2>1, <2>3, <2>4, <2>5
<1>13. CASE RxDisagrees(ch)
  <2>1. /\ Handle(ch, "RXRDY") /\ chip' = taken /\ Chip(chip')
        /\ UNCHANGED <<drv, handler, events, dl, main>>
    BY <1>13 DEF RxDisagrees, Chip, taken
  <2>2. \A x \in Channels : /\ Pending(x)' \subseteq Pending(x) /\ turn'[x] \subseteq turn[x]
                            /\ "PL" \in Pending(x) => "PL" \in Pending(x)'
    BY <2>1 DEF Handle, Pending, LineInv, TypeOK
  <2>3. \A x \in Channels : Stopping(x) => Stopping(x)'
    BY <2>1, <2>2 DEF Stopping, Settled
  <2>4. \A x \in Channels : handler.by = x => drv.io[x]
    BY DEF LineInv, OnlySdci
  <2> QED BY <1>4, <2>1, <2>2, <2>3, <2>4, Ordinary DEF Line
<1>14. CASE RxError(ch)
  <2>1. Handle(ch, "RXERR") /\ UNCHANGED <<drv, handler, main>>
    BY <1>14 DEF RxError
  <2>2. "RXERR" \in Events \ {"PL"}
    BY DEF Events
  <2>3. CASE chip.err[ch]
    <3>1. Leave(ch, MessageH(error, GetError(chip, ch), ch, FALSE))
      BY <1>14, <2>3 DEF RxError, error
    <3> QED BY <1>3, <1>5, <1>7, <1>8, <2>1, <2>2, <3>1
  <2>4. CASE ~chip.err[ch]
    <3>1. Leave(ch, Step(dl[ch], chip))
      BY <1>14, <2>4 DEF RxError
    <3>2. Chip(chip) /\ UNCHANGED <<events, dl>>
      BY <3>1 DEF Leave, Step, Raised, LineInv, TypeOK
    <3>3. UNCHANGED <<chip, isr>>
      BY <3>2 DEF Chip, LineInv, TypeOK
    <3> QED BY <2>1, <3>2, <3>3, Ignored
  <2> QED BY <2>3, <2>4
<1>15. CASE WurqRecv(ch)
  BY <1>15, WurqLine
<1>16. CASE ModeHandler(ch)
  <2>1. Handle(ch, "MDH") /\ UNCHANGED <<handler, main>>
    BY <1>16 DEF ModeHandler
  <2>2. CASE StartCom(ch)
    BY <2>1, <2>2, StartLine
  <2>3. CASE GotoIdle(ch)
    BY <2>1, <2>3, IdleLine
  <2>4. CASE UNCHANGED <<chip, isr, drv, events, dl>>
    BY <2>1, <2>4, Ignored
  <2> QED BY <1>16, <2>2, <2>3, <2>4 DEF ModeHandler
<1>17. CASE MhEvent(ch)
  <2>1. "MH" \in Events \ {"PL"}
    BY DEF Events
  <2> QED BY <1>1, <1>7, <1>17, <2>1 DEF MhEvent
<1>18. CASE Timeout(ch)
  BY <1>18, TimeoutLine
<1> QED
  BY <1>9, <1>10, <1>11, <1>12, <1>13, <1>14, <1>15, <1>16, <1>17, <1>18 DEF DlThread

(* The chip: only the bit of a port that is SDCI pulls the line.           *)
LEMMA ChipLine ==
    ASSUME LineInv, NEW ch \in Channels, WakeUpOver(ch) \/ Reply(ch) \/ Fault(ch)
    PROVE  (\A x \in Channels : OnlySdci(x))' /\ SomeSdci' /\ LineServed'
<1>1. chip \in ChipRecord /\ OnlySdci(ch)
  BY DEF LineInv, TypeOK
<1>2. UNCHANGED <<drv, handler, events, turn, dl, main>> /\ Chip(chip')
  BY DEF WakeUpOver, Reply, Fault, Chip
<1>3. /\ chip'.enabled = chip.enabled
      /\ \A x \in Channels : chip'.est[x] => chip.est[x]
      /\ Line(chip') => Line(chip) \/ drv.io[ch]
  <2>1. CASE WakeUpOver(ch)
    <3>1. chip.est[ch] /\ drv.io[ch]
      BY <1>1, <2>1 DEF WakeUpOver, OnlySdci
    <3> QED BY <1>1, <2>1, <3>1 DEF WakeUpOver, Chip, ChipRecord
  <2>2. CASE Reply(ch)
    <3>1. /\ chip'.pending = chip.pending \cup {Rdy(ch)} /\ chip'.est = chip.est
          /\ chip'.enabled = chip.enabled
      BY <1>1, <2>2 DEF Reply, Chip, ChipRecord
    <3> QED BY <1>1, <3>1 DEF OnlySdci, Line
  <2>3. CASE Fault(ch)
    <3>1. /\ chip'.pending = chip.pending \cup {Err(ch)} /\ chip'.est = chip.est
          /\ chip'.enabled = chip.enabled
      BY <1>1, <2>3 DEF Fault, Chip, ChipRecord
    <3> QED BY <1>1, <3>1 DEF OnlySdci, Line
  <2> QED BY <2>1, <2>2, <2>3
<1>4. \A x \in Channels : Stopping(x) => Stopping(x)'
  BY <1>2 DEF Stopping, Settled, Pending
<1>5. \A x \in Channels : handler.by = x => drv.io[x]
  BY DEF LineInv, OnlySdci
<1>6. \A x \in Channels : Pending(x)' = Pending(x)
  BY <1>2 DEF Pending
<1> QED BY <1>2, <1>3, <1>4, <1>5, <1>6, Ordinary

(* set_mode, called while the port and the chip are quiet: the line is     *)
(* high, so that it cannot be left low without a port that is SDCI.        *)
LEMMA SetModeLine ==
    ASSUME Patient, LineInv, NEW ch \in Channels, Configure(ch) \/ Disable(ch)
    PROVE  (\A x \in Channels : OnlySdci(x))' /\ SomeSdci' /\ LineServed'
<1>1. TypeOK /\ chip \in ChipRecord /\ OnlySdci(ch)
  BY DEF LineInv, TypeOK
<1>2. /\ Quiet(ch) /\ main.on = None /\ Settled(ch)
      /\ UNCHANGED <<handler, holder, events, turn, dl>>
  BY DEF Configure, Disable, May, Settled, Quiet, Pending
<1>3. Pending(ch) = {} /\ dl[ch].mdh # "ESTCOM" /\ ~Line(chip)
  BY <1>2 DEF Quiet, Pending
<1>4. /\ Reset(chip, ch) \in ChipRecord /\ ~Reset(chip, ch).est[ch]
      /\ Reset(chip, ch).enabled = chip.enabled /\ Reset(chip, ch).pending = chip.pending
      /\ \A x \in Channels \ {ch} : Reset(chip, ch).est[x] = chip.est[x]
  BY <1>1 DEF ChipRecord, Reset
<1>5. /\ Chip(chip') /\ chip'.pending = chip.pending /\ ~chip'.est[ch]
      /\ \A x \in Channels \ {ch} : chip'.est[x] = chip.est[x]
      /\ \/ /\ chip'.enabled = chip.enabled \ {Rdy(ch), Err(ch)} /\ ~drv'.io[ch]
            /\ main'.mode = "INACTIVE"
         \/ /\ chip'.enabled = chip.enabled \cup {Rdy(ch), Err(ch)} /\ drv'.io[ch]
            /\ main'.mode = "STARTUP"
      /\ ~drv'.wurq[ch]
      /\ \A x \in Channels \ {ch} : drv'.io[x] = drv.io[x] /\ drv'.wurq[x] = drv.wurq[x]
      /\ main'.on = ch
  <2>1. CASE Configure(ch)
    <3>1. SetSDCI(ch) /\ Call(ch, "STARTUP")
      BY <2>1 DEF Configure
    <3>2. chip' = [Reset(chip, ch) EXCEPT !.err[ch] = FALSE, !.enabled = @ \cup {Rdy(ch), Err(ch)}]
          /\ Chip(chip')
      BY <3>1 DEF SetSDCI, Chip
    <3>3. main'.mode = "STARTUP" /\ main'.on = ch
      BY <1>1, <3>1 DEF Call, TypeOK
    <3>4. /\ ~drv'.wurq[ch] /\ drv'.io[ch]
          /\ \A x \in Channels \ {ch} : drv'.io[x] = drv.io[x] /\ drv'.wurq[x] = drv.wurq[x]
      BY <1>1, <3>1 DEF SetSDCI, TypeOK
    <3> QED BY <1>4, <3>2, <3>3, <3>4 DEF ChipRecord
  <2>2. CASE Disable(ch)
    <3>1. SetDI(ch) /\ Call(ch, "INACTIVE")
      BY <2>2 DEF Disable
    <3>2. chip' = [Reset(chip, ch) EXCEPT !.enabled = @ \ {Rdy(ch), Err(ch)}] /\ Chip(chip')
      BY <3>1 DEF SetDI, Chip
    <3>3. main'.mode = "INACTIVE" /\ main'.on = ch
      BY <1>1, <3>1 DEF Call, TypeOK
    <3>4. /\ ~drv'.wurq[ch] /\ ~drv'.io[ch]
          /\ \A x \in Channels \ {ch} : drv'.io[x] = drv.io[x] /\ drv'.wurq[x] = drv.wurq[x]
      BY <1>1, <3>1 DEF SetDI, TypeOK
    <3> QED BY <1>4, <3>2, <3>3, <3>4 DEF ChipRecord
  <2> QED BY <2>1, <2>2
<1>6. \A x \in Channels \ {ch} : {Rdy(x), Err(x)} \cap {Rdy(ch), Err(ch)} = {}
  BY DEF Rdy, Err
<1>7. \A x \in Channels : Pending(x)' = Pending(x) /\ (Settled(x) => Settled(x)')
  BY <1>2 DEF Pending, Settled
<1>8. handler = NoHandler /\ \A x \in Channels : handler.by # x
  BY <1>2, TransceiverAssumption DEF Quiet, NoHandler
<1>9. OnlySdci(ch)'
  <2>1. "WURQ" \notin Pending(ch)' /\ Settled(ch)'
    BY <1>2, <1>3, <1>7
  <2>2. handler'.by # ch
    BY <1>2, <1>8
  <2>3. CASE drv'.io[ch]
    BY <1>5, <2>1, <2>3 DEF OnlySdci
  <2>4. CASE ~drv'.io[ch]
    <3>1. chip'.enabled = chip.enabled \ {Rdy(ch), Err(ch)} /\ main'.mode = "INACTIVE"
      BY <1>5, <2>4
    <3>2. Stopping(ch)'
      BY <1>5, <2>1, <3>1 DEF Stopping
    <3> QED BY <1>5, <2>1, <2>2, <3>1, <3>2 DEF OnlySdci
  <2> QED BY <2>3, <2>4
<1>10. ASSUME NEW x \in Channels \ {ch} PROVE OnlySdci(x)'
  <2>1. ~Stopping(x) /\ main'.on # x
    BY <1>2, <1>5, TransceiverAssumption DEF Stopping
  <2>2. /\ Rdy(x) \in chip'.enabled => Rdy(x) \in chip.enabled
        /\ Err(x) \in chip'.enabled => Err(x) \in chip.enabled
    BY <1>5, <1>6
  <2>3. "WURQ" \in events'[x] \cap turn'[x] => "WURQ" \in events[x] \cap turn[x]
    BY <1>2
  <2>4. dl'[x].mdh = dl[x].mdh /\ dl'[x].mode = dl[x].mode /\ handler'.by # x
    BY <1>2, <1>8
  <2> QED BY <1>5, <1>7, <2>1, <2>2, <2>3, <2>4, PortKept
<1>11. SomeSdci' /\ LineServed'
  <2>1. Line(chip') => drv'.io[ch] /\ isr'
    BY <1>3, <1>5 DEF Chip, Line
  <2> QED BY <2>1 DEF SomeSdci, LineServed
<1> QED BY <1>9, <1>10, <1>11

(* The interrupt tells every port, and so a port that is SDCI if there is  *)
(* one.                                                                    *)
LEMMA IsrLine ==
    ASSUME LineInv, Isr
    PROVE  (\A x \in Channels : OnlySdci(x))' /\ SomeSdci' /\ LineServed'
<1>1. /\ UNCHANGED <<chip, drv, handler, turn, dl, main>>
      /\ \A x \in Channels : events'[x] = events[x] \cup {"PL"}
  BY DEF Isr
<1>2. \A x \in Channels : Pending(x)' = Pending(x) \cup {"PL"}
  BY <1>1 DEF Pending
<1>3. ASSUME NEW x \in Channels PROVE OnlySdci(x)'
  <2>1. Stopping(x) => Stopping(x)'
    BY <1>1, <1>2 DEF Stopping, Settled
  <2>2. handler.by = x => drv.io[x]
    BY DEF LineInv, OnlySdci
  <2> QED BY <1>1, <1>2, <2>1, <2>2, PortKept
<1>4. SomeSdci' /\ LineServed'
  BY <1>1, <1>2 DEF LineInv, SomeSdci, LineServed, Pending
<1> QED BY <1>3, <1>4

(* The main thread and the timers otherwise.                               *)
LEMMA CallLine ==
    ASSUME LineInv,
           DL_SetMode_req \/ \E ch \in Channels :
                TimerOver(ch) \/ Deactivate(ch) \/ DL_ReadWrite_req(ch)
    PROVE  (\A x \in Channels : OnlySdci(x))' /\ SomeSdci' /\ LineServed'
<1>1. TypeOK
  BY DEF LineInv
<1>2. UNCHANGED <<chip, isr, drv, handler, turn>>
  BY DEF DL_SetMode_req, TimerOver, Deactivate, DL_ReadWrite_req
<1>3. /\ \A x \in Channels : events[x] \subseteq events'[x]
      /\ \A x \in Channels : dl'[x].mdh = dl[x].mdh
      /\ \A x \in Channels : "WURQ" \in events'[x] => "WURQ" \in events[x]
  <2>1. ASSUME NEW ch \in Channels, NEW event \in {"MDH", "MH", "TIMEOUT"},
               events' = [events EXCEPT ![ch] = @ \cup {event}] \/ events' = events
        PROVE  \A x \in Channels : /\ events[x] \subseteq events'[x]
                                   /\ "WURQ" \in events'[x] => "WURQ" \in events[x]
    BY <1>1, <2>1 DEF TypeOK
  <2>2. \E ch \in Channels, event \in {"MDH", "MH", "TIMEOUT"} :
           events' = [events EXCEPT ![ch] = @ \cup {event}] \/ events' = events
    BY DEF DL_SetMode_req, TimerOver, Deactivate, DL_ReadWrite_req
  <2>3. \A x \in Channels : dl'[x].mdh = dl[x].mdh
    <3>1. CASE DL_SetMode_req
      <4>1. PICK ch \in Channels :
              dl' = [dl EXCEPT ![ch] = [@ EXCEPT !.mode = main.mode,
                                                 !.asked = (main.mode = "STARTUP")]]
        BY <3>1 DEF DL_SetMode_req
      <4> QED BY <1>1, <4>1 DEF TypeOK, DlRecord
    <3>2. ASSUME NEW ch \in Channels, TimerOver(ch) \/ Deactivate(ch) \/ DL_ReadWrite_req(ch)
          PROVE  \A x \in Channels : dl'[x].mdh = dl[x].mdh
      <4>1. CASE TimerOver(ch)
        BY <1>1, <4>1 DEF TimerOver, TypeOK, DlRecord
      <4>2. CASE DL_ReadWrite_req(ch)
        BY <1>1, <4>2 DEF DL_ReadWrite_req, TypeOK, DlRecord
      <4>3. CASE Deactivate(ch)
        BY <4>3 DEF Deactivate
      <4> QED BY <3>2, <4>1, <4>2, <4>3
    <3> QED BY <3>1, <3>2
  <2> QED BY <2>1, <2>2, <2>3
<1>4. /\ \A x \in Channels : "PL" \in Pending(x) => "PL" \in Pending(x)'
      /\ \A x \in Channels : "WURQ" \in Pending(x)' => "WURQ" \in Pending(x)
      /\ \A x \in Channels : "WURQ" \in events'[x] \cap turn'[x] => "WURQ" \in events[x] \cap turn[x]
  BY <1>2, <1>3 DEF Pending
<1>5. SomeSdci' /\ LineServed'
  BY <1>2, <1>4, LineKept
<1>6. CASE DL_SetMode_req
  <2>1. PICK ch \in Channels :
          /\ main.on = ch
          /\ main' = [main EXCEPT !.on = None, !.mode = "INACTIVE"]
          /\ dl' = [dl EXCEPT ![ch] = [@ EXCEPT !.mode = main.mode,
                                                !.asked = (main.mode = "STARTUP")]]
    BY <1>6 DEF DL_SetMode_req
  <2>2. main'.on = None /\ dl'[ch].mode = main.mode
        /\ \A x \in Channels \ {ch} : dl'[x] = dl[x]
    BY <1>1, <2>1 DEF TypeOK, DlRecord
  <2>3. ASSUME NEW x \in Channels PROVE OnlySdci(x)'
    <3>1. main'.on # x /\ OnlySdci(x)
      BY <2>2, TransceiverAssumption DEF LineInv
    <3>2. ~drv.io[x] => dl'[x].mode = "INACTIVE"
      <4>1. CASE x = ch
        <5>1. main.mode \in {"STARTUP", "INACTIVE"}
          BY <1>1 DEF TypeOK
        <5> QED BY <2>1, <2>2, <3>1, <4>1, <5>1 DEF OnlySdci
      <4>2. CASE x # ch
        BY <2>1, <2>2, <3>1, <4>2 DEF OnlySdci, Stopping
      <4> QED BY <4>1, <4>2
    <3> QED BY <1>2, <1>3, <1>4, <3>1, <3>2 DEF OnlySdci
  <2> QED BY <1>5, <2>3
<1>7. ASSUME NEW ch \in Channels, TimerOver(ch)
      PROVE  \A x \in Channels : OnlySdci(x)'
  <2>1. /\ \A x \in Channels : dl'[x].mode = dl[x].mode /\ dl'[x].mh = dl[x].mh
                               /\ dl'[x].rwcmd = dl[x].rwcmd
        /\ \A x \in Channels : events'[x] \subseteq events[x] \cup {"TIMEOUT"}
        /\ main' = main
    BY <1>1, <1>7 DEF TimerOver, TypeOK, DlRecord
  <2>2. ASSUME NEW x \in Channels PROVE OnlySdci(x)'
    <3>1. Stopping(x) => Stopping(x)'
      BY <1>2, <2>1 DEF Stopping, Settled, Pending
    <3>2. handler.by = x => drv.io[x]
      BY DEF LineInv, OnlySdci
    <3> QED BY <1>2, <1>3, <1>4, <2>1, <3>1, <3>2, PortKept
  <2> QED BY <2>2
<1>8. ASSUME NEW ch \in Channels, Deactivate(ch) \/ DL_ReadWrite_req(ch)
      PROVE  \A x \in Channels : OnlySdci(x)'
  <2>1. main.on = None /\ (main'.on = None \/ main'.mode = "INACTIVE")
        /\ \A x \in Channels : dl'[x].mode = dl[x].mode
    <3>1. CASE Deactivate(ch)
      BY <1>1, <3>1 DEF Deactivate, May, Call, TypeOK
    <3>2. CASE DL_ReadWrite_req(ch)
      BY <1>1, <3>2 DEF DL_ReadWrite_req, TypeOK, DlRecord
    <3> QED BY <1>8, <3>1, <3>2
  <2>2. ASSUME NEW x \in Channels PROVE OnlySdci(x)'
    <3>1. ~Stopping(x) /\ OnlySdci(x)
      BY <2>1, TransceiverAssumption DEF Stopping, LineInv
    <3>2. ~(main'.on = x /\ main'.mode = "STARTUP")
      BY <2>1, TransceiverAssumption
    <3> QED BY <1>2, <1>3, <1>4, <2>1, <3>1, <3>2 DEF OnlySdci
  <2> QED BY <2>2
<1> QED BY <1>5, <1>6, <1>7, <1>8

(* No falling edge of the interrupt line is missed, for any number of      *)
(* ports at the chip (iolink_14819_isr, iolink_pl_max14819_pl_handler), as *)
(* long as a port is configured only while it and the chip are quiet.      *)
THEOREM LinesServed == ASSUME Patient PROVE Spec => []LineServed
<1>1. Init => LineInv
  <2> SUFFICES ASSUME Init PROVE LineInv
    OBVIOUS
  <2>1. /\ chip.enabled = {} /\ ~Line(chip)
        /\ \A ch \in Channels : ~chip.est[ch] /\ ~drv.wurq[ch] /\ Pending(ch) = {}
        /\ \A ch \in Channels : dl[ch].mode = "INACTIVE" /\ main.on # ch /\ handler.by # ch
    BY TransceiverAssumption DEF Init, Off, Line, Pending, DlInit, NoHandler
  <2>2. \A ch \in Channels : OnlySdci(ch)
    BY <2>1 DEF OnlySdci
  <2> QED BY <2>1, <2>2, InitType DEF LineInv, SomeSdci, LineServed
<1>2. LineInv /\ TypeOK' /\ [Next]_vars => LineInv'
  <2> SUFFICES ASSUME LineInv, TypeOK', [Next]_vars
               PROVE  (\A x \in Channels : OnlySdci(x))' /\ SomeSdci' /\ LineServed'
    BY DEF LineInv
  <2>1. CASE Next
    BY <2>1, DlStepLine, ChipLine, SetModeLine, IsrLine, CallLine DEF Next
  <2>2. CASE UNCHANGED vars
    <3>1. \A x \in Channels : OnlySdci(x)'
      BY <2>2 DEF vars, LineInv, OnlySdci, Pending, Stopping, Settled
    <3>2. SomeSdci' /\ LineServed'
      BY <2>2 DEF vars, LineInv, SomeSdci, LineServed
    <3> QED BY <3>1, <3>2
  <2> QED BY <2>1, <2>2
<1>3. LineInv => LineServed
  BY DEF LineInv
<1> QED BY <1>1, <1>2, <1>3, TypeCorrect, PTL DEF Spec
=============================================================================

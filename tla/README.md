# Verification of the i-link IO-Link master stack

TLA+ specifications of the stack in this repository, the TLC configurations that check them
on small instances, and theorems about them checked by TLAPS. Paths are relative to the
repository; `iolink_x.c` is `src/iolink_x.c`.

## The system

An IO-Link master drives a number of ports, each with one device. Per port:

| Part | State it keeps | Operations |
|---|---|---|
| SMI (`iolink_main.c`) | none per request | `SMI_DeviceRead/Write_req`, `SMI_PortConfiguration_req`, ...: check the arguments, post a job |
| Main thread (`iolink_main.c`) | mailbox `mbox`, pools `mbox_avail` (40), `mbox_api_avail` (10) | takes one job at a time, runs its callback, returns the job to its pool |
| ODE (`iolink_ode.c`) | `state`, the one request `smi_req` being served | accept, refuse, confirm, `OD_Start`, `OD_Stop` |
| AL on-request (`iolink_al.c`) | `od_state`, the one service `service` with its buffer `data_read` | `AL_Read/Write_req`, DL confirmations, `AL_Abort` |
| AL events (`iolink_al.c`) | `event_state`, up to six collected events | `DL_Event_ind`, `AL_Event_rsp` |
| DS (`iolink_ds.c`) | `state`, the stored data set `master_ds`, the list of indices | startup, upload, download, delete, init |
| PDE (`iolink_pde.c`), AL process data | `pdin_data` under `mtx_pdin` | `SMI_PDIn/Out/InOut_req`, `DL_PDInputTransport_ind` |
| CM (`iolink_cm.c`) | `state`, the port configuration | configuration change, port mode indications, DS ready/fault |
| SM (`iolink_sm.c`) | `state`, communication and device parameters | start-up of the device, compatibility checks, operate |
| DL (`iolink_dl.c`) | mode, message, PD, OD, ISDU, command and event handler | one thread per port: wake-up, start-up, the cycle, retries; services called by the main thread |
| PL (`iolink_pl.c`, `iolink_max14819_pl.c`) | registers of the transceiver | send a message, deliver a reply, a timeout or an error |

**How they interact.**  Application threads call SMI functions, which post jobs. Every job
runs on the single main thread, in the order of the mailbox; ODE, AL, DS, CM and SM only run
there. Each port's DL runs in a thread of its own (`dl_main`), which posts confirmations and
indications. The main thread calls DL services (`DL_ReadParam_req`, `DL_ISDUTransport_req`,
`DL_SetMode_req`) directly: they write the DL's variables without a lock while the DL thread
may be anywhere in its handlers, and `DL_ISDUTransport_cnf` writes the AL's buffer from the
DL thread. Every state machine is a table of (state, event) rows; an event without a row is
logged and dropped.

**What is hard.**  The unlocked calls between the two threads; confirmations that carry no
identity and arrive after a reconfiguration, an abort or a loss of communication; one AL
service shared by two clients; retries; events dropped by tables; bounded pools whose
exhaustion asserts; restarts of a port that do not reset every handler.

**What makes it correct.**
- SMI/ODE: each request is answered once, with the data of that request; the ODE is blocked
  only while somebody works for it.
- AL: a client gets its own confirmation; a service handed to the DL is confirmed.
- DL: a confirmation belongs to the service, an ISDU is answered by its response, a receive
  error costs at most a retry, a loss of communication is reported.
- AL/DL events: a set of events is reported whole and once.
- DS: what is downloaded into a device is a data set that was stored whole.
- CM/SM: a configured port with a device becomes active, a fault is reported, an indication
  of an earlier start-up has no effect.
- Main: the pools do not run dry, no two threads wait for each other.

## Modules

| Module | Models |
|---|---|
| `OnRequestJobs` | jobs, the mailbox and the AL's service record: what the two threads share |
| `DlOnRequest` | the DL of a port for on-request data: mode handler, message handler in OPERATE, OD handler, ISDU handler |
| `OnRequest` | SMI requests, ODE, AL on-request FSM, and port control as far as it starts, stops and restarts the port; composes `DlOnRequest` |
| `RequestReply` | the abstract contract: a request is answered, once |
| `MCOnRequest` | `OnRequest` for TLC |
| `PortJobs` | jobs, the mailbox, configurations, devices and their parameters: what CM, DS, SM and AL of a port share |
| `DataStorage` | the DS of a port: its states, the store, every job and confirmation |
| `ConfigurationManager` | the CM of a port: its states and every handler |
| `SystemManagement` | the SM of a port: every state and row, from the wake-up over the compatibility check to OPERATE |
| `DlModes` | the DL of a port as the SM and the AL see it: mode handler, command handler, and who owns the next message |
| `DsPort` | one port from its configuration to OPERATE: composes CM, SM, DS and `DlModes` with the AL's service, the device, the plug and the application |
| `ParameterBackup` | the abstract contract: a device's parameters are stored and restored as one set |
| `MCDsPort` | `DsPort` for TLC |
| `DeviceEvents` | event, OD and command handlers of the DL, its message and mode handlers as far as they move events, the AL's event machine, the device's event memory |
| `EventTransfer` | the abstract contract: sets of events are handed over whole, in order, before they are confirmed, and in the end |
| `MCDeviceEvents` | `DeviceEvents` for TLC |
| `ProcessData` | PDE, PD handler, command handler and AL inputs on three threads; of SM and CM what starts, stops and qualifies process data |
| `MCProcessData` | `ProcessData` for TLC |
| `Transceiver` | a MAX14819 with two channels, its driver and interrupt, the DL threads of both ports up to STARTUP |
| `MCTransceiver` | `Transceiver` for TLC |
| `JobPool` | the master's two pools of jobs, its mailbox, all its threads, `mtx_pdin`, the shutdown |
| `MCJobPool` | `JobPool` for TLC |
| `OnRequestProofs` | proofs: type correctness of `OnRequest`; the pending invariants and the refinement of `RequestReply`; no stray confirmation, answers are their own, no service is lost |
| `DeviceEventsProofs` | proofs: type correctness of `DeviceEvents`; sets are handed over whole, in order and before they are confirmed; they are reported as told |
| `JobPoolProofs`, `TransceiverProofs`, `ProcessDataProofs` | proofs about the three modules: types, and the safety invariants named below |
| `DsPortProofs` | proofs: type correctness of `DsPort` with all the parts it composes; no block is confirmed to an SM that did not ask for it; a port in OPERATE has a checked device |
| `DsPortStoreProofs` | proof: stored parameters are written only to the device they belong to |
| `DsPortAnswerProofs` | proof: the SM is never left waiting for an answer that is not on its way |

The modules overlap on purpose: the DL handlers are one program in the code and are modelled
once per question, each time with the other handlers reduced to what that question needs. A
single module with all of them has no instance TLC finishes.

### OnRequest and DlOnRequest

A request is an identifier; the device's answer to `r` is the tag `r`, so the model can tell
whose data a request got. The kind of a request is decided by its index: 0 and 1 are direct
parameters, others are ISDUs, writing index 0 is refused by the AL, batch services are
refused by the ODE. The job fields `req`, `client` and `kind` of a confirmation do not exist
in the code; guards use `client` only to select the callback the code stores in the service
record, and properties use the rest.

One callback of the main thread is one action, with two exceptions: `DL_ReadWriteParam_req`
(`AlParam`, then `DlParamReq`) and `DL_ISDUTransport_req` (`AlIsdu`, then `DlIsduReq`) are
split where the DL thread can interfere. One DL event is one action, except that a device
reply is handled in two (`DlReply`, `DlNextMessage`: `rwcmd` is read twice) and the loss of
communication in two (`DlRxError16`, `DlComLost`). `od_handler.trigger` is not a variable:
the actions `OdMaster` and `OdDevice` are its two values.

**`Parallel`.**  The DL posts a confirmation first and clears `rwcmd` (and the state of the
ISDU handler) afterwards, without a lock (`iolink_dl.c:1684`, `1740`, `1837`, `1841`); the
mode handler confirms an interrupted ISDU before it goes on (`iolink_dl.c:1782`). The main
thread may handle the confirmation and hand over the next service in between
(`iolink_dl.c:2983`, `3166`), and the DL then overwrites its command with NONE. Whether it
gets to run there is a matter of the scheduling, so it is a constant:
- TRUE, several cores: posting and clearing are two steps (`ClearFirst`, then `DlClear`;
  `ModeConfirm`, then `ModeLeave`), with any steps of the main thread in between.
- FALSE, one core and the DL thread at the higher priority: from the post to the clearing the
  DL thread waits for nothing, so the main thread does not run. The priorities are those of
  the sample application (`samples/ifm_sample_app/iol_master_sample_app.c:27`) and of the
  tests (`test/test_util.h:31`): main thread 6, DL threads 7. The main thread can still be
  interrupted anywhere: the splits named above are always there.

`clients` has it TRUE, `live` FALSE. The theorems about the pending invariants, answers and
confirmations hold for both; `ServiceNotLost` and the liveness of `RequestReply` do not, see
the findings.

Abstracted: octets and checksums (a bad checksum is a receive error, a bad response an
outcome of `ReceptionComplete`); data lengths, but for what is needed to see an octet that is
stored behind an answer (`alLen`: nothing, the data, or more than the data); event reading (an exchange in EVENT_3 carries
the tag `event`); the start-up is that of a V1.0 device, its parameter reads and writes
folded into one exchange whose failure loses the communication; PREOPERATE, COMMAND_2 and
interleaved frames are not modelled.

### The port: PortJobs, DataStorage, ConfigurationManager, SystemManagement, DlModes, DsPort

Everything above the DL runs on the main thread, so one job's callback is one action, and
the mailbox between them is the only place where things wait. `iolink_ds_event` and the SM's
event loop run their tables until no event is left; the states they pass through within one
job are not states of the model, and a callback whose event has no row in the present state
changes only what it changed before it raised the event (`Ignore`, `SmIgnore`, `DsInitCb`,
`StoreRead`).

| Model | Code |
|---|---|
| `dsState`, `ds`, `master` | `state`; the flags, `pending_id` and cursors; `master_ds` of `iolink_ds_port_t` |
| `DsInitCb` ... `DsUploadCb` | `ds_init_cb`, `ds_delete_cb`, `ds_startup_cb`, `ds_upload_cb` with the rows they reach |
| `SizeRead` ... `DownloadRead` | the cases of `ds_read_cnf_cb` and the handlers that follow |
| `UploadStarted` ... `BrokenOff` | the cases of `ds_write_cnf_cb` |
| `ParServToDS` | `ds_SMI_ParServToDS_req`, on the thread of the caller |
| `cm`, `cmCfg`, `portId` | `state`, `cfg_list`, the identity in `port_info` |
| `CmCfgChange`, `CmComready`, ... | `cm_cfg_change` with `cm_check_mode`, `cm_start_ds`, ...; one per callback |
| `sm`, `smCfg`, `smReal`, `smAux` | `state`, `config_paramlist`, `real_paramlist`; `comp_retry`, `error_event` and `dl_addr` |
| `SmSetPortConfig`, `SmModeInd`, `SmReadCnf`, ... | `sm_setportcfg_req_cb`, `sm_DL_Mode_ind_cb`, `sm_DL_Read_cnf_cb`, ...; one disjunct per row |
| `dl.mdh`, `dl.mode`, `dl.event`, `dl.lost` | the mode handler's state, `dl_mode`, `IOLINK_DL_EVENT_MDH`, `mhinfo` |
| `dl.mh`, `dl.odh`, `dl.rw`, `dl.isdu` | message handler, OD handler, `rwcmd`, whether the ISDU handler has a service |
| `dl.cmdh`, `dl.chActive`, `dl.code`, `dl.cmd` | command handler, `chcmd`, `control_code`, `master_command` |
| `svc` | the AL service |
| `dev`, `linked` | the device (external): identity, revision, parameters, upload flag, block mode; whether it answers |

`master.pos` and `ds.il` are the cursors that the code keeps through aborted transfers. An
AL write carries a pointer (`pos`, or 0 for `ds->command`), which `AlService` reads when the
job is handled and not when it is posted. A negative confirmation has no data; what the DS
reads through the null pointer is either of the two outcomes the comparison can have
(`ReadChecksum`). `saved` and `dev.offer` are history: the set that was last stored whole,
and the one the device last ended an upload with.

**The two threads.**  A request of the SM or the AL to the DL is an operator on the record
`dl` that the main thread's action applies (`DL_SetMode_req`, `DL_ReadWrite_req`,
`DL_Write_Devicemode_req`, ...). What the DL thread does is an action: `ModeHandler` for
`IOLINK_DL_EVENT_MDH`, and one for every kind of message that comes in or fails
to. `dl_main` looks at the transceiver before it looks at the mode event in every turn, so a
message can be handled in the old mode after the request: `dl.late` allows this once,
because the next message takes much longer than a turn. `Parallel` is that of `OnRequest`:
when it is TRUE, what is left of a handler that has posted a confirmation is in `dl.left`, and
`DlClear` and `Leave` are the steps that do it. A step of the main thread in between sees
the old command and, in the ISDU handler, no service, or, while the mode handler stops it,
either (`IsduAnswers`). `DL_WriteParam_req` is refused in the cycle of OPERATE unless the
message handler is between two messages, which `DlModes` does not follow: either answer is
possible there (`ParamAnswers`), and the command is left set in both cases.

**Blocks.**  The SM reads and writes direct parameters octet by octet. Octets that follow
one another without a decision in between are one block (`Blocks`): the communication
parameters, the identity, `MASTER_IDENT`, the commands, the revision and identity written
for a restart. A block either goes through or its failure ends it, as the failure of any of
its octets does. Two things are lost by that: a configuration or a wake-up between two
octets of one block, and a device that fails half-way through the identity it is given.

**`Orderly`.**  The device is exchanged only when the communication is down and the main
thread has nothing to do: pulling one plug and inserting another takes a person, handling a
job does not. `Orderly` says more: the application and the plug wait until no transfer and
no start-up is under way (`AtRest`: nothing in the mailbox, no service at the AL, CM, DS and
SM in a state they stay in, and the message handler without a request), and a parameter is not changed at the device while a
configuration is on its way to the SM (`Reconfiguring`). It separates the runs that say what
the port achieves when it is left alone from those where anything comes at any moment.

**Abstracted or left out.**  A parameter is one entry of the store, so lengths, the split of
the object into octets and the memory limit are gone (a device is in `BigIds` or not); the
checksum of a set is the set; an index list names each parameter once. The AL is the path of
`OnRequest` without aborts, and the ODE appears as `Contended`: it may have the AL when the
port is in OPERATE. Serial numbers are absent or present (`NumberedIds`), and the CM
configures none; the branch of a serial number longer than 16 octets is not modelled. A
device changes its revision when the SM restarts it with another one, and never its
identity. A device that is told to restart the conversation (T6, T12) goes on answering
reads of the direct parameters. When `SmAsserts` holds the program stops: the job stays at
the head of the mailbox. Not modelled are `DL_Mode_ind_baud`, events and process data, the
transceiver's retries (a lost message is one that all retries missed), and the window in
`DL_Write_Devicemode_req` between setting `control_code` and running the command handler: when
the OD handler runs in it, in the cycle of OPERATE, the command is confirmed although it was
not sent (`ProcessData` has that window).

### DeviceEvents

A set of events is known by its number; an octet of the event memory by that number and its
address. So a torn set, a set read twice and a set made of two are told apart, and the text
of an event is not needed. `Kinds` are the sets a device may freeze: which bits of the
StatusCode are set, whether there are details, which entry is `DS_UPLOAD_REQ`.

| Model | Code |
|---|---|
| `h.ev`, `h.status`, `h.addr`, `h.cnt`, `h.current`, `h.events` | the event handler's state, StatusCode, `event_address`, the two cursors, `events[]` |
| `EvHandler` with `EvIdle`, `EvRead`, `ReadStatusCode`, `ReadMemory` | `iolink_dl_ev_h_sm` and its states |
| `OdHandler`, `CmdHandler` | `iolink_dl_od_h_sm`, `iolink_dl_cmd_h_sm` |
| `Reply16`, `Reply9`, `Timeout`, `Preoperate6`, `MessageLost` | one event of the DL thread each: a reply in OPERATE or PREOPERATE, TInitcyc, `IOLINK_DL_EVENT_MH`, a reply that is missed |
| `ModeHandler`, `WakeUp` | `iolink_dl_mode_h_sm`, `iolink_dl_wurq_recv` |
| `al.state`, `AlEventInd`, `AlEventRsp` | `event_state`, `al_dl_event_ind_cb`, `al_event_rsp_cb` |
| `Raise`, `DeviceRestart`, `frozen`, `settled` | the device (external) |

The handlers are functions of the record `h`, because in the code each calls the next; a
step of the DL thread applies the whole chain (device reply, then the next message) and then
posts what was signalled, entry by entry. `told`, `reports` and `lost` are history. The
application answers a report at once (`AL_Event_rsp` is posted with it). Left out: the ISDU
handler is idle, process data is not interleaved, the text of an event.

Three constants keep apart what the code promises from what it does not; each excludes one
thing a reader should know, and TLC reaches it when the constant is FALSE:
- `Calm`: the device raises nothing in PREOPERATE; it restarts when the master holds no
  confirmation for it; the port is changed when no set is pending, no control code is under
  way, the event flag is clear and OD and event handler are at rest. Without it: an event
  flag in the reply to the OPERATE command leaves the port silent in OPERATE; a
  reconfiguration in `READEVENT_2` tears a set; a confirmation kept over a restart confirms
  a set nobody read; an event flag kept over a start-up loses a set (see the findings).
- `Prompt`: a set is raised when the main thread is done with the last one. Without it the
  AL counts the entries of the second set and drops them.
- `Paced`: a control code is given when none is under way, and the call meets no other user
  of the handlers. `DL_Control_req` sets the code and then calls the command handler, on the
  thread of the application and without a lock (`iolink_dl.c:3190`): two steps here as well
  (`DL_Control_req`, `ControlCmd`, with `app` in between). Without `Paced`, two codes within a
  cycle leave the OD handler in COMMAND_2; and when the DL thread runs the OD handler
  between the two steps (`iolink_dl.c:2541`), that one calls the command handler first and
  goes to COMMAND_2; the second call then writes the command behind a message that is already
  out and takes the code back, and a single code is never sent (`ControlIsSent`).

`DL_Write_Devicemode_req` sets its code and calls the command handler on the main thread in
the same way; it is one step here, since in PREOPERATE the message handler waits for the
event which that call raises at its end, and `Calm` keeps the device from raising events
then, so no OD handler runs in between. `ProcessData` has it in steps.

### ProcessData

Outputs are known by the request that set them, inputs by the parity of their cycle. Each
buffer has two halves, written in two steps, so that whoever looks at it in between sees
half of each (`DataWhole`).

| Model | Code |
|---|---|
| `pde`, `PDOut` ... `ControlCmd` | `iolink_pde_port_t`, `pde_SMI_PDOut_req` with `AL_SetOutput_req` and `AL_Control_req`; a call is `app.pc` |
| `PDIn` | `pde_SMI_PDIn_req`, `pde_SMI_PDInOut_req`: the copy that either makes, under the mutexes |
| `mtx`, `mtxPdin`, `pdout`, `pdin` | `dl->mtx`, `al->mtx_pdin` and what they guard |
| `dl.pc`, `PD_req` ... `OdReply` | one turn of the message handler: outputs, on-request data, send, reply, inputs, on-request data again |
| `dl.cmdh`, `dl.code`, `dl.command`, `DevicemodeCode`, `DevicemodeCmd` | command handler, `control_code`, `master_command`; `DL_Write_Devicemode_req` in the three steps in which other threads can meet it |
| `ModeInd`, `SmOperateReq`, `DevmodeCnf`, `SetPortCfg` | rows of the SM |
| `CfgChange`, `PortMode`, `ControlInd` | the CM's `cm_check_mode` (with `PD_Stop`), its port mode indication (with `PD_Start`), `AL_Control_ind` |

The mutexes are taken and given back in separate steps, and nothing else is locked, as in
the code. `torn`, `enabler` and `broken` are history. `Orderly` says that a call of the command handler
meets no other use of it; without it a control code is lost or overwritten. `Calm` says that
PDOut and a reconfiguration wait for each other; without it the `output_enable` that PDOut
sets at its end undoes `PD_Stop`. The start-up up to PREOPERATE is one step (`Establish`;
`DsPort` and `Transceiver` have it), a port is configured when it has come to rest, and
the argument blocks' checks, ports in DI or DO and the lengths of process data are left out.

### Transceiver

| Model | Code |
|---|---|
| `chip` | the registers: pending and enabled interrupts, `CQCtrl.EstCom`, what a channel is doing (external) |
| `isr`, `Isr` | `iolink_14819_isr`, due at the falling edge of the line |
| `drv`, `handler`, `PlEvent`, `PlServe` | `is_iolink`, `wurq_request`; `iolink_pl_max14819_pl_handler`, split after its read of `REG_Interrupt` |
| `holder`, `RxDisagrees` | the mutex of the chip, which `get_data` keeps when the levels of the FIFO disagree |
| `events`, `turn`, `TakeTurn`, `Handle` | `dl->event`, `triggered_events` of a turn of `dl_main`, and the order it looks at them in |
| `RxReady`, `RxError`, `WurqRecv`, `ModeHandler`, `MhEvent`, `Timeout` | what `dl_main` does for each event |
| `Startup2`, `AwaitReply4`, `ErrorHandling5` | the message handler in STARTUP, with the retries the transceiver does not make there |
| `Configure`, `Disable`, `Deactivate`, `DL_SetMode_req`, `DL_ReadWrite_req` | the SM (external callers): `PL_SetMode_req` and `DL_SetMode_req` are two calls, with the DL thread in between |

A call of the driver holds the mutex of the chip from its first to its last register, so it
is one step. The SM runs on the main thread and calls the driver and the mode handler in
one callback, so it asks for a read (`DL_ReadWrite_req`) only when it is not between the two
calls of a configuration (`main.on = None`). `Patient` says that a port is configured only while its thread and the chip are
quiet; without it `set_mode` takes a wake-up back and the mode handler waits for ever in
ESTCOM (`iolink_max14819_pl.c:461`). Left out: DO, LEDs, baud rates, cycle times, register
layouts; RESPONSE_3 and AW_REPLY_4 are one state.

### JobPool

What a job asks for is left out; what it is (whose pool, where it is, who has it) is all
there. `hand` is the job a thread has fetched and not yet posted; `"callback"` is the main
thread inside a callback, which may fetch jobs of its own while `"main"` still has the one
it handles. `Fetch` is `iolink_fetch_avail_job`, which asserts on an empty pool
(`NoneAvail`, `halted`); `FetchPdEvent` is `iolink_post_job_pd_event`, which waits, under
`mtx_pdin`. `Return` is the switch on the type at the end of `iolink_main`'s loop. With
`CallbackReads` TRUE the application's `cb_pd` reads inputs on the main thread; TLC then
finds the main thread waiting for `mtx_pdin`, and its holder waiting for the main thread to
return a job.

## Runs

Twelve; `PROJECT.json` has a mutant of the code for every property.

| Run | Module | Checks | Shows |
|---|---|---|---|
| `clients` | `OnRequest` | `TypeOK`, `BlockedHasPending`, `DsHasPending`, `AnswersOnce` | ODE and DS compete for the AL under aborts, a receive error and two configurations: each waiting client is owed its own confirmation, no request is answered twice |
| `live` | `OnRequest` | `AnswerIsOwn`, `ServiceNotLost`, `NoStrayConfirmation`, `ImplementsRequestReply` | two requests of any kind, an event, an error, a repeated message: ISDU data, confirmation and request belong together, and every request is answered |
| `ds_backup` | `DsPort` | `StoredIsOwn`, `ActiveMeansChecked`, `ReadyMeansRestored`, `ImplementsBackup` | what is stored is the whole set of one device, ready means the device has it, active means it was checked |
| `ds_faults` | `DsPort` | `CmAnswered`, `SmAnswered`, `NoAssertion`, `Settles` | foreign set, locked storage, V1.0, too slow, a refused service, every port mode: CM and SM get their answers, nothing asserts, the port comes to rest |
| `ds_disturbed` | `DsPort` | `TypeOK`, `WritesToChecked` | stored parameters are written only to the device they belong to, whatever happens when |
| `events` | `DeviceEvents` | `TypeOK`, `ReportedAsTold`, `ImplementsEventTransfer`, `ExchangesInOperate`, `ControlIsSent` | sets of events reach the application whole, in order and together, and are confirmed only after they were handed over; the exchange never stands still |
| `pd` | `ProcessData` | `TypeOK`, `DataWhole`, `EnabledOutputsFresh`, `FallbackSent`, `OutputsFollow`, `QualityFollows` | data is whole, enabled outputs are fresh, the device learns what the application asked for, a fallback is awaited, the qualifier follows the device |
| `transceiver` | `Transceiver` | `TypeOK`, `WakeUpHeard`, `LineServed`, `StartAnswered`, `StopEnds`, `RequestAnswered` | two ports at one chip: no interrupt is lost, a start is answered, a stop ends, a read is confirmed |
| `pool` | `JobPool` | `TypeOK`, `JobsConserved`, `PostsNeverFail`, `InputsRead`, `Exits` | no job is lost or in two places, a post finds room, a reader of inputs gets the mutex, a shutdown is answered |
| `events_upload` | `DeviceEvents` | `ReportedAsTold` violated | an upload request left in its slot swallows the next set |
| `pd_disable` | `ProcessData` | `NoFalseComLost` violated | disabling outputs is taken for a loss of communication |
| `ds_comlost` | `DsPort` | `CmAnswered` violated | communication lost at the start of an upload: the CM waits for ever |

`CHECK_DEADLOCK FALSE` everywhere: with every request made and every bound reached a model
stops, as a master without users and devices does; in `pool` a failed assertion halts the
program. What must not stop is said by the liveness properties.

### Bounds

**`OnRequest`.** `Segs` (segments of an ISDU; two tell the first from the last), `MaxRetry`
(2 in the code; the protocol has the cases none left and some left, so 0 or 1 do where the
number does not matter), `MaxErrors` (receive errors), `MaxEvents` (replies with the event
flag), `MaxCfg` (port configurations; two give a restart), `MaxAborts`. Each request is made
once. `Parallel` is not a bound, see above. `clients` has one request of the ODE and one of the DS, which is what it takes to
compete; `live` has two of the ODE, which is what it takes to mix them up. The kinds of
`clients` are one read and one write of direct parameters and an ISDU: with two threads in
parallel the others double its states and meet the same rows.

**`DsPort`.** Two parameters (the first and the last of a list), two versions of each value.
The devices d1 and d2 are of one vendor (so the SM tries to restart one as the other), d3
and d4 of another. `Limit` bounds each kind of disturbance: `config` (two give a
reconfiguration, three a return to the first), `loss` of communication, `refusal` by the
device, `change` of a parameter (two: one is uploaded, the second differs from it), exchange
of the `device` (two: away and back), `serve`. In `ds_faults` d2 is locked and has a serial
number, d3 and d4 speak V1.0, d3 switches the data storage off by its M-sequence type, d4 is
slower than the configured cycle, and the port may be deactivated. `BigIds` is empty in
every run: a storage that is too large leads where a refused reading of its size does, which
`ds_faults` and `ds_disturbed` have. `ds_disturbed` is the run without `Orderly` and with
`Parallel` TRUE: two devices, configured in turn, are what it takes to write the set of one
to the other, and a third device, a too large storage or a port that is deactivated doubles
its states.

**`DeviceEvents`.** Three slots instead of six (a first, a last and one in between), sets
with a gap between their entries, with a single entry that asks for an upload, and without
details; two sets, which is what it takes to mix or to drop one; two lost replies against
one retry (a repeated message and a loss of communication); a control code, a change of the
port, a restart of the device.

**`ProcessData`.** Two requests for outputs (old and new), three configurations (start,
stop, start), one lost message, one change of the inputs. The DL thread posts the status of
the inputs in every cycle; `MaxJobs` makes it wait while two jobs are in the mailbox. A
slow main thread would have the mailbox grow instead; it is served in order, so more of the
same status behind the others changes nothing that is checked.

**`Transceiver`.** Both channels of a chip, two configurations (one of each port, or two of
one), one request, one retry.

**`JobPool`.** Two DL threads, one thread of the application, two jobs of the stack and one
of the API, one job posted by a callback. The pool runs empty in it, the mailbox fills
before the shutdown, both ports wait for a job at once. The proofs have any sizes.

### What the passing runs leave out

- `live` has one configuration and no loss of communication, since a loss clears the pending
  command (`iolink_dl.c:751`) and the request is never answered. `AnswerIsOwn` and
  `NoStrayConfirmation` speak of ISDUs: see the findings for parameters.
- `live`, `ds_backup` and `ds_faults` have `Parallel` FALSE: with the main thread on a core of
  its own, services are lost (see the findings).
- `ds_backup` has no refusals; an upload that is broken off leaves a torn set. `ds_faults`
  refuses only what the DS has a row for, i.e. not the commands that start a transfer
  (`ds_comlost`) and not the break command, whose failure is not reported either.
  `ds_disturbed` serves no sets and configures only modes that name a device, but has
  misread and overlapping services and each disturbance at any moment. `SmAnswered` says nothing of the states after the SM has restarted a device
  (`smAux.retry`): communication lost there takes `RestartDevice` to `CheckComp` with
  nothing under way. `SmAnswered`, `NoAssertion`, `ActiveMeansChecked` and `StoredIsOwn` do
  not hold without `Orderly`.
- A port configured again in PREOPERATE hangs in the passing runs too: none of their
  properties speaks of the OPERATE command.
- `events` asks for an upload in the first slot that the next set overwrites
  (`events_upload` has the other case), and has `Calm`, `Prompt` and `Paced`; `pd` has
  `Orderly` and `Calm`; `transceiver` has `Patient`; `pool` has callbacks that do not read
  inputs. What happens otherwise is said with each module above.

### Fairness

Nothing is assumed of the application, the plug, a loss or an error: they never have to
happen. What is assumed is that threads run and that timers and the chip end what they
began.

- `live`: weak fairness of the main thread, of the DL thread's handlers and its timers.
- `ds_faults`: the main thread serves its mailbox; the DL thread runs its handlers, and a
  wake-up ends, since the transceiver times it; a device that communicates answers or
  refuses (the ISDU timer makes a silent one a refusal).
- `events`: weak fairness of `DlThread`, `MainThread` and of `Bringup`, the SM's way up,
  each step of which is the answer to a job.
- `pd`: weak fairness of `DlThread`, with the messages of PREOPERATE only as long as a
  device mode waits to be sent; of `MainThread`; and of `AppCall`: a call that was begun is
  finished.
- `transceiver`: weak fairness of the interrupt, of the second half of a port's
  configuration, of timers and chip; strong fairness of each DL thread, because the threads
  contend for the mutex of the chip and an operating system hands a mutex that is freed
  again and again to whoever waits. The three liveness properties hold unless a mutex is
  `Kept`.
- `pool`: weak fairness of the main thread and of whoever can go on; strong fairness of
  those that wait for a mutex or for a job (`SF_vars(LockInputs)`, `SF_vars(FetchPdEvent)`,
  `SF_vars(LockRead)`), for the same reason.

## Proofs

All hold for every value of the constants that the modules' assumptions allow.

**`OnRequest`** (`OnRequestProofs`)
- `TypeCorrect`: `TypeOK` is not inductive: the type of a job's payload depends on the job's
  type (`JobsWellFormed`), and the retry counter stays within `MaxRetry + 1` only because
  the thread is on its way to report the loss when it is at its limit (`RetryBounded`).
- `BlockedIsPending`, `DsIsPending`: the AL owes every waiting client a confirmation. The
  invariant counts the AL request, the service and the confirmation as one chain and each
  action of the AL passes it on (`WaitingHasPending`).
- `AnsweredOnce`: `OnRequest` refines the safety of `RequestReply`. The invariant
  (`OneAnswerInv`) says that a request is in at most one place: in a single job of the
  mailbox, or being served, or answered.

**`OnRequest`, answers** (the last part of `OnRequestProofs`, under `OneClient`)
- `ConfirmedOnce`: `NoStrayConfirmation`; `AnswersAreOwn`: `AnswerIsOwn`. A confirmation of
  the DL or the AL names no request, so the argument is that there is only one it can be
  for. `OneClient` says what `live` assumes: the application is the only client, it
  configures the port once and aborts nothing (see the findings for what happens
  otherwise). Receive errors, retries, events and losses of communication are unrestricted,
  and `Parallel` is either: a command that is lost is confirmed by nobody, and not wrongly. Of
  the length of an answer `AnswerIsOwn` says that an octet behind the data is that of a
  direct parameter read.
- The invariant (`AnswersInv`) has six parts. `Control`: mailbox, SM, mode handler, message
  handler and ISDU handler agree on how far the port is; what is configured once is started
  once. `NotYet`: until the port has been in OPERATE, nothing is requested, so that
  `od_stop` drops no request. `OneService`: the ODE's request, the service of the AL and the
  jobs between them are one. `OneConfirmation`: a transfer that the ISDU handler holds, or
  the one confirmation of it, belongs to the service the AL awaits. `DataInv`: the data are
  those of the service, from the device to the confirmation of the AL. `AnswerInv`: so are
  those of the answers given. TLC checked them within the bounds of `live` first.
- `ServicesNotLost` (under `NoLoss`): `ServiceNotLost`. `NoLoss` adds `~Parallel` (see the
  findings) and that there are no more receive errors than retries: the retry counter is never reset by a good cycle, so with one
  error more the connection is lost, and the command of a direct parameter with it. The
  invariant (`ServiceInv`) says that the connection stays (`NoLossInv`: in OPERATE no loss is
  reported, and the retries never outnumber the errors), that the start-up reads the device
  once and before any service (`ReadInv`, without which the read would overwrite the command
  of a service), and where the awaited confirmation is (`NotLost`): in the mailbox, in the
  ISDU handler, in the command, or in the call the main thread is inside of.

**`DsPort`** (`DsPortProofs`), for any devices, index list, configurations and disturbances,
`Orderly` and `Parallel` or not
- `TypeCorrect`: the places in the store and in the index list stay within them.
  `TypeInv` adds to `TypeOK` what the jobs carry (`PortJob`): a pointer into the store is
  one of its entries, without which the value the AL reads through it would be none, and a
  request of the AL names an index of the device. One lemma per callback of CM, DS and SM,
  one per handler of the DL, and one per step of the AL, the device and the plug.

**`DsPort`, in step** (the second part of `DsPortProofs`, under `Orderly` and `~Parallel`)
- `NoStrayAnswer`: `NoAssertion`; `ActiveIsChecked`: `ActiveMeansChecked`. SM, DL and CM each
  keep a state of their own and learn of the others' through one queue, so what a job finds
  when it is handled depends on what was queued before it. The invariant (`PortInv`)
  describes the mailbox by the kinds of jobs that are in it (`Among`), in it at most once
  (`Single`) or never behind another (`NoneAfter`); a step that posts, or that takes one and
  posts, changes these as `Gains` and `Trades` say, and only the lemmas about those look into
  the sequence.
- Its seven groups: `DlSound` (mode handler, message handler and the mode they were given),
  `Woken` (a wake-up belongs to an inactive SM, and nothing follows the `MODE_STARTUP` that
  ends it), `Asking` (one block at a time, and the SM in a state with a row for its answer),
  `Moded` (the DL has the mode the SM's state calls for), `Serving` (the SM's services at the
  AL), `Configuring` (a configuration meets no answer of the one before it), `Followed` (the
  SM has the configuration of the CM, and the device it passed is the one the CM reports).
  None is inductive alone: `NoAssertion` is `Asking`, which needs to know that no event
  changes the SM's state while a block is out (`Woken`, `DlSound`), which in turn needs that
  no configuration does (`Configuring`). TLC checked all seven within the bounds of
  `ds_backup` and `ds_faults` and within wider ones before they were proved.
- `~Parallel` spares the invariant the steps of `dl.left`. TLC finds no counterexample to
  `NoAssertion`, `ActiveMeansChecked`, `SmAnswered` and `StoredIsOwn` with `Parallel` TRUE in
  the bounds of `ds_backup` and `ds_faults`, and `ds_disturbed` checks `WritesToChecked` so.
- `Orderly` is needed: both properties fail when a configuration may come at any moment (see
  the findings). In PREOPERATE it also makes the application wait while the message handler
  has a request in progress (`Engaged`). No reachable state at rest has one (the two
  runs have the same states without it); the conjunct spares the invariant the proof of that.

**`DsPort`, the store** (`DsPortStoreProofs`, under `Orderly`, `~Parallel` and `OwnSets`)
- `WritesChecked`: `WritesToChecked`. A device is identified once, when the SM reads its
  block, and its parameters are written much later on the strength of copies of that
  identity: `real` in the SM, `port_info` in the CM, `pending` in the DS and the identity in
  the store. The invariant (`StoreInv`) says when each copy speaks of the device that is on
  the line. `JobsSound`: so does every job at the moment it is handled, not only when it
  was posted (a block is the one asked for, a `COMREADY`, `DS_STARTUP` or `DS_UPLOAD` means
  a device that has been identified, a `DS_INIT` carries the configuration of the CM).
  `Announced`: behind every `DS_DELETE` and `DS_INIT` comes the `SM_CFG` that ends the work
  with the old device. `PartsSound`: while the DS works, all copies are the device's
  (`Vetted`) and nobody is identifying a new one; while a configuration is under way the DS
  rests. `StoreSound`: a store in use is that of the device or empty. `ModeSound` and
  `RevSound` are there for one job: an upload request comes from a device in OPERATE, and
  whoever gets there by the short way is a V1.0 device, which has none.
- It stands on `PortInv`, which says when answers can be out. TLC checked the parts first,
  with three configured devices, AUTO, DI_DO, refused and deactivating configurations,
  refusals, garbled answers, served sets, and each disturbance.
- `Orderly` is needed for served sets and for configurations during a start-up (see the
  findings). `OwnSets`: no set is served under the identity 0, which stands for an empty
  store. No configuration is excluded: a port with `CHECK_NO` keeps a set under the identity
  of its configuration, whatever device answers, so the copies differ there; the invariant
  asks them to agree only while the DS restores sets, which it does not on such a port.

**`DsPort`, answers** (`DsPortAnswerProofs`, under `Orderly`, `~Parallel`,
`OwnSets` and not `Refuses`)
- `SmNeverStranded`: `SmAnswered`. The SM ignores a loss of communication in the states in
  which it waits for an answer, on the ground that the answer comes all the same
  (`sm_comlost_ignore`). Who gives it changes on the way: the message handler, the mode
  handler, the ISDU handler, the AL, the mailbox; and a loss, a refusal or a configuration may
  come between any two. The invariant (`ReplyInv`) has four parts. `Awaited` says where the
  answer is, `Reaching` more exactly for a mode: the mode handler is about to act on the last
  message of STARTUP, or the mode is in the mailbox with no loss or fault behind it. It
  needs `Undisturbed` (until the SM reports the device, no service of the data storage and no
  job of it is about), `Replied` (a transfer at the ISDU handler is that of the AL's service
  and is confirmed once) and `CommandSound`: no confirmation of an old command is left in the
  mailbox or in the command handler when the SM begins to check a device, since the SM would
  take it for the end of the check of the serial number, or for that of OPERATE. It stands on
  `PortInv` and `StoreInv`.
- `Refuses`: the device may refuse the read of its serial number, or answer that it has no
  service. A V1.0 device that does so leaves the SM in `checkSerNum` (see the findings), so
  `SmAnswered` is false for it. Every other service may be refused. `OwnSets` has nothing to
  do with the SM; `StoreInv` needs it.

**`JobPool`** (`JobPoolProofs`), for any number of ports, threads and jobs
- `TypeCorrect`, and `Conserved`: every job is in its own pool, once in the mailbox or in
  one hand. The pools' own jobs are told by the type they were posted with, so the invariant
  ties the type of every entry and of the job in the main thread's hand to its pool.
- `RoomToPost`: until the shutdown the mailbox has room for whoever has a job in hand. The
  jobs waiting are different jobs, none of them the one in hand, so they are fewer than the
  two pools together; the proof counts them (`FiniteSetTheorems`).

**`Transceiver`** (`TransceiverProofs`), for any number of channels at a chip
- `TypeCorrect`; the bound on `retry` needs that ERRORHANDLING_5 is left by it.
- `WakeUps`: `WakeUpHeard` is strengthened (`HeardInv`) by what is enabled while a wake-up
  is awaited (`EnabledWhileAwaited`): no call of the driver for one channel disables the
  interrupt the other waits for.
- `LinesServed` (under `Patient`): `LineServed`. Driver and DL keep the mode of a port
  separately and change it in different calls. The invariant (`LineInv`) ties the two
  together for every step in between: only a port that is in SDCI mode in
  the driver has its interrupts enabled, waits for a wake-up or is started (`OnlySdci`), and
  a chip with a pending interrupt has such a port (`SomeSdci`).

**`ProcessData`** (`ProcessDataProofs`), for any number of requests, `Orderly` and `Calm` or
not
- `TypeCorrect`: the handlers that three threads call without a lock stay in the states of
  their tables.
- `Whole`: `DataWhole`. The invariant (`WholeInv`) says that a buffer is half-written only
  while the thread that holds its mutex is in its critical section, and that what the DL
  thread took from it earlier is whole.

**`ProcessData`, orders** (the last part of `ProcessDataProofs`, under `Orderly` and `Calm`)
- `OutputsFresh`: `EnabledOutputsFresh`; `FallbackTaken`: `FallbackSent`. Both depend on
  which jobs can still be under way, so the invariant (`OrderInv`) describes the mailbox
  (`QueueInv`: one command, one confirmation or one loss at a time), the calls the command
  handler still owes an answer (`CallInv`), that the OD and the command handler agree on
  what is sent (`HandlersInv`), and what SM and CM have done at each point of the start-up
  (`StartInv`, `ConfigInv`, `ValidInv`); `FreshInv` and `FallbackInv` then say it for the
  values. TLC checked `OrderInv` within the bounds of `pd` before it was proved.

**`DeviceEvents`** (`DeviceEventsProofs`, under `Undisturbed`, i.e. `Calm`, `Prompt` and
`Paced`), for any sets, length of the event memory, retries, losses, restarts, control codes
and changes of the port
- `TypeCorrect`: `TypeOK`; `Transferred`: the initial states and the steps of
  `EventTransfer`, i.e. `ImplementsEventTransfer` without its fairness. Whether what is handed
  over is a whole set is decided over many messages, between which replies are lost, ISDUs
  and control codes take the exchange, and the device may restart. The invariant (`IInv`)
  says of the DL (`DlInv`) which state of the message handler goes with which mode
  (`Levels`, `Asked`), who has a control code (`Commanding`), that the OD handler turns to
  events only for the event flag and the message under way is then the one the event handler
  asked for (`Flagged`), that no set is pending while the port changes its mode
  (`Changing`), that a confirmation belongs to the last set handed over (`Confirming`), and
  of a reading which octets it has (`Reading`, with `ReadSoFar`: the slots filled are the
  first ranks of the bits in the StatusCode, each with the three octets of its bit, and the
  address is that of the next). `ToldMeant` says that the sets handed over are the device's.
  Of the main thread it says that the jobs in the mailbox are the rest of the last set, of
  which the AL has the beginning (`Gathering`), or the application's answer to it
  (`Answering`); while there are any, the set is not read again (`Handling`).
- The code finds the entries by loops over the bits of the StatusCode. `Ascending` states
  what they compute by ranks, so that no induction is needed: an entry is read when as many
  bits are below it as entries were read before.
- `Reported` (also under `UploadFirst`): `ReportedAsTold`. `Reporting` adds what the slots
  of the AL may hold of earlier sets: an upload request that is still there is in the first
  slot, which every set overwrites. `UploadFirst` says that a set with an upload request
  has it first; `events_upload` shows what happens otherwise.
- TLC checked the parts of `IInv` with other sets and limits than those of `events` before
  they were proved. One failed: the stale event flag, see the findings. `EventTransfer`
  had not shown it because a device was allowed to forget a set at any time; now it forgets
  only when it restarts (`restarts`).

**Only model-checked.** All liveness (`Settles`, `ExchangesInOperate`, `ControlIsSent`, ..., and what
`ImplementsRequestReply` and `ImplementsEventTransfer` say of fairness: TLAPS proves no
liveness under fairness, nor ENABLED);
of `DsPort`, `StoredIsOwn` and `CmAnswered`, which say something of the data
storage's walk through the index list and of what is still owed to it, and the refinement of
`ParameterBackup` (see the plan).

## Findings

Each is a run that TLC ends with a counterexample; `PROJECT.json` quotes the lines.

- An upload request stays in its slot of `al->event.events`; a shorter set that comes later
  is taken for another request and is reported to nobody (`events_upload`).
- Disabling outputs sends the master command that is also a device mode, and its
  confirmation makes the SM give up a device that answers (`pd_disable`).
- A transfer that cannot be started is never reported; CM and port hang (`ds_comlost`).

The modules hold more that no run pins down.

On-request data:
- The DL posts a confirmation before it clears the command (see `Parallel`). When the two
  threads run in parallel, the command of the next service can be cleared with it: an ISDU
  is never sent and its request never answered, without any receive error
  (`ServiceNotLost` and `ImplementsRequestReply` with `Parallel` TRUE). The data storage can
  lose an ISDU in the same way; the CM then waits in DS_ParamManager for ever
  (`CmAnswered`, `Settles` and `ImplementsBackup` with `Parallel` TRUE).
- `READPARAM_CNF` is appended to `data_read` before the state is looked at
  (`iolink_al.c:886`). A read that the DL refuses is executed all the same and confirmed a
  second time (`iolink_dl.c:2983`, `1837`); when the second confirmation comes between that of
  an ISDU read and the client's copy, the ISDU's answer is one octet longer, and the octet is
  foreign.
- A direct parameter read can return the octet of the exchange before it: the command is set
  between a message and its reply, which is then taken for the answer (`iolink_dl.c:1836`).
- `AnswerIsOwn` also fails with two AL clients, which share the buffer
  `al->service.data_read`, and with a second configuration: the confirmation of a request
  dropped by `od_stop` answers the next one.

The port:
- An upload that is broken off has overwritten part of the valid set (`iolink_ds.c:950`);
  the next start restores a mixture of two (`ImplementsBackup` with refusals).
- A port that is configured again while its device is in PREOPERATE never sends the OPERATE
  command.
- The SM drops a configuration during the start-up that CM and DS have accepted;
  `StoredIsOwn` and `ActiveMeansChecked` fail without `Orderly` for that reason.
- `WritesToChecked` fails once the application may serve a set during a start-up
  (`ServedSets` not empty, `Orderly` FALSE): the set is replaced after its identity was
  checked. It also fails when a port is configured for DI or DO during the last exchange of
  an upload: the set is then stored under the identity that the new configuration does not
  name, and the next start restores it to any device. `ds_disturbed` configures devices
  that are named.
- `ds_enable` is not cleared by a configuration without restore.
- A configuration during `checkSerNum` restarts the port under the running read of the
  serial number, and one in `InspectionFault` while `PREOP` is being written does the same;
  the late confirmation then meets `CC_ASSERT (0)` (`NoAssertion` without `Orderly`).
- Deactivation in PREOPERATE leaves the mode handler in PREOPERATE; from `InspectionFault`
  with the DL in IDLE the command FALLBACK is never confirmed, and `waitForFallback` accepts
  nothing else.
- A V1.0 device without a serial number never leaves `checkSerNum`, and one that is not of
  vendor 0x014E never reports OPERATE.

Events:
- The event flag is not cleared by a start-up. When communication is lost while it is set
  and the device restarts without a set, the OD handler goes to `EVENT_3` on the master's
  trigger (`iolink_dl.c:2548`), with the message that the ISDU handler wrote, and the event
  handler begins to read a set that does not exist. It does not look at `ehcmd` in
  `READEVENT_2` (`iolink_dl.c:2235`), so a configuration leaves it there; the reply to an idle
  message is then read as the StatusCode of the next set, which names no event: nothing is
  handed over, the set is confirmed and lost. `Calm` excludes a configuration then.

Events, process data, transceiver, jobs: what `Calm`, `Prompt`, `Paced`, `Orderly`,
`Patient` and `CallbackReads` exclude, as said with each module; and the mutex of the chip
that `get_data` keeps (`RxDisagrees`), after which every call for either port waits.

## Not modelled

- Interleaved frames of process data, and the lengths and layout of process data: the PD
  handler's other branch differs in how octets are packed into messages.
- Argument blocks, lengths and layouts, and the requests that only read (identification,
  status, readback): they change no state.
- The size limit of a stored set and the length of a served one, which is kept in eight bits
  (`iolink_ds.c:1236`): the store holds parameters, not octets.
- `AL_Event_req` posts a job of a type the main thread's switch does not know, which
  asserts; there is no behaviour after that to model. The port number checks that are off
  by one (`iolink_main.c:128`, `iolink_main.c:402`) are argument checks as well.
- What `iolink_m_deinit` frees after the main thread has exited.
- Registers of the MAX14819, baud rates, cycle times, DO and DI; the OS abstraction, IRQ and
  SPI wrappers (pure I/O); the sample applications.

## Plan and where it stands

| Part | State |
|---|---|
| SMI, ODE, AL services, DL in OPERATE (`OnRequest`, `DlOnRequest`, `RequestReply`) | done, proved: types, pending, answered once, own answers, no service lost |
| DS, CM, SM, DL modes, the port (`DsPort` and its parts, `ParameterBackup`) | done, proved: types, no stray answer, the SM is answered, active means checked, writes to the checked device |
| Event handler, AL events, device (`DeviceEvents`, `EventTransfer`) | done, proved: types, handed over whole and in order, reported as told |
| Process data (`ProcessData`) | done without interleave, proved: types, whole data, fresh outputs, fallback |
| Transceiver, interrupt, wake-up (`Transceiver`) | done, proved: types, wake-ups, line served |
| Jobs, mailbox, threads (`JobPool`) | done, proved: types, conservation, room |

Open: as theorems under `Orderly`, `CmAnswered`, and `StoredIsOwn` for configurations that
check the identity of the device (TLC finds no counterexample there, with every refusal,
garbled answers and a contended DL); a run for the loss of communication after a restart of
the device; the size limit of the store.

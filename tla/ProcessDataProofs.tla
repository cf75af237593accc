-------------------------- MODULE ProcessDataProofs --------------------------
(***************************************************************************)
(* The types of ProcessData, and that process data is never torn: for any  *)
(* number of requests, and whether or not the calls of the command handler *)
(* keep out of each other's way. Then what holds while they do and a       *)
(* change of the configuration waits for the outputs: a device whose       *)
(* outputs are valid gets those it was told of, and a fallback is          *)
(* confirmed when the device has the command.                              *)
(***************************************************************************)
EXTENDS ProcessData, TLAPS

Threads  == {"idle", "od", "send", "wait", "pdin", "reply"}
OdStates == {"INACTIVE", "ISDU", "COMMAND"}
Triggers == {"NONE", "MASTER", "DEVICE"}
ChStates == {"INACTIVE", "IDLE", "MASTERCOMMAND"}
Controls == {"NONE", "PDOUTVALID", "PDOUTINVALID", "DEVICEMODE"}
Codes    == {"NONE", "PD_OUT_OP"} \cup DeviceModes
Messages == {"isdu"} \cup Codes
Posts    == Seq({Job("CNF", "ok")})
SmStates == {"PortInactive", "waitonDLPreoperate", "wait", "wait_devmode_cnf",
             "SMOperate", "waitForFallback"}
CmStates == {"Deactivated", "CheckPortMode", "Startup", "Port_Active"}

DlRecord ==
    [mdh : {"IDLE", "PREOPERATE", "OPERATE"}, mode : {"INACTIVE", "STARTUP", "OPERATE"},
     comlost : BOOLEAN, mdhEvent : BOOLEAN, pc : Threads, ph : {"INACTIVE", "PDSINGLE"},
     od : OdStates, trigger : Triggers, cmdh : ChStates, chActive : BOOLEAN,
     code : Controls, command : Codes,
     txOut : Reqs \X Reqs, txOd : Messages, posts : Posts]

AppRecord ==
    [pc : {"idle", "output", "copy", "control", "cmd"}, no : Reqs, oe : BOOLEAN]

TypeInv ==
    /\ dl \in DlRecord
    /\ app \in AppRecord
    /\ pde \in [active : BOOLEAN, oe : BOOLEAN]
    /\ wire \in [out : Reqs \X Reqs, od : Messages]
    /\ pdout \in Reqs \X Reqs
    /\ pdin \in Inputs \X Inputs
    /\ sm \in SmStates /\ cm \in CmStates
    /\ enabler \in Reqs

-----------------------------------------------------------------------------
(* Halves of process data. *)
LEMMA PairUpdate ==
    ASSUME NEW S, NEW p \in S \X S, NEW x \in S
    PROVE  /\ [p EXCEPT ![1] = x] \in S \X S
           /\ [p EXCEPT ![2] = x] \in S \X S
           /\ [p EXCEPT ![1] = x][1] = x /\ [p EXCEPT ![1] = x][2] = p[2]
           /\ [p EXCEPT ![2] = x][1] = p[1] /\ [p EXCEPT ![2] = x][2] = x
  OBVIOUS

LEMMA PairOf ==
    ASSUME NEW S, NEW x \in S
    PROVE  Pair(x) \in S \X S /\ Pair(x)[1] = x /\ Pair(x)[2] = x
  BY DEF Pair

LEMMA Zero == 0 \in Reqs /\ 0 \in Inputs
  BY DataAssumption DEF Reqs, Inputs

-----------------------------------------------------------------------------
(* The command handler and the OD handler keep the types, and touch        *)
(* neither the outputs of a message nor where the thread is.               *)
Handled(d, e) == e \in DlRecord /\ e.pc = d.pc /\ e.txOut = d.txOut

LEMMA Chain ==
    ASSUME NEW d, NEW e, NEW f, Handled(d, e), Handled(e, f)
    PROVE  Handled(d, f)
  BY DEF Handled

LEMMA Fields ==
    ASSUME NEW d \in DlRecord
    PROVE  /\ Handled(d, d)
           /\ \A code \in Controls : Handled(d, [d EXCEPT !.code = code])
           /\ \A cmdh \in ChStates : Handled(d, [d EXCEPT !.cmdh = cmdh])
           /\ \A trigger \in Triggers : Handled(d, [d EXCEPT !.trigger = trigger])
           /\ \A od \in OdStates : Handled(d, [d EXCEPT !.od = od])
           /\ \A command \in Codes : Handled(d, [d EXCEPT !.command = command])
           /\ \A posts \in Posts : Handled(d, [d EXCEPT !.posts = posts])
  BY DEF Handled, DlRecord

LEMMA TwoFields ==
    ASSUME NEW d \in DlRecord
    PROVE  /\ \A code \in Controls, cmdh \in ChStates :
                Handled(d, [d EXCEPT !.code = code, !.cmdh = cmdh])
           /\ \A trigger \in Triggers, od \in OdStates :
                Handled(d, [d EXCEPT !.trigger = trigger, !.od = od])
           /\ \A command \in Codes, cmdh \in ChStates :
                Handled(d, [d EXCEPT !.command = command, !.cmdh = cmdh])
           /\ \A command \in Codes, posts \in Posts :
                Handled(d, [d EXCEPT !.command = command, !.posts = posts])
  BY DEF Handled, DlRecord

(* The values the handlers write. *)
LEMMA Values ==
    /\ {"NONE", "DEVICEMODE", "PDOUTVALID", "PDOUTINVALID"} \subseteq Controls
    /\ {"INACTIVE", "IDLE", "MASTERCOMMAND"} \subseteq ChStates
    /\ {"NONE", "MASTER", "DEVICE"} \subseteq Triggers
    /\ {"INACTIVE", "ISDU", "COMMAND"} \subseteq OdStates
    /\ {"NONE", "PD_OUT_OP", "DEVICE_OPERATE", "FALLBACK"} \subseteq Codes
    /\ <<>> \in Posts
  BY DEF Controls, ChStates, Triggers, OdStates, Codes, DeviceModes, Posts

LEMMA CmdHandlerType ==
    ASSUME NEW d \in DlRecord
    PROVE  Handled(d, CmdHandler(d))
<1>1. /\ Handled(d, d)
      /\ Handled(d, [d EXCEPT !.cmdh = "IDLE"])
      /\ Handled(d, [d EXCEPT !.cmdh = "INACTIVE"])
      /\ Handled(d, [d EXCEPT !.cmdh = "MASTERCOMMAND"])
  BY Fields, Values
<1>2. /\ Handled(d, [d EXCEPT !.command = "PD_OUT_OP", !.cmdh = "MASTERCOMMAND"])
      /\ Handled(d, [d EXCEPT !.command = "DEVICE_OPERATE", !.cmdh = "MASTERCOMMAND"])
  BY TwoFields, Values
<1>3. Handled(d, [Od_req(d, d.command) EXCEPT !.code = "NONE", !.cmdh = "IDLE"])
  <2>1. Handled(d, Od_req(d, d.command))
    BY DEF Handled, DlRecord, Od_req, Messages
  <2>2. Handled(Od_req(d, d.command),
                [Od_req(d, d.command) EXCEPT !.code = "NONE", !.cmdh = "IDLE"])
    <3>1. Od_req(d, d.command) \in DlRecord
      BY <2>1 DEF Handled
    <3>2. "NONE" \in Controls /\ "IDLE" \in ChStates
      BY Values
    <3> QED BY <3>1, <3>2, TwoFields
  <2> QED BY <2>1, <2>2, Chain
<1> QED BY <1>1, <1>2, <1>3 DEF CmdHandler

LEMMA OdHandlerType ==
    ASSUME NEW d \in DlRecord
    PROVE  Handled(d, OdHandler(d))
<1>1. Handled(d, [d EXCEPT !.trigger = "NONE"]) /\ Handled(d, [d EXCEPT !.od = "ISDU"])
  BY Fields, Values
<1>2. Handled(d, [CmdHandler(d) EXCEPT !.od = "COMMAND"])
  <2>1. Handled(CmdHandler(d), [CmdHandler(d) EXCEPT !.od = "COMMAND"])
    BY CmdHandlerType, Fields, Values DEF Handled
  <2> QED BY <2>1, CmdHandlerType, Chain
<1>3. Handled(d, [Od_req(d, "isdu") EXCEPT !.trigger = "NONE"])
  <2>1. Handled(d, Od_req(d, "isdu"))
    BY DEF Handled, DlRecord, Od_req, Messages
  <2>2. Handled(Od_req(d, "isdu"), [Od_req(d, "isdu") EXCEPT !.trigger = "NONE"])
    BY <2>1, Fields, Values DEF Handled
  <2> QED BY <2>1, <2>2, Chain
<1>4. Handled(d, [WriteMasterCommand(d) EXCEPT !.trigger = "NONE", !.od = "ISDU"])
  <2>1. Handled(d, WriteMasterCommand(d))
    <3> DEFINE posts == IF d.command \in DeviceModes THEN Append(d.posts, Job("CNF", "ok"))
                                                     ELSE d.posts
    <3>1. d.posts \in Posts
      BY DEF DlRecord
    <3>2. posts \in Posts
      BY <3>1 DEF Posts
    <3>3. WriteMasterCommand(d) = [d EXCEPT !.command = "NONE", !.posts = posts]
      BY DEF WriteMasterCommand
    <3> HIDE DEF posts
    <3>4. "NONE" \in Codes
      BY Values
    <3>5. Handled(d, [d EXCEPT !.command = "NONE", !.posts = posts])
      BY <3>2, <3>4, TwoFields
    <3> QED BY <3>3, <3>5
  <2>2. Handled(WriteMasterCommand(d),
                [WriteMasterCommand(d) EXCEPT !.trigger = "NONE", !.od = "ISDU"])
    <3>1. WriteMasterCommand(d) \in DlRecord
      BY <2>1 DEF Handled
    <3>2. "NONE" \in Triggers /\ "ISDU" \in OdStates
      BY Values
    <3> QED BY <3>1, <3>2, TwoFields
  <2> QED BY <2>1, <2>2, Chain
<1>5. Handled(d, OdIsdu(d))
  BY <1>1, <1>2, <1>3 DEF OdIsdu
<1>6. Handled(d, OdCommand(d))
  BY <1>1, <1>4 DEF OdCommand
<1>7. d.od \in OdStates
  BY DEF DlRecord
<1> QED BY <1>1, <1>5, <1>6, <1>7 DEF OdHandler, OdStates

LEMMA OdType ==
    ASSUME NEW d \in DlRecord, NEW trigger \in {"MASTER", "DEVICE"}
    PROVE  Handled(d, Od(d, trigger))
<1>1. Handled(d, [d EXCEPT !.trigger = trigger])
  BY Fields, Values
<1>2. Handled([d EXCEPT !.trigger = trigger], OdHandler([d EXCEPT !.trigger = trigger]))
  BY <1>1, OdHandlerType DEF Handled
<1> QED BY <1>1, <1>2, Chain DEF Od

LEMMA ConfType ==
    ASSUME NEW d \in DlRecord
    PROVE  /\ Handled(d, OH_ConfInactive(d))
           /\ \A active \in BOOLEAN : Handled(d, CH_Conf(d, active))
<1>1. Handled(d, OH_ConfInactive(d))
  BY Fields, Values DEF OH_ConfInactive
<1>2. ASSUME NEW active \in BOOLEAN PROVE Handled(d, CH_Conf(d, active))
  <2>1. Handled(d, [d EXCEPT !.chActive = active])
    BY DEF Handled, DlRecord
  <2>2. Handled([d EXCEPT !.chActive = active], CH_Conf(d, active))
    BY <2>1, CmdHandlerType DEF Handled, CH_Conf
  <2> QED BY <2>1, <2>2, Chain
<1> QED BY <1>1, <1>2

LEMMA DlStepType ==
    ASSUME NEW d \in DlRecord, NEW jobs, DlStep(d, jobs)
    PROVE  Handled(d, dl')
<1>1. PICK r \in {d} : dl' = [r EXCEPT !.posts = <<>>]
  BY DEF DlStep
<1> QED BY <1>1, Fields, Values

(* The DL thread goes on. *)
LEMMA Goes ==
    ASSUME NEW d \in DlRecord, NEW pc \in Threads
    PROVE  /\ [d EXCEPT !.pc = pc] \in DlRecord
           /\ [d EXCEPT !.pc = pc].pc = pc
           /\ [d EXCEPT !.pc = pc].txOut = d.txOut
  BY DEF DlRecord

-----------------------------------------------------------------------------
(* Where process data is whole: only the thread that holds a mutex has it  *)
(* in pieces.                                                              *)
WholeInv ==
    /\ app.pc = "copy" => mtx /\ pdout[1] = app.no
    /\ app.pc # "copy" => pdout[1] = pdout[2]
    /\ dl.pc = "pdin" => mtxPdin
    /\ dl.pc # "pdin" => pdin[1] = pdin[2]
    /\ dl.txOut[1] = dl.txOut[2]
    /\ DataWhole

Inv == TypeInv /\ WholeInv

LEMMA InitInv == Init => Inv
<1> SUFFICES ASSUME Init PROVE Inv
  OBVIOUS
<1>1. Pair(0) \in Reqs \X Reqs /\ Pair(0) \in Inputs \X Inputs /\ Pair(0)[1] = Pair(0)[2]
  BY PairOf, Zero
<1>2. dl \in DlRecord
  BY <1>1, Values DEF Init, DlRecord, Messages, Threads
<1>3. app \in AppRecord /\ enabler \in Reqs
  BY Zero DEF Init, AppRecord
<1>4. wire \in [out : Reqs \X Reqs, od : Messages] /\ pde \in [active : BOOLEAN, oe : BOOLEAN]
  BY <1>1 DEF Init, Messages
<1>5. TypeInv
  BY <1>1, <1>2, <1>3, <1>4 DEF Init, TypeInv, SmStates, CmStates
<1>6. WholeInv
  BY <1>1 DEF Init, WholeInv, DataWhole
<1> QED BY <1>5, <1>6 DEF Inv

(* A step that keeps the types, the process data and who holds it.         *)
DataStays ==
    /\ UNCHANGED <<dataVars, wire>>
    /\ dl'.txOut = dl.txOut
    /\ dl'.pc = "pdin" <=> dl.pc = "pdin"
    /\ app'.pc = "copy" <=> app.pc = "copy"
    /\ app'.pc = "copy" => app'.no = app.no
LEMMA KeepsInv ==
    ASSUME Inv, TypeInv', DataStays
    PROVE  Inv'
  BY DEF Inv, WholeInv, DataWhole, DataStays, dataVars

-----------------------------------------------------------------------------
(* The DL thread.                                                          *)

(* A step of the DL thread that leaves everyone else's state alone. *)
Others == <<wire, pdout, pdin, sm, cm, pde, app, enabler>>
LEMMA DlTypes ==
    ASSUME Inv, dl' \in DlRecord, UNCHANGED Others
    PROVE  TypeInv'
  BY DEF Inv, TypeInv, Others

(* The data of a message is left alone, and the thread is not between the  *)
(* halves of the inputs.                                                   *)
LEMMA DlGoes ==
    ASSUME Inv, NEW d \in DlRecord, d.txOut = dl.txOut, NEW jobs, DlStep(d, jobs),
           d.pc # "pdin", dl.pc # "pdin",
           UNCHANGED <<dataVars, wire, smVars, appVars>>
    PROVE  Inv'
<1>1. Handled(d, dl')
  BY DlStepType
<1>2. TypeInv'
  BY <1>1, DlTypes DEF Handled, Others, dataVars, smVars, appVars
<1>3. DataStays
  BY <1>1 DEF DataStays, Handled, appVars, dataVars
<1> QED BY <1>2, <1>3, KeepsInv

LEMMA PD_reqInv == ASSUME Inv, PD_req PROVE Inv'
<1> DEFINE d == [dl EXCEPT !.txOut = pdout, !.pc = "od"]
<1>1. dl \in DlRecord /\ pdout \in Reqs \X Reqs /\ "od" \in Threads
  BY DEF Inv, TypeInv, Threads
<1>2. d \in DlRecord /\ d.pc = "od" /\ d.txOut = pdout
  BY <1>1 DEF DlRecord
<1>3. Handled(d, dl')
  BY <1>2, DlStepType DEF PD_req
<1>4. TypeInv'
  BY <1>3, DlTypes DEF PD_req, Handled, Others, dataVars, smVars, appVars
<1>5. pdout[1] = pdout[2]
  BY DEF PD_req, Inv, WholeInv
<1> HIDE DEF d
<1>6. WholeInv'
  BY <1>2, <1>3, <1>5 DEF PD_req, Inv, WholeInv, DataWhole, Handled, dataVars, appVars
<1> QED BY <1>4, <1>6 DEF Inv

LEMMA OdStepsInv ==
    ASSUME Inv, PreoperateMessage \/ OdRequest \/ OdReply
    PROVE  Inv'
<1>1. dl \in DlRecord /\ {"od", "send", "idle"} \subseteq Threads
  BY DEF Inv, TypeInv, Threads
<1>2. CASE PreoperateMessage
  <2>1. /\ [dl EXCEPT !.pc = "od"] \in DlRecord
        /\ [dl EXCEPT !.pc = "od"].pc = "od"
        /\ [dl EXCEPT !.pc = "od"].txOut = dl.txOut
    BY <1>1, Goes
  <2> QED BY <1>2, <2>1, DlGoes DEF PreoperateMessage
<1>3. CASE OdRequest
  <2>1. Handled(dl, Od(dl, "MASTER"))
    BY <1>1, OdType
  <2>2. /\ [Od(dl, "MASTER") EXCEPT !.pc = "send"] \in DlRecord
        /\ [Od(dl, "MASTER") EXCEPT !.pc = "send"].pc = "send"
        /\ [Od(dl, "MASTER") EXCEPT !.pc = "send"].txOut = dl.txOut
    BY <1>1, <2>1, Goes DEF Handled
  <2> QED BY <1>3, <2>2, DlGoes DEF OdRequest
<1>4. CASE OdReply
  <2>1. Handled(dl, Od(dl, "DEVICE"))
    BY <1>1, OdType
  <2>2. /\ [Od(dl, "DEVICE") EXCEPT !.pc = "idle"] \in DlRecord
        /\ [Od(dl, "DEVICE") EXCEPT !.pc = "idle"].pc = "idle"
        /\ [Od(dl, "DEVICE") EXCEPT !.pc = "idle"].txOut = dl.txOut
    BY <1>1, <2>1, Goes DEF Handled
  <2> QED BY <1>4, <2>2, DlGoes DEF OdReply
<1> QED BY <1>2, <1>3, <1>4

LEMMA SendInv == ASSUME Inv, Send PROVE Inv'
<1> DEFINE d == [dl EXCEPT !.pc = "wait"]
<1>1. d \in DlRecord /\ d.pc = "wait" /\ d.txOut = dl.txOut
  BY Goes DEF Inv, TypeInv, Threads
<1>2. Handled(d, dl')
  BY <1>1, DlStepType DEF Send
<1> HIDE DEF d
<1>3. /\ wire' \in [out : Reqs \X Reqs, od : Messages]
      /\ wire'.out = dl.txOut
  BY DEF Send, Inv, TypeInv, DlRecord
<1>4. TypeInv'
  BY <1>2, <1>3 DEF Send, Handled, Inv, TypeInv, dataVars, smVars, appVars
<1>5. WholeInv'
  BY <1>1, <1>2, <1>3 DEF Send, Inv, WholeInv, DataWhole, Handled, dataVars, appVars
<1> QED BY <1>4, <1>5 DEF Inv

LEMMA Reply16Inv == ASSUME Inv, Reply16 PROVE Inv'
<1> DEFINE d == [dl EXCEPT !.pc = "pdin"]
<1>1. d \in DlRecord /\ d.pc = "pdin" /\ d.txOut = dl.txOut
  BY Goes DEF Inv, TypeInv, Threads
<1>2. Handled(d, dl')
  BY <1>1, DlStepType DEF Reply16
<1> HIDE DEF d
<1>3. pdin' \in Inputs \X Inputs
  <2>1. pdin \in Inputs \X Inputs /\ 1 - pdin[1] \in Inputs
    BY DEF Inv, TypeInv, Inputs
  <2> QED BY <2>1, PairUpdate DEF Reply16
<1>4. TypeInv'
  BY <1>2, <1>3 DEF Reply16, Handled, Inv, TypeInv, smVars, appVars
<1>5. WholeInv'
  BY <1>1, <1>2 DEF Reply16, Inv, WholeInv, DataWhole, Handled, appVars
<1> QED BY <1>4, <1>5 DEF Inv

LEMMA InputsDoneInv == ASSUME Inv, InputsDone PROVE Inv'
<1> DEFINE d == [dl EXCEPT !.pc = "reply"]
<1>1. d \in DlRecord /\ d.pc = "reply" /\ d.txOut = dl.txOut
  BY Goes DEF Inv, TypeInv, Threads
<1>2. Handled(d, dl')
  BY <1>1, DlStepType DEF InputsDone
<1> HIDE DEF d
<1>3. pdin' \in Inputs \X Inputs /\ pdin'[1] = pdin'[2]
  <2>1. pdin[1] \in Inputs
    BY DEF Inv, TypeInv
  <2> QED BY <2>1, PairOf DEF InputsDone
<1>4. TypeInv'
  BY <1>2, <1>3 DEF InputsDone, Handled, Inv, TypeInv, smVars, appVars
<1>5. WholeInv'
  BY <1>1, <1>2, <1>3 DEF InputsDone, Inv, WholeInv, DataWhole, Handled, appVars
<1> QED BY <1>4, <1>5 DEF Inv

LEMMA Reply9Inv == ASSUME Inv, Reply9 PROVE Inv'
<1>1. /\ [dl EXCEPT !.pc = "reply"] \in DlRecord
      /\ [dl EXCEPT !.pc = "reply"].pc = "reply"
      /\ [dl EXCEPT !.pc = "reply"].txOut = dl.txOut
  BY Goes DEF Inv, TypeInv, Threads
<1> QED BY <1>1, DlGoes DEF Reply9

LEMMA MessageLostInv == ASSUME Inv, MessageLost PROVE Inv'
<1>1. /\ dl' \in DlRecord /\ dl'.txOut = dl.txOut
      /\ dl.pc # "pdin" /\ dl'.pc # "pdin"
  <2>1. dl \in DlRecord /\ dl.pc = "wait"
    BY DEF MessageLost, Inv, TypeInv
  <2>2. CASE UNCHANGED dl
    BY <2>1, <2>2
  <2>3. CASE dl' = [dl EXCEPT !.comlost = TRUE, !.mdhEvent = TRUE, !.pc = "idle"]
    <3>1. "idle" \in Threads
      BY DEF Threads
    <3> QED BY <2>1, <2>3, <3>1 DEF DlRecord
  <2> QED BY <2>2, <2>3 DEF MessageLost
<1>2. TypeInv'
  BY <1>1, DlTypes DEF MessageLost, Others, dataVars, smVars, appVars
<1>3. DataStays
  BY <1>1 DEF DataStays, MessageLost, appVars, dataVars
<1> QED BY <1>2, <1>3, KeepsInv

LEMMA EstablishInv == ASSUME Inv, Establish PROVE Inv'
<1> DEFINE d == OdHandler(CH_Conf(dl, TRUE))
           e == [d EXCEPT !.mdh = "PREOPERATE", !.mdhEvent = FALSE]
<1>1. Handled(dl, d)
  <2>1. Handled(dl, CH_Conf(dl, TRUE))
    BY ConfType DEF Inv, TypeInv
  <2>2. Handled(CH_Conf(dl, TRUE), d)
    BY <2>1, OdHandlerType DEF Handled
  <2> QED BY <2>1, <2>2, Chain
<1> HIDE DEF d
<1>2. e \in DlRecord /\ e.pc = dl.pc /\ e.txOut = dl.txOut
  BY <1>1 DEF Handled, DlRecord
<1>3. dl.pc # "pdin"
  BY DEF Establish, AtRest
<1>4. \E jobs : DlStep(e, jobs)
  BY DEF Establish, d
<1> HIDE DEF e
<1> QED BY <1>2, <1>3, <1>4, DlGoes DEF Establish

LEMMA GotoOperateInv == ASSUME Inv, GotoOperate PROVE Inv'
<1> DEFINE e == [dl EXCEPT !.ph = "PDSINGLE", !.mdh = "OPERATE", !.mdhEvent = FALSE]
<1>1. e \in DlRecord /\ e.pc = dl.pc /\ e.txOut = dl.txOut
  BY DEF Inv, TypeInv, DlRecord
<1>2. dl.pc # "pdin" /\ \E jobs : DlStep(e, jobs)
  BY DEF GotoOperate, AtRest
<1> HIDE DEF e
<1> QED BY <1>1, <1>2, DlGoes DEF GotoOperate

LEMMA GotoIdleInv == ASSUME Inv, GotoIdle PROVE Inv'
<1> DEFINE d == CH_Conf(OH_ConfInactive(dl), FALSE)
           e == [d EXCEPT !.ph = "INACTIVE", !.mdh = "IDLE", !.comlost = FALSE,
                          !.mdhEvent = FALSE, !.pc = "idle"]
<1>1. Handled(dl, d)
  <2>1. Handled(dl, OH_ConfInactive(dl))
    BY ConfType DEF Inv, TypeInv
  <2>2. Handled(OH_ConfInactive(dl), d)
    BY <2>1, ConfType DEF Handled
  <2> QED BY <2>1, <2>2, Chain
<1>2. dl.pc # "pdin" /\ \E jobs : DlStep(e, jobs)
  BY DEF GotoIdle, AtRest
<1> HIDE DEF d
<1>3. "idle" \in Threads
  BY DEF Threads
<1>4. e \in DlRecord /\ e.pc = "idle" /\ e.txOut = dl.txOut
  BY <1>1, <1>3 DEF Handled, DlRecord
<1> HIDE DEF e
<1> QED BY <1>2, <1>4, DlGoes DEF GotoIdle

LEMMA ModeIgnoredInv == ASSUME Inv, ModeIgnored PROVE Inv'
<1> DEFINE e == [dl EXCEPT !.mdhEvent = FALSE]
<1>1. e \in DlRecord /\ e.pc = dl.pc /\ e.txOut = dl.txOut
  BY DEF Inv, TypeInv, DlRecord
<1>2. dl.pc # "pdin" /\ \E jobs : DlStep(e, jobs)
  BY DEF ModeIgnored, AtRest
<1> HIDE DEF e
<1> QED BY <1>1, <1>2, DlGoes DEF ModeIgnored

-----------------------------------------------------------------------------
(* The main thread and the device: no step touches process data.           *)
LEMMA MainGoes ==
    ASSUME Inv, Handled(dl, dl'), sm' \in SmStates, cm' \in CmStates,
           pde' \in [active : BOOLEAN, oe : BOOLEAN],
           UNCHANGED <<dataVars, wire, app, enabler>>
    PROVE  Inv'
<1>1. TypeInv'
  BY DEF Inv, TypeInv, Handled, dataVars
<1>2. DataStays
  BY DEF DataStays, Handled
<1> QED BY <1>1, <1>2, KeepsInv

LEMMA Typed == Inv => /\ Handled(dl, dl) /\ dl \in DlRecord
                      /\ sm \in SmStates /\ cm \in CmStates
                      /\ pde \in [active : BOOLEAN, oe : BOOLEAN]
  BY Fields DEF Inv, TypeInv

LEMMA SetModeType ==
    ASSUME Inv, NEW mode \in {"INACTIVE", "STARTUP", "OPERATE"}, DL_SetMode_req(mode)
    PROVE  Handled(dl, dl')
<1>1. dl \in DlRecord
  BY DEF Inv, TypeInv
<1> QED BY <1>1 DEF DL_SetMode_req, Handled, DlRecord

LEMMA DevicemodeType ==
    ASSUME Inv, NEW mode \in {"OPERATE", "INACTIVE"}, DL_Write_Devicemode_req(mode)
    PROVE  Handled(dl, dl')
<1>1. dl \in DlRecord /\ Commands[mode] \in Codes
  BY Values DEF Inv, TypeInv, Commands
<1> QED BY <1>1, Fields DEF DL_Write_Devicemode_req

LEMMA DevicemodeInv == ASSUME Inv, DevicemodeCode \/ DevicemodeCmd PROVE Inv'
<1>1. Handled(dl, dl')
  BY Typed, Fields, Values, CmdHandlerType DEF DevicemodeCode, DevicemodeCmd
<1> QED BY <1>1, Typed, MainGoes DEF DevicemodeCode, DevicemodeCmd, smVars, appVars

(* What SmGoes leaves alone. *)
LEMMA SmGoesKeeps ==
    ASSUME Inv, NEW state \in SmStates, NEW jobs, SmGoes(state, jobs), Handled(dl, dl')
    PROVE  Inv'
  BY Typed, MainGoes DEF SmGoes, appVars

LEMMA SmStaysInv == ASSUME Inv, SmStays PROVE Inv'
  BY Typed, SmGoesKeeps DEF SmStays

LEMMA ComlostInv == ASSUME Inv, ComlostEvent PROVE Inv'
<1>1. CASE Comlost
  <2>1. Handled(dl, dl')
    BY <1>1, SetModeType DEF Comlost
  <2>2. "PortInactive" \in SmStates
    BY DEF SmStates
  <2> QED BY <1>1, <2>1, <2>2, SmGoesKeeps DEF Comlost
<1> QED BY <1>1, SmStaysInv DEF ComlostEvent

LEMMA ModeIndInv == ASSUME Inv, ModeInd PROVE Inv'
<1>1. {"waitonDLPreoperate", "wait"} \subseteq SmStates
  BY DEF SmStates
<1>2. ASSUME NEW state \in SmStates, NEW jobs, SmGoes(state, jobs), UNCHANGED dl PROVE Inv'
  BY <1>2, Typed, SmGoesKeeps
<1>3. CASE ComlostEvent \/ SmStays
  BY <1>3, ComlostInv, SmStaysInv
<1>4. CASE \E state \in SmStates : \E jobs : SmGoes(state, jobs) /\ UNCHANGED dl
  BY <1>2, <1>4
<1>5. ComlostEvent \/ SmStays \/ \E state \in SmStates : \E jobs : SmGoes(state, jobs) /\ UNCHANGED dl
  BY <1>1, Typed DEF ModeInd
<1> QED BY <1>3, <1>4, <1>5

LEMMA SmOperateReqInv == ASSUME Inv, SmOperateReq PROVE Inv'
<1>1. CASE SmStays
  BY <1>1, SmStaysInv
<1>2. CASE SmGoes("wait_devmode_cnf", <<>>) /\ DL_Write_Devicemode_req("OPERATE")
  BY <1>2, DevicemodeType, SmGoesKeeps DEF SmStates
<1> QED BY <1>1, <1>2 DEF SmOperateReq

LEMMA DevmodeCnfInv == ASSUME Inv, DevmodeCnf PROVE Inv'
<1>1. CASE DL_SetMode_req("OPERATE") /\ SmGoes("SMOperate", <<>>)
  BY <1>1, SetModeType, SmGoesKeeps DEF SmStates
<1>2. CASE DL_SetMode_req("INACTIVE") /\ SmGoes("PortInactive", <<Job("PORT", "INACTIVE")>>)
  BY <1>2, SetModeType, SmGoesKeeps DEF SmStates
<1>3. CASE ComlostEvent
  BY <1>3, ComlostInv
<1> QED BY <1>1, <1>2, <1>3 DEF DevmodeCnf

LEMMA SetPortCfgInv == ASSUME Inv, SetPortCfg PROVE Inv'
<1>1. Handled(dl, dl')
  BY SetModeType, DevicemodeType DEF SetPortCfg
<1>2. sm' \in SmStates
  BY Typed DEF SetPortCfg, SmStates
<1> QED BY <1>1, <1>2, Typed, MainGoes DEF SetPortCfg, appVars

LEMMA ManagerInv == ASSUME Inv, CfgChange \/ PortMode \/ ControlInd PROVE Inv'
<1>1. UNCHANGED <<dl, sm, dataVars, wire, app, enabler>>
  BY DEF CfgChange, PortMode, ControlInd, appVars
<1>2. cm' \in CmStates
  BY Typed DEF CfgChange, PortMode, ControlInd, CmStates
<1>3. pde' \in [active : BOOLEAN, oe : BOOLEAN]
  <2>1. pde \in [active : BOOLEAN, oe : BOOLEAN]
    BY Typed
  <2>2. \/ pde' = [active |-> FALSE, oe |-> FALSE]
        \/ pde' = [pde EXCEPT !.active = TRUE]
        \/ UNCHANGED pde
    BY DEF CfgChange, PortMode, ControlInd, PD_Stop, appVars
  <2>3. [pde EXCEPT !.active = TRUE] \in [active : BOOLEAN, oe : BOOLEAN]
    BY <2>1
  <2>4. [active |-> FALSE, oe |-> FALSE] \in [active : BOOLEAN, oe : BOOLEAN]
    OBVIOUS
  <2> QED BY <2>1, <2>2, <2>3, <2>4, Zenon
<1> QED BY <1>1, <1>2, <1>3, Typed, MainGoes

LEMMA AsideInv ==
    ASSUME Inv, InputsChange \/ \E mode \in {"INACTIVE", "CFGCOM"} : Configure(mode)
    PROVE  Inv'
<1>1. UNCHANGED <<dl, sm, cm, pde, dataVars, wire, app, enabler>>
  BY DEF InputsChange, Configure, smVars, appVars
<1> QED BY <1>1, Typed, MainGoes

-----------------------------------------------------------------------------
(* The application.                                                        *)
LEMMA AppTyped ==
    Inv => app \in AppRecord /\ app.no \in Reqs /\ app.oe \in BOOLEAN
  BY DEF Inv, TypeInv, AppRecord

(* A call that leaves the outputs alone. *)
LEMMA AppCalls ==
    ASSUME Inv, app' \in AppRecord, app.pc # "copy", app'.pc # "copy", Handled(dl, dl'),
           pde' \in [active : BOOLEAN, oe : BOOLEAN], enabler' \in Reqs,
           UNCHANGED <<dataVars, wire, smVars>>
    PROVE  Inv'
<1>1. TypeInv'
  BY DEF Inv, TypeInv, Handled, dataVars, smVars
<1>2. DataStays
  BY DEF DataStays, Handled
<1> QED BY <1>1, <1>2, KeepsInv

LEMMA PDOutInv == ASSUME Inv, NEW oe \in BOOLEAN, PDOut(oe) PROVE Inv'
<1>1. app.no + 1 \in Reqs
  BY AppTyped, DataAssumption DEF PDOut, Reqs
<1>2. app' \in AppRecord /\ app'.pc = "output" /\ app.pc = "idle"
  BY <1>1 DEF PDOut, AppGoes, AppRecord
<1> QED BY <1>2, Typed, AppCalls DEF PDOut, AppGoes, Inv, TypeInv

LEMMA SetOutputInv == ASSUME Inv, SetOutput PROVE Inv'
<1>1. CASE dl.ph = "INACTIVE"
  <2>1. app' \in AppRecord /\ app'.pc = "idle" /\ app.pc = "output"
    BY <1>1, AppTyped DEF SetOutput, AppGoes, AppRecord
  <2> QED BY <1>1, <2>1, Typed, AppCalls DEF SetOutput, AppGoes, Inv, TypeInv, dataVars
<1>2. CASE dl.ph # "INACTIVE"
  <2>1. app' \in AppRecord /\ app'.pc = "copy" /\ app'.no = app.no
    BY <1>2, AppTyped DEF SetOutput, AppGoes, AppRecord
  <2>2. pdout' \in Reqs \X Reqs /\ pdout'[1] = app.no
    BY <1>2, AppTyped, PairUpdate DEF SetOutput, Inv, TypeInv
  <2>3. TypeInv'
    BY <1>2, <2>1, <2>2 DEF SetOutput, AppGoes, Inv, TypeInv, smVars
  <2>4. WholeInv'
    BY <1>2, <2>1, <2>2 DEF SetOutput, AppGoes, Inv, WholeInv, DataWhole
  <2> QED BY <2>3, <2>4 DEF Inv
<1> QED BY <1>1, <1>2

LEMMA OutputSetInv == ASSUME Inv, OutputSet PROVE Inv'
<1>1. app' \in AppRecord /\ app'.pc # "copy"
  BY AppTyped DEF OutputSet, AppGoes, AppRecord
<1>2. pdout' \in Reqs \X Reqs /\ pdout'[1] = pdout'[2]
  <2>1. pdout \in Reqs \X Reqs /\ pdout[1] = app.no
    BY DEF OutputSet, Inv, TypeInv, WholeInv
  <2> QED BY <2>1, AppTyped, PairUpdate DEF OutputSet
<1>3. TypeInv'
  BY <1>1, <1>2 DEF OutputSet, AppGoes, Inv, TypeInv, smVars
<1>4. WholeInv'
  BY <1>1, <1>2 DEF OutputSet, AppGoes, Inv, WholeInv, DataWhole
<1> QED BY <1>3, <1>4 DEF Inv

LEMMA ControlReqInv == ASSUME Inv, ControlReq PROVE Inv'
<1>1. app' \in AppRecord /\ app'.pc = "cmd" /\ app.pc = "control"
  BY AppTyped DEF ControlReq, AppGoes, AppRecord
<1>2. Handled(dl, dl')
  BY Typed, Fields, Values DEF ControlReq
<1>3. enabler' \in Reqs
  BY AppTyped, Zero DEF ControlReq
<1> QED BY <1>1, <1>2, <1>3, Typed, AppCalls DEF ControlReq, AppGoes

LEMMA ControlCmdInv == ASSUME Inv, ControlCmd PROVE Inv'
<1>1. app' \in AppRecord /\ app'.pc = "idle" /\ app.pc = "cmd"
  BY AppTyped DEF ControlCmd, AppGoes, AppRecord
<1>2. Handled(dl, dl')
  BY Typed, CmdHandlerType DEF ControlCmd
<1>3. pde' \in [active : BOOLEAN, oe : BOOLEAN]
  BY AppTyped, Typed DEF ControlCmd
<1> QED BY <1>1, <1>2, <1>3, AppCalls DEF ControlCmd, AppGoes, Inv, TypeInv

LEMMA PDInInv == ASSUME Inv, PDIn PROVE Inv'
<1>1. pdin[1] = pdin[2]
  BY DEF PDIn, Inv, WholeInv
<1>2. ~torn'
  <2>1. CASE Answer({pdin})
    BY <1>1, <2>1 DEF Answer, Inv, WholeInv, DataWhole
  <2>2. CASE ~mtx /\ Answer({pdin, pdout})
    <3>1. pdout[1] = pdout[2]
      BY <2>2 DEF Inv, WholeInv
    <3> QED BY <1>1, <2>2, <3>1 DEF Answer, Inv, WholeInv, DataWhole
  <2> QED BY <2>1, <2>2 DEF PDIn
<1>3. UNCHANGED <<dl, pdout, pdin, mtx, mtxPdin, wire, sm, cm, pde, app, enabler>>
  BY DEF PDIn, Answer, smVars, appVars
<1>4. TypeInv'
  BY <1>3 DEF Inv, TypeInv
<1>5. WholeInv'
  BY <1>2, <1>3 DEF Inv, WholeInv, DataWhole
<1> QED BY <1>4, <1>5 DEF Inv

-----------------------------------------------------------------------------
LEMMA NextInv == ASSUME Inv, [Next]_vars PROVE Inv'
<1>1. CASE DlThread
  BY <1>1, PD_reqInv, OdStepsInv, SendInv, Reply16Inv, InputsDoneInv, Reply9Inv,
     EstablishInv, GotoOperateInv, GotoIdleInv, ModeIgnoredInv DEF DlThread
<1>2. CASE MainThread
  BY <1>2, DevicemodeInv, ModeIndInv, SmOperateReqInv, DevmodeCnfInv, SetPortCfgInv, ManagerInv
     DEF MainThread
<1>3. CASE AppCall
  BY <1>3, SetOutputInv, OutputSetInv, ControlReqInv, ControlCmdInv DEF AppCall
<1>4. CASE \E oe \in BOOLEAN : PDOut(oe)
  BY <1>4, PDOutInv
<1>5. CASE PreoperateMessage \/ PDIn \/ MessageLost
  BY <1>5, OdStepsInv, PDInInv, MessageLostInv
<1>6. CASE InputsChange \/ \E mode \in {"INACTIVE", "CFGCOM"} : Configure(mode)
  BY <1>6, AsideInv
<1>7. CASE UNCHANGED vars
  BY <1>7, Typed, MainGoes DEF vars, dataVars
<1> QED BY <1>1, <1>2, <1>3, <1>4, <1>5, <1>6, <1>7 DEF Next

LEMMA Invariance == Spec => []Inv
<1>1. Inv /\ [Next]_vars => Inv'
  BY NextInv
<1> QED BY <1>1, InitInv, PTL DEF Spec

(* Every variable keeps its type: the handlers of the data link layer (dl_ *)
(* main, DL_Control_req, DL_Write_Devicemode_req), which three threads     *)
(* call, leave each other's record in a state of the tables whatever the   *)
(* order of their steps.                                                   *)
THEOREM TypeCorrect == Spec => []TypeOK
<1>1. Inv => TypeOK
  BY DEF Inv, TypeInv, TypeOK, DlRecord, AppRecord, Threads, OdStates, ChStates, Controls,
         Codes, SmStates, CmStates
<1> QED BY <1>1, Invariance, PTL

(* What PDIn and PDInOut answer and what a message carries is never pieced *)
(* together of two (pde_SMI_PDIn_req, pde_SMI_PDOut_req, PD_req and        *)
(* DL_PDInputTransport_ind under the two mutexes).                         *)
THEOREM Whole == Spec => []DataWhole
<1>1. Inv => DataWhole
  BY DEF Inv, WholeInv
<1> QED BY <1>1, Invariance, PTL

-----------------------------------------------------------------------------
(* The jobs for the main thread. *)
Types == {"MODE", "CONTROL", "CNF", "OPERATE", "SM_CFG", "CFG", "PORT"}
Args  == BOOLEAN \cup {"", "ok", "INACTIVE", "STARTUP", "PREOPERATE", "OPERATE", "COMLOST",
                       "CFGCOM"}
Jobs  == [type : Types, arg : Args]

At(i, type, arg)   == mbox[i].type = type /\ mbox[i].arg = arg
Has(type, arg)     == \E i \in 1 .. Len(mbox) : At(i, type, arg)
Once(type, arg)    == \A i, j \in 1 .. Len(mbox) : At(i, type, arg) /\ At(j, type, arg) => i = j
Configures(i)      == mbox[i].type \in {"CFG", "SM_CFG"}
StartsAt(i)        == Configures(i) /\ mbox[i].arg = "CFGCOM"
Starts             == Has("CFG", "CFGCOM") \/ Has("SM_CFG", "CFGCOM")
OnlyStartModes     == \A i \in 1 .. Len(mbox) :
                         mbox[i].type = "MODE" => mbox[i].arg \in {"STARTUP", "PREOPERATE"}

(* The DL reports each mode of a start once, one configuration is under    *)
(* way at a time, and what is behind one that starts the port is not the   *)
(* end of an earlier start.                                                *)
QueueInv ==
    /\ Once("MODE", "STARTUP") /\ Once("MODE", "PREOPERATE")
    /\ \A i, j \in 1 .. Len(mbox) : Configures(i) /\ Configures(j) => i = j
    /\ \A i, j \in 1 .. Len(mbox) : i < j /\ StartsAt(i) => ~At(j, "PORT", "OPERATE")

(* A step takes the first job, if shift is 1, and adds new ones.           *)
Gain(shift, news) ==
    \A i \in 1 .. Len(mbox') :
        \/ i + shift <= Len(mbox) /\ mbox'[i] = mbox[i + shift]
        \/ i + shift > Len(mbox) /\ mbox'[i] \in news

Plain(job) ==
    /\ job.type \notin {"CFG", "SM_CFG"}
    /\ ~(job.type = "MODE" /\ job.arg \in {"STARTUP", "PREOPERATE"})
    /\ ~(job.type = "PORT" /\ job.arg = "OPERATE")

LEMMA QueueKept ==
    ASSUME mbox \in Seq(Jobs), mbox' \in Seq(Jobs), NEW shift \in {0, 1}, NEW news,
           Gain(shift, news), \A n \in news : Plain(n), QueueInv
    PROVE  QueueInv'
<1>1. Len(mbox) \in Nat /\ Len(mbox') \in Nat
  OBVIOUS
<1>2. \A i \in 1 .. Len(mbox') :
         \/ i + shift \in 1 .. Len(mbox) /\ mbox'[i] = mbox[i + shift]
         \/ i + shift > Len(mbox) /\ Plain(mbox'[i])
  BY <1>1 DEF Gain
<1>3. ASSUME NEW arg \in {"STARTUP", "PREOPERATE"},
             NEW i \in 1 .. Len(mbox'), NEW j \in 1 .. Len(mbox'),
             mbox'[i].type = "MODE", mbox'[i].arg = arg,
             mbox'[j].type = "MODE", mbox'[j].arg = arg
      PROVE  i = j
  <2>1. /\ i + shift \in 1 .. Len(mbox) /\ mbox'[i] = mbox[i + shift]
        /\ j + shift \in 1 .. Len(mbox) /\ mbox'[j] = mbox[j + shift]
    BY <1>2, <1>3 DEF Plain
  <2>2. At(i + shift, "MODE", arg) /\ At(j + shift, "MODE", arg)
    BY <1>3, <2>1 DEF At
  <2>3. i + shift = j + shift
    BY <2>1, <2>2 DEF QueueInv, Once
  <2> QED BY <1>1, <2>3
<1>6. Once("MODE", "STARTUP")' /\ Once("MODE", "PREOPERATE")'
  BY <1>3 DEF Once, At
<1>4. (\A i, j \in 1 .. Len(mbox) : Configures(i) /\ Configures(j) => i = j)'
  <2> SUFFICES ASSUME NEW i \in 1 .. Len(mbox'), NEW j \in 1 .. Len(mbox'),
                      Configures(i)', Configures(j)'
               PROVE  i = j
    OBVIOUS
  <2>1. /\ i + shift \in 1 .. Len(mbox) /\ mbox'[i] = mbox[i + shift]
        /\ j + shift \in 1 .. Len(mbox) /\ mbox'[j] = mbox[j + shift]
    BY <1>2 DEF Configures, Plain
  <2>2. Configures(i + shift) /\ Configures(j + shift)
    BY <2>1 DEF Configures
  <2>3. i + shift = j + shift
    BY <2>1, <2>2 DEF QueueInv
  <2> QED BY <1>1, <2>3
<1>5. (\A i, j \in 1 .. Len(mbox) : i < j /\ StartsAt(i) => ~At(j, "PORT", "OPERATE"))'
  <2> SUFFICES ASSUME NEW i \in 1 .. Len(mbox'), NEW j \in 1 .. Len(mbox'), i < j,
                      StartsAt(i)', At(j, "PORT", "OPERATE")'
               PROVE  FALSE
    OBVIOUS
  <2>1. i + shift \in 1 .. Len(mbox) /\ mbox'[i] = mbox[i + shift]
    BY <1>2 DEF StartsAt, Configures, Plain
  <2>2. j + shift \in 1 .. Len(mbox) /\ mbox'[j] = mbox[j + shift]
    BY <1>2 DEF At, Plain
  <2>3. i + shift < j + shift
    BY <1>1
  <2>4. StartsAt(i + shift) /\ At(j + shift, "PORT", "OPERATE")
    BY <2>1, <2>2 DEF StartsAt, Configures, At
  <2> QED BY <2>1, <2>2, <2>3, <2>4 DEF QueueInv
<1> QED BY <1>4, <1>5, <1>6 DEF QueueInv

(* Where the jobs come from.                                               *)
LEMMA Grows ==
    ASSUME mbox \in Seq(Jobs), NEW jobs \in Seq(Jobs), mbox' = mbox \o jobs
    PROVE  /\ mbox' \in Seq(Jobs)
           /\ Gain(0, {jobs[k] : k \in 1 .. Len(jobs)})
<1>1. Len(mbox) \in Nat /\ Len(jobs) \in Nat /\ Len(mbox') = Len(mbox) + Len(jobs)
      /\ mbox' \in Seq(Jobs)
  OBVIOUS
<1>2. ASSUME NEW i \in 1 .. Len(mbox')
      PROVE  \/ i + 0 <= Len(mbox) /\ mbox'[i] = mbox[i + 0]
             \/ i + 0 > Len(mbox) /\ mbox'[i] \in {jobs[k] : k \in 1 .. Len(jobs)}
  <2>1. CASE i <= Len(mbox)
    BY <1>1, <2>1
  <2>2. CASE i > Len(mbox)
    <3>1. i - Len(mbox) \in 1 .. Len(jobs) /\ mbox'[i] = jobs[i - Len(mbox)]
      BY <1>1, <2>2
    <3> QED BY <1>1, <2>2, <3>1
  <2>3. i <= Len(mbox) \/ i > Len(mbox)
    BY <1>1
  <2> QED BY <2>1, <2>2, <2>3
<1> QED BY <1>1, <1>2 DEF Gain

LEMMA Takes ==
    ASSUME mbox \in Seq(Jobs), mbox # <<>>, NEW jobs \in Seq(Jobs), mbox' = Tail(mbox) \o jobs
    PROVE  /\ mbox' \in Seq(Jobs)
           /\ Gain(1, {jobs[k] : k \in 1 .. Len(jobs)})
<1>1. /\ Len(mbox) \in Nat \ {0} /\ Len(jobs) \in Nat /\ Tail(mbox) \in Seq(Jobs)
      /\ Len(Tail(mbox)) = Len(mbox) - 1
      /\ \A i \in 1 .. Len(mbox) - 1 : Tail(mbox)[i] = mbox[i + 1]
  OBVIOUS
<1> DEFINE t == Tail(mbox)
<1> HIDE DEF t
<1>2. t \in Seq(Jobs) /\ Len(t) = Len(mbox) - 1 /\ mbox' = t \o jobs
      /\ \A i \in 1 .. Len(mbox) - 1 : t[i] = mbox[i + 1]
  BY <1>1 DEF t
<1>3. mbox' \in Seq(Jobs) /\ Len(mbox') = Len(t) + Len(jobs)
  BY <1>1, <1>2
<1>4. ASSUME NEW i \in 1 .. Len(mbox')
      PROVE  \/ i + 1 <= Len(mbox) /\ mbox'[i] = mbox[i + 1]
             \/ i + 1 > Len(mbox) /\ mbox'[i] \in {jobs[k] : k \in 1 .. Len(jobs)}
  <2>1. CASE i <= Len(t)
    <3>1. mbox'[i] = t[i] /\ i \in 1 .. Len(mbox) - 1
      BY <1>1, <1>2, <2>1
    <3> QED BY <1>1, <1>2, <3>1
  <2>2. CASE i > Len(t)
    <3>1. i - Len(t) \in 1 .. Len(jobs)
      BY <1>1, <1>2, <1>3, <2>2
    <3>2. mbox'[i] = jobs[i - Len(t)]
      BY <1>1, <1>2, <1>3, <2>2, <3>1
    <3>3. i + 1 > Len(mbox)
      BY <1>1, <1>2, <2>2
    <3> QED BY <3>1, <3>2, <3>3
  <2>3. i <= Len(t) \/ i > Len(t)
    BY <1>2
  <2> QED BY <2>1, <2>2, <2>3
<1> QED BY <1>3, <1>4 DEF Gain

-----------------------------------------------------------------------------
(* What the invariant says of waiting jobs.                                *)
StartupTold    == Has("MODE", "STARTUP")
PreoperateTold == Has("MODE", "PREOPERATE")
ModeTold       == Waiting({"MODE"})
Confirmed      == Waiting({"CNF"})
OperateTold    == Has("PORT", "OPERATE")
CfgStarts      == Has("CFG", "CFGCOM")
SmStarts       == Has("SM_CFG", "CFGCOM")
SmStops        == Has("SM_CFG", "INACTIVE")

Told ==
    /\ StartupTold \/ PreoperateTold => ModeTold
    /\ SmStarts \/ SmStops \/ CfgStarts => ~NoConfiguration
    /\ ~ModeTold => OnlyStartModes
LEMMA ToldHolds == Told
  BY DEF Told, StartupTold, PreoperateTold, ModeTold, CfgStarts, SmStarts, SmStops,
         NoConfiguration, OnlyStartModes, Has, At, Waiting

(* What a step that adds these jobs may make true.                         *)
Adds(news) ==
    /\ StartupTold' => StartupTold \/ \E n \in news : n.type = "MODE" /\ n.arg = "STARTUP"
    /\ PreoperateTold' => PreoperateTold \/ \E n \in news : n.type = "MODE" /\ n.arg = "PREOPERATE"
    /\ ModeTold' => ModeTold \/ \E n \in news : n.type = "MODE"
    /\ Confirmed' => Confirmed \/ \E n \in news : n.type = "CNF"
    /\ OperateTold' => OperateTold \/ \E n \in news : n.type = "PORT" /\ n.arg = "OPERATE"
    /\ CfgStarts' => CfgStarts \/ \E n \in news : n.type = "CFG" /\ n.arg = "CFGCOM"
    /\ SmStarts' => SmStarts \/ \E n \in news : n.type = "SM_CFG" /\ n.arg = "CFGCOM"
    /\ SmStops' => SmStops \/ \E n \in news : n.type = "SM_CFG" /\ n.arg = "INACTIVE"
    /\ ~NoConfiguration' => ~NoConfiguration \/ \E n \in news : n.type \in {"CFG", "SM_CFG"}
    /\ OnlyStartModes => OnlyStartModes' \/ \E n \in news : n.type = "MODE"

LEMMA GainAdds ==
    ASSUME mbox \in Seq(Jobs), mbox' \in Seq(Jobs), NEW shift \in {0, 1}, NEW news,
           Gain(shift, news)
    PROVE  Adds(news)
<1>1. Len(mbox) \in Nat /\ Len(mbox') \in Nat
  OBVIOUS
<1>2. \A i \in 1 .. Len(mbox') :
         \/ i + shift \in 1 .. Len(mbox) /\ mbox'[i] = mbox[i + shift]
         \/ i + shift > Len(mbox) /\ mbox'[i] \in news
  BY <1>1 DEF Gain
<1>5. OnlyStartModes => OnlyStartModes' \/ \E n \in news : n.type = "MODE"
  BY <1>2 DEF OnlyStartModes
<1>6. /\ StartupTold' => StartupTold \/ \E n \in news : n.type = "MODE" /\ n.arg = "STARTUP"
      /\ PreoperateTold' =>
           PreoperateTold \/ \E n \in news : n.type = "MODE" /\ n.arg = "PREOPERATE"
      /\ OperateTold' => OperateTold \/ \E n \in news : n.type = "PORT" /\ n.arg = "OPERATE"
  BY <1>2 DEF StartupTold, PreoperateTold, OperateTold, Has, At
<1>7. /\ CfgStarts' => CfgStarts \/ \E n \in news : n.type = "CFG" /\ n.arg = "CFGCOM"
      /\ SmStarts' => SmStarts \/ \E n \in news : n.type = "SM_CFG" /\ n.arg = "CFGCOM"
      /\ SmStops' => SmStops \/ \E n \in news : n.type = "SM_CFG" /\ n.arg = "INACTIVE"
  BY <1>2 DEF CfgStarts, SmStarts, SmStops, Has, At
<1>8. /\ ModeTold' => ModeTold \/ \E n \in news : n.type = "MODE"
      /\ Confirmed' => Confirmed \/ \E n \in news : n.type = "CNF"
  BY <1>2 DEF ModeTold, Confirmed, Waiting
<1>9. ~NoConfiguration' => ~NoConfiguration \/ \E n \in news : n.type \in {"CFG", "SM_CFG"}
  BY <1>2 DEF NoConfiguration, Waiting
<1> QED BY <1>5, <1>6, <1>7, <1>8, <1>9 DEF Adds

-----------------------------------------------------------------------------
(* The invariant.                                                          *)
BaseInv ==
    /\ mbox \in Seq(Jobs)
    /\ device \in [valid : BOOLEAN, inputs : BOOLEAN, fallback : BOOLEAN]
    /\ main \in {"job", "code", "cmd"}
    /\ dl.posts = <<>>

(* A call of the command handler that is open set what the command handler *)
(* has not yet seen, and nobody else uses it.                              *)
CallInv ==
    /\ app.pc = "cmd" =>
          /\ main = "job" /\ dl.od # "COMMAND"
          /\ dl.code = IF app.oe THEN "PDOUTVALID" ELSE "PDOUTINVALID"
    /\ main = "code" => dl.code = "NONE" /\ dl.od # "COMMAND"
    /\ main = "cmd" => dl.code = "DEVICEMODE" /\ dl.od # "COMMAND"
    /\ main # "job" =>
          \/ sm = "wait_devmode_cnf" /\ dl.command = "DEVICE_OPERATE"
          \/ sm = "waitForFallback" /\ dl.command = "FALLBACK"
    /\ app.pc = "control" => pde.oe # app.oe
    /\ ~pde.active => app.pc = "idle"
    /\ pde.active => cm \in {"Port_Active", "CheckPortMode"}

(* The two handlers of on-request data agree on what is being sent.        *)
HandlersInv ==
    /\ dl.comlost => dl.mdh = "OPERATE" /\ dl.pc = "idle"
    /\ dl.mdh = "IDLE" => dl.pc = "idle" /\ dl.od \in {"INACTIVE", "COMMAND"}
    /\ dl.mdh # "IDLE" =>
          /\ dl.chActive /\ dl.od # "INACTIVE"
          /\ dl.od = "COMMAND" => dl.code = "NONE" /\ ~CallOpen
          /\ dl.code = "NONE" \/ CallOpen => dl.cmdh = "IDLE"
          /\ dl.code # "NONE" /\ ~CallOpen => dl.cmdh = "MASTERCOMMAND"
          /\ dl.code = "PDOUTVALID" /\ ~CallOpen => dl.command = "PD_OUT_OP"
          /\ dl.code = "PDOUTINVALID" /\ ~CallOpen => dl.command = "DEVICE_OPERATE"
          /\ dl.code = "DEVICEMODE" => dl.command \in DeviceModes
    /\ dl.mdh # "IDLE" /\ ~dl.comlost =>
          /\ dl.od = "COMMAND" => dl.pc \in {"send", "wait", "pdin", "reply"}
          /\ dl.pc = "send" => dl.txOd = IF dl.od = "COMMAND" THEN dl.command ELSE "isdu"
          /\ dl.pc = "wait" => wire.od = IF dl.od = "COMMAND" THEN dl.command ELSE "isdu"

(* Nothing of an earlier operation is left.                                *)
Clean == dl.code = "NONE" /\ dl.od # "COMMAND" /\ main = "job" /\ ~Confirmed

StartInv ==
    /\ dl.mode = "STARTUP" =>
          /\ dl.mdh # "OPERATE" /\ ~pde.active /\ OnlyStartModes /\ ~OperateTold
          /\ dl.mdh = "IDLE" => dl.mdhEvent /\ sm = "PortInactive" /\ ~ModeTold
          /\ sm \in {"PortInactive", "waitonDLPreoperate", "wait", "wait_devmode_cnf"}
          /\ sm # "wait_devmode_cnf" => Clean
    /\ StartupTold => dl.mode = "STARTUP" /\ sm = "PortInactive"
    /\ PreoperateTold => dl.mode = "STARTUP" /\ sm \in {"PortInactive", "waitonDLPreoperate"}
    /\ sm \in {"waitonDLPreoperate", "wait", "wait_devmode_cnf"} => dl.mode = "STARTUP"

(* While the configuration changes.                                        *)
ConfigInv ==
    /\ ~NoConfiguration =>
          /\ sm \in {"SMOperate", "PortInactive"} /\ dl.mode # "STARTUP"
          /\ Clean /\ app.pc = "idle"
    /\ CfgStarts \/ SmStarts => sm = "PortInactive" /\ dl.mdh = "IDLE" /\ ~ModeTold
    /\ SmStarts => ~pde.active /\ ~OperateTold
    /\ SmStops => cm = "Deactivated"
    /\ sm = "waitForFallback" => cm = "Deactivated"

(* A device whose outputs are valid was told so by the last request, and   *)
(* what is sent to it is as new.                                           *)
ValidInv ==
    /\ cm = "Startup" /\ dl.mdh # "IDLE" =>
          /\ ~device.valid /\ dl.code \notin {"PDOUTVALID", "PDOUTINVALID"}
          /\ ~(dl.od = "COMMAND" /\ dl.command = "PD_OUT_OP")
    /\ pde.active /\ dl.mdh # "IDLE" =>
          /\ dl.code = "PDOUTVALID" \/ (dl.od = "COMMAND" /\ dl.command = "PD_OUT_OP")
                => pde.oe \/ app.pc = "cmd"
          /\ device.valid /\ ~dl.comlost =>
                \/ pde.oe \/ app.pc = "cmd" \/ dl.code = "PDOUTINVALID"
                \/ dl.od = "COMMAND" /\ dl.pc \in {"send", "wait"} /\ dl.command = "DEVICE_OPERATE"

FreshInv ==
    /\ enabler <= pdout[1] /\ pdout[1] <= app.no
    /\ app.pc \in {"copy", "control", "cmd"} => pdout[1] = app.no
    /\ dl.mdh = "OPERATE" /\ dl.pc \in {"od", "send"} /\ device.valid => dl.txOut[1] >= enabler

(* The fallback is confirmed by what the device did.                       *)
FallbackInv ==
    sm = "waitForFallback" =>
       /\ dl.code # "NONE" \/ dl.od = "COMMAND" => dl.command = "FALLBACK"
       /\ dl.mdh # "IDLE" /\ ~dl.comlost /\ dl.od = "COMMAND" /\ dl.pc \in {"pdin", "reply"}
             => device.fallback
       /\ Confirmed => device.fallback

OrderInv ==
    /\ Inv /\ BaseInv /\ QueueInv /\ CallInv /\ HandlersInv /\ StartInv /\ ConfigInv
    /\ ValidInv /\ FreshInv /\ FallbackInv

-----------------------------------------------------------------------------
(* The handlers of on-request data.                                        *)

(* What no handler of on-request data changes.                             *)
Frame(d, e) ==
    /\ e \in DlRecord
    /\ e.mdh = d.mdh /\ e.mode = d.mode /\ e.comlost = d.comlost /\ e.mdhEvent = d.mdhEvent
    /\ e.txOut = d.txOut

LEMMA Triggered ==
    ASSUME NEW d \in DlRecord, NEW trigger \in {"MASTER", "DEVICE"}, NEW t,
           t = [d EXCEPT !.trigger = trigger]
    PROVE  /\ t.od = d.od /\ t.code = d.code /\ t.cmdh = d.cmdh /\ t.trigger = trigger
           /\ t.command = d.command /\ t.posts = d.posts /\ t.txOd = d.txOd
           /\ t.chActive = d.chActive /\ Frame(d, t)
  BY Values DEF DlRecord, Frame

LEMMA CommandBegins ==
    ASSUME NEW d \in DlRecord, d.od = "ISDU", d.code # "NONE", d.cmdh = "MASTERCOMMAND",
           NEW e, e = Od(d, "MASTER")
    PROVE  /\ Frame(d, e)
           /\ e.od = "COMMAND" /\ e.code = "NONE" /\ e.cmdh = "IDLE" /\ e.command = d.command
           /\ e.txOd = d.command /\ e.posts = d.posts /\ e.chActive = d.chActive
<1> DEFINE t == [d EXCEPT !.trigger = "MASTER"]
<1>1. /\ t.od = d.od /\ t.code = d.code /\ t.cmdh = d.cmdh /\ t.trigger = "MASTER"
      /\ t.command = d.command /\ t.posts = d.posts /\ t.txOd = d.txOd
      /\ t.chActive = d.chActive /\ Frame(d, t)
  BY Triggered
<1>2. e \in DlRecord /\ e = OdHandler(t)
  BY OdType DEF Handled, Od
<1> HIDE DEF t
<1>3. OdHandler(t) = [CmdHandler(t) EXCEPT !.od = "COMMAND"]
  BY <1>1 DEF OdHandler, OdIsdu
<1>4. CmdHandler(t) = [[t EXCEPT !.txOd = t.command] EXCEPT !.code = "NONE", !.cmdh = "IDLE"]
  BY <1>1 DEF CmdHandler, Od_req
<1>5. t \in DlRecord /\ e = [[[t EXCEPT !.txOd = t.command] EXCEPT !.code = "NONE", !.cmdh = "IDLE"]
                               EXCEPT !.od = "COMMAND"]
  BY <1>1, <1>2, <1>3, <1>4 DEF Frame
<1>6. /\ e.mdh = t.mdh /\ e.mode = t.mode /\ e.comlost = t.comlost /\ e.mdhEvent = t.mdhEvent
      /\ e.txOut = t.txOut /\ e.posts = t.posts /\ e.chActive = t.chActive
      /\ e.command = t.command
  BY <1>5 DEF DlRecord
<1>7. e.od = "COMMAND" /\ e.code = "NONE" /\ e.cmdh = "IDLE" /\ e.txOd = t.command
  BY <1>5 DEF DlRecord
<1> QED BY <1>1, <1>2, <1>6, <1>7 DEF Frame

LEMMA OtherBegins ==
    ASSUME NEW d \in DlRecord, d.od = "ISDU", d.code = "NONE", NEW e, e = Od(d, "MASTER")
    PROVE  /\ Frame(d, e)
           /\ e.od = "ISDU" /\ e.code = "NONE" /\ e.cmdh = d.cmdh /\ e.command = d.command
           /\ e.txOd = "isdu" /\ e.posts = d.posts /\ e.chActive = d.chActive
<1> DEFINE t == [d EXCEPT !.trigger = "MASTER"]
<1>1. /\ t.od = d.od /\ t.code = d.code /\ t.cmdh = d.cmdh /\ t.trigger = "MASTER"
      /\ t.command = d.command /\ t.posts = d.posts /\ t.txOd = d.txOd
      /\ t.chActive = d.chActive /\ Frame(d, t)
  BY Triggered
<1>2. e \in DlRecord /\ e = OdHandler(t)
  BY OdType DEF Handled, Od
<1> HIDE DEF t
<1>3. OdHandler(t) = [[t EXCEPT !.txOd = "isdu"] EXCEPT !.trigger = "NONE"]
  BY <1>1 DEF OdHandler, OdIsdu, Od_req
<1>4. t \in DlRecord /\ e = [[t EXCEPT !.txOd = "isdu"] EXCEPT !.trigger = "NONE"]
  BY <1>1, <1>2, <1>3 DEF Frame
<1>5. /\ e.mdh = t.mdh /\ e.mode = t.mode /\ e.comlost = t.comlost /\ e.mdhEvent = t.mdhEvent
      /\ e.txOut = t.txOut /\ e.posts = t.posts /\ e.chActive = t.chActive
      /\ e.command = t.command /\ e.od = t.od /\ e.code = t.code /\ e.cmdh = t.cmdh
      /\ e.txOd = "isdu"
  BY <1>4 DEF DlRecord
<1> QED BY <1>1, <1>2, <1>5 DEF Frame

LEMMA CommandEnds ==
    ASSUME NEW d \in DlRecord, d.od = "COMMAND", d.code = "NONE", d.posts = <<>>,
           NEW e, e = Od(d, "DEVICE")
    PROVE  /\ Frame(d, e)
           /\ e.od = "ISDU" /\ e.code = "NONE" /\ e.cmdh = d.cmdh /\ e.command = "NONE"
           /\ e.txOd = d.txOd /\ e.chActive = d.chActive
           /\ e.posts = IF d.command \in DeviceModes THEN <<Job("CNF", "ok")>> ELSE <<>>
<1> DEFINE t == [d EXCEPT !.trigger = "DEVICE"]
           posts == IF d.command \in DeviceModes THEN <<Job("CNF", "ok")>> ELSE <<>>
<1>1. /\ t.od = d.od /\ t.code = d.code /\ t.cmdh = d.cmdh /\ t.trigger = "DEVICE"
      /\ t.command = d.command /\ t.posts = d.posts /\ t.txOd = d.txOd
      /\ t.chActive = d.chActive /\ Frame(d, t)
  BY Triggered
<1>2. e \in DlRecord /\ e = OdHandler(t)
  BY OdType DEF Handled, Od
<1> HIDE DEF t
<1>3. OdHandler(t) = [WriteMasterCommand(t) EXCEPT !.trigger = "NONE", !.od = "ISDU"]
  BY <1>1 DEF OdHandler, OdCommand
<1>4. WriteMasterCommand(t) = [t EXCEPT !.command = "NONE", !.posts = posts]
  BY <1>1 DEF WriteMasterCommand
<1> HIDE DEF posts
<1>5. t \in DlRecord /\ e = [[t EXCEPT !.command = "NONE", !.posts = posts]
                               EXCEPT !.trigger = "NONE", !.od = "ISDU"]
  BY <1>1, <1>2, <1>3, <1>4 DEF Frame
<1>6. /\ e.mdh = t.mdh /\ e.mode = t.mode /\ e.comlost = t.comlost /\ e.mdhEvent = t.mdhEvent
      /\ e.txOut = t.txOut /\ e.posts = posts /\ e.chActive = t.chActive
      /\ e.command = "NONE" /\ e.od = "ISDU" /\ e.code = t.code /\ e.cmdh = t.cmdh
      /\ e.txOd = t.txOd
  BY <1>5 DEF DlRecord
<1> QED BY <1>1, <1>2, <1>6 DEF Frame, posts

LEMMA OtherEnds ==
    ASSUME NEW d \in DlRecord, d.od = "ISDU", NEW e, e = Od(d, "DEVICE")
    PROVE  /\ Frame(d, e)
           /\ e.od = "ISDU" /\ e.code = d.code /\ e.cmdh = d.cmdh /\ e.command = d.command
           /\ e.txOd = d.txOd /\ e.posts = d.posts /\ e.chActive = d.chActive
<1> DEFINE t == [d EXCEPT !.trigger = "DEVICE"]
<1>1. /\ t.od = d.od /\ t.code = d.code /\ t.cmdh = d.cmdh /\ t.trigger = "DEVICE"
      /\ t.command = d.command /\ t.posts = d.posts /\ t.txOd = d.txOd
      /\ t.chActive = d.chActive /\ Frame(d, t)
  BY Triggered
<1>2. e \in DlRecord /\ e = OdHandler(t)
  BY OdType DEF Handled, Od
<1> HIDE DEF t
<1>3. OdHandler(t) = [t EXCEPT !.trigger = "NONE"]
  BY <1>1 DEF OdHandler, OdIsdu
<1>4. t \in DlRecord /\ e = [t EXCEPT !.trigger = "NONE"]
  BY <1>1, <1>2, <1>3 DEF Frame
<1>5. /\ e.mdh = t.mdh /\ e.mode = t.mode /\ e.comlost = t.comlost /\ e.mdhEvent = t.mdhEvent
      /\ e.txOut = t.txOut /\ e.posts = t.posts /\ e.chActive = t.chActive
      /\ e.command = t.command /\ e.od = t.od /\ e.code = t.code /\ e.cmdh = t.cmdh
      /\ e.txOd = t.txOd
  BY <1>4 DEF DlRecord
<1> QED BY <1>1, <1>2, <1>5 DEF Frame

(* The same call of the command handler.                                   *)
Call(d, e) ==
    /\ e.od = d.od /\ e.code = d.code /\ e.cmdh = d.cmdh /\ e.command = d.command
    /\ e.txOd = d.txOd /\ e.chActive = d.chActive

LEMMA PcGoes ==
    ASSUME NEW d \in DlRecord, NEW pc \in Threads, NEW e, e = [d EXCEPT !.pc = pc]
    PROVE  Frame(d, e) /\ Call(d, e) /\ e.pc = pc /\ e.posts = d.posts
  BY DEF DlRecord, Frame, Call

LEMMA PostsEmptied ==
    ASSUME NEW d \in DlRecord, NEW e, e = [d EXCEPT !.posts = <<>>]
    PROVE  Frame(d, e) /\ Call(d, e) /\ e.pc = d.pc /\ e.posts = <<>>
  BY Values DEF DlRecord, Frame, Call

(* Nothing the invariant speaks of is new among the jobs.                  *)
Quiet ==
    /\ StartupTold' => StartupTold
    /\ PreoperateTold' => PreoperateTold
    /\ ModeTold' => ModeTold
    /\ OperateTold' => OperateTold
    /\ CfgStarts' => CfgStarts
    /\ SmStarts' => SmStarts
    /\ SmStops' => SmStops
    /\ ~NoConfiguration' => ~NoConfiguration
    /\ OnlyStartModes => OnlyStartModes'
    /\ mbox' \in Seq(Jobs) /\ QueueInv'

LEMMA Silent ==
    ASSUME OrderInv, NEW d \in DlRecord, DlStep(d, <<>>), d.posts = <<>>
    PROVE  /\ Frame(d, dl') /\ Call(d, dl') /\ dl'.pc = d.pc /\ dl'.posts = <<>>
           /\ Quiet /\ (Confirmed' => Confirmed)
<1>1. mbox \in Seq(Jobs) /\ QueueInv
  BY DEF OrderInv, BaseInv
<1>2. dl' = [d EXCEPT !.posts = <<>>] /\ mbox' = mbox \o <<>>
  BY <1>1 DEF DlStep
<1>3. mbox' = mbox
  BY <1>1, <1>2
<1>4. Frame(d, dl') /\ Call(d, dl') /\ dl'.pc = d.pc /\ dl'.posts = <<>>
  BY <1>2, PostsEmptied
<1>5. Gain(0, {})
  BY <1>1, <1>3 DEF Gain
<1>6. Adds({}) /\ QueueInv'
  BY <1>1, <1>3, <1>5, GainAdds, QueueKept
<1> QED BY <1>1, <1>3, <1>4, <1>6 DEF Adds, Quiet

(* The jobs a handler posts for what it received.                          *)
Reports == {Job("CNF", "ok"), Job("CONTROL", TRUE), Job("CONTROL", FALSE)}
LEMMA ReportsPlain == Reports \subseteq Jobs /\ \A n \in Reports : Plain(n)
  BY DEF Reports, Job, Jobs, Types, Args, Plain

LEMMA Posting1 ==
    ASSUME OrderInv, NEW job \in Jobs, mbox' = mbox \o <<job>>
    PROVE  mbox' \in Seq(Jobs) /\ Gain(0, {job}) /\ Adds({job})
<1>1. mbox \in Seq(Jobs)
  BY DEF OrderInv, BaseInv
<1>2. <<job>> \in Seq(Jobs) /\ {(<<job>>)[k] : k \in 1 .. Len(<<job>>)} = {job}
  OBVIOUS
<1>3. mbox' \in Seq(Jobs) /\ Gain(0, {job})
  BY <1>1, <1>2, Grows
<1> QED BY <1>1, <1>3, GainAdds

LEMMA Reported ==
    ASSUME OrderInv, NEW job \in Reports, mbox' = mbox \o <<job>>
    PROVE  Quiet /\ (Confirmed' => Confirmed \/ job = Job("CNF", "ok"))
<1>1. job \in Jobs /\ Plain(job) /\ dl \in DlRecord /\ QueueInv /\ mbox \in Seq(Jobs)
  BY ReportsPlain DEF OrderInv, Inv, TypeInv, BaseInv
<1>2. mbox' \in Seq(Jobs) /\ Gain(0, {job}) /\ Adds({job})
  BY <1>1, Posting1
<1>3. QueueInv'
  BY <1>1, <1>2, QueueKept
<1> QED BY <1>2, <1>3 DEF Adds, Quiet, Reports, Job

-----------------------------------------------------------------------------
(* The DL thread exchanges a message.                                      *)

LEMMA Ranges ==
    Inv => /\ dl \in DlRecord /\ dl.od \in OdStates /\ dl.pc \in Threads
           /\ dl.code \in Controls /\ dl.cmdh \in ChStates
           /\ dl.mdh \in {"IDLE", "PREOPERATE", "OPERATE"}
           /\ dl.mode \in {"INACTIVE", "STARTUP", "OPERATE"}
           /\ dl.command \in Codes
           /\ {dl.comlost, dl.mdhEvent, dl.chActive} \subseteq BOOLEAN
  BY DEF Inv, TypeInv, DlRecord

(* The DL thread's step leaves the others where they are.                  *)
Alone == UNCHANGED <<main, sm, cm, pde, app, enabler>>

(* The message handler goes on; the handlers of on-request data have       *)
(* nothing to do with it.                                                  *)
LEMMA PD_reqOrder == ASSUME OrderInv, PD_req PROVE OrderInv'
<1> DEFINE d == [dl EXCEPT !.txOut = pdout, !.pc = "od"]
<1>1. Inv /\ Inv' /\ dl \in DlRecord /\ pdout \in Reqs \X Reqs
  BY NextInv DEF OrderInv, Next, DlThread, Inv, TypeInv
<1>2. /\ d \in DlRecord /\ d.mdh = dl.mdh /\ d.mode = dl.mode /\ d.comlost = dl.comlost
      /\ d.mdhEvent = dl.mdhEvent /\ d.txOut = pdout /\ d.pc = "od" /\ d.posts = dl.posts
      /\ Call(dl, d)
  BY <1>1 DEF DlRecord, Call, Threads
<1>3. DlStep(d, <<>>) /\ d.posts = <<>>
  BY <1>2 DEF PD_req, OrderInv, BaseInv
<1> HIDE DEF d
<1>4. /\ dl'.mdh = dl.mdh /\ dl'.mode = dl.mode /\ dl'.comlost = dl.comlost
      /\ dl'.mdhEvent = dl.mdhEvent /\ dl'.txOut = pdout /\ dl'.pc = "od" /\ dl'.posts = <<>>
      /\ Call(dl, dl') /\ Quiet /\ (Confirmed' => Confirmed)
  BY <1>2, <1>3, Silent DEF Frame, Call
<1>5. Alone /\ UNCHANGED <<wire, device, pdout>>
  BY DEF PD_req, Alone, dataVars, smVars, appVars
<1>6. dl.pc = "idle" /\ dl.mdh = "OPERATE" /\ ~dl.comlost
  BY DEF PD_req
<1>7. BaseInv' /\ QueueInv'
  BY <1>4, <1>5 DEF OrderInv, BaseInv, Quiet, Alone
<1>8. CallInv'
  BY <1>4, <1>5 DEF OrderInv, CallInv, Alone, Call
<1>9. HandlersInv'
  BY <1>4, <1>5, <1>6 DEF OrderInv, HandlersInv, Alone, Call, CallOpen
<1>10. StartInv'
  BY <1>4, <1>5 DEF OrderInv, StartInv, Clean, Alone, Call, Quiet
<1>11. ConfigInv'
  BY <1>4, <1>5 DEF OrderInv, ConfigInv, Clean, Alone, Call, Quiet
<1>12. ValidInv'
  BY <1>4, <1>5, <1>6 DEF OrderInv, ValidInv, Alone, Call, HandlersInv
<1>13. FreshInv'
  BY <1>4, <1>5 DEF OrderInv, FreshInv, Alone
<1>14. FallbackInv'
  BY <1>4, <1>5, <1>6 DEF OrderInv, FallbackInv, Alone, Call
<1> QED BY <1>1, <1>7, <1>8, <1>9, <1>10, <1>11, <1>12, <1>13, <1>14 DEF OrderInv

LEMMA PreoperateMessageOrder == ASSUME OrderInv, PreoperateMessage PROVE OrderInv'
<1>1. Inv /\ Inv' /\ dl \in DlRecord
  BY NextInv DEF OrderInv, Next, Inv, TypeInv
<1>2. dl.pc = "idle" /\ dl.mdh = "PREOPERATE"
  BY DEF PreoperateMessage
<1>3. Frame(dl, dl') /\ Call(dl, dl') /\ dl'.pc = "od" /\ dl'.posts = <<>>
      /\ Quiet /\ (Confirmed' => Confirmed)
  <2>1. PICK d : d = [dl EXCEPT !.pc = "od"] /\ DlStep(d, <<>>)
    BY DEF PreoperateMessage
  <2>2. Frame(dl, d) /\ Call(dl, d) /\ d.pc = "od" /\ d.posts = <<>>
    BY <1>1, <2>1, PcGoes DEF Threads, OrderInv, BaseInv
  <2> QED BY <2>1, <2>2, Silent DEF Frame, Call
<1>4. Alone /\ UNCHANGED <<wire, device, pdout>>
  BY DEF PreoperateMessage, Alone, dataVars, smVars, appVars
<1>6. BaseInv' /\ QueueInv'
  BY <1>2, <1>3, <1>4 DEF OrderInv, BaseInv, Quiet, Alone, Call, Frame
<1>7. CallInv'
  BY <1>2, <1>3, <1>4 DEF OrderInv, CallInv, Alone, Call, Frame
<1>8. HandlersInv'
  BY <1>2, <1>3, <1>4 DEF OrderInv, HandlersInv, CallOpen, Alone, Call, Frame
<1>9. StartInv'
  BY <1>2, <1>3, <1>4 DEF OrderInv, StartInv, Clean, Quiet, Alone, Call, Frame
<1>10. ConfigInv'
  BY <1>2, <1>3, <1>4 DEF OrderInv, ConfigInv, Clean, Quiet, Alone, Call, Frame
<1>11. ValidInv'
  BY <1>2, <1>3, <1>4 DEF OrderInv, ValidInv, HandlersInv, Alone, Call, Frame
<1>12. FreshInv'
  BY <1>2, <1>3, <1>4 DEF OrderInv, FreshInv, Alone, Call, Frame
<1>13. FallbackInv'
  BY <1>2, <1>3, <1>4 DEF OrderInv, FallbackInv, Alone, Call, Frame
<1> QED BY <1>1, <1>6, <1>7, <1>8, <1>9, <1>10, <1>11, <1>12, <1>13 DEF OrderInv

(* The command that was set is sent, by the command handler, or other data. *)
LEMMA OdRequestOrder == ASSUME OrderInv, Orderly, OdRequest PROVE OrderInv'
<1>1. Inv /\ Inv' /\ dl \in DlRecord
  BY NextInv DEF OrderInv, Next, DlThread, Inv, TypeInv
<1>2. dl.pc = "od" /\ ~CallOpen /\ dl.mdh # "IDLE" /\ ~dl.comlost
  BY DEF OdRequest, Undisturbed, OrderInv, HandlersInv
<1>3. dl.od = "ISDU" /\ (dl.code # "NONE" => dl.cmdh = "MASTERCOMMAND") /\ dl.posts = <<>>
  BY <1>1, <1>2, Ranges DEF OrderInv, HandlersInv, OdStates, BaseInv
<1> DEFINE e == Od(dl, "MASTER")
           d == [e EXCEPT !.pc = "send"]
<1>4. /\ Frame(dl, e) /\ e.posts = <<>> /\ e.code = "NONE"
      /\ e.command = dl.command /\ e.chActive = dl.chActive
      /\ \/ dl.code # "NONE" /\ e.od = "COMMAND" /\ e.cmdh = "IDLE" /\ e.txOd = dl.command
         \/ dl.code = "NONE" /\ e.od = "ISDU" /\ e.cmdh = dl.cmdh /\ e.txOd = "isdu"
  BY <1>1, <1>3, CommandBegins, OtherBegins
<1>5. /\ Frame(dl, dl') /\ dl'.pc = "send" /\ dl'.posts = <<>> /\ dl'.code = "NONE"
      /\ dl'.command = dl.command /\ dl'.chActive = dl.chActive
      /\ \/ dl.code # "NONE" /\ dl'.od = "COMMAND" /\ dl'.cmdh = "IDLE" /\ dl'.txOd = dl.command
         \/ dl.code = "NONE" /\ dl'.od = "ISDU" /\ dl'.cmdh = dl.cmdh /\ dl'.txOd = "isdu"
      /\ Quiet /\ (Confirmed' => Confirmed)
  <2> HIDE DEF e
  <2>1. Frame(e, d) /\ Call(e, d) /\ d.pc = "send" /\ d.posts = <<>>
    BY <1>4, PcGoes DEF Threads, Frame
  <2>2. DlStep(d, <<>>)
    BY DEF OdRequest, e
  <2> HIDE DEF d
  <2>3. /\ Frame(d, dl') /\ Call(d, dl') /\ dl'.pc = d.pc /\ dl'.posts = <<>>
        /\ Quiet /\ (Confirmed' => Confirmed)
    BY <2>1, <2>2, Silent DEF Frame
  <2> QED BY <1>4, <2>1, <2>3 DEF Frame, Call
<1>6. Alone /\ UNCHANGED <<wire, device, pdout>>
  BY DEF OdRequest, Alone, dataVars, smVars, appVars
<1>7. dl.code \in Controls
  BY <1>1, Ranges
<1>8. BaseInv' /\ QueueInv'
  BY <1>2, <1>5, <1>6, <1>7 DEF OrderInv, BaseInv, Quiet, Alone, Frame
<1>9. CallInv'
  BY <1>2, <1>5, <1>6, <1>7 DEF OrderInv, CallInv, Alone, Frame, CallOpen, BaseInv
<1>10. HandlersInv'
  BY <1>2, <1>5, <1>6, <1>7 DEF OrderInv, HandlersInv, CallOpen, Alone, Frame
<1>11. StartInv'
  BY <1>2, <1>5, <1>6, <1>7 DEF OrderInv, StartInv, Clean, Quiet, Alone, Frame
<1>12. ConfigInv'
  BY <1>2, <1>5, <1>6, <1>7 DEF OrderInv, ConfigInv, Clean, Quiet, Alone, Frame
<1>13. ValidInv'
  BY <1>2, <1>5, <1>6, <1>7
     DEF OrderInv, ValidInv, HandlersInv, Alone, Frame, Controls, DeviceModes, CallOpen
<1>14. FreshInv'
  BY <1>2, <1>5, <1>6, <1>7 DEF OrderInv, FreshInv, Alone, Frame
<1>15. FallbackInv'
  BY <1>2, <1>5, <1>6, <1>7 DEF OrderInv, FallbackInv, Alone, Frame
<1> QED BY <1>1, <1>8, <1>9, <1>10, <1>11, <1>12, <1>13, <1>14, <1>15 DEF OrderInv

LEMMA SendOrder == ASSUME OrderInv, Send PROVE OrderInv'
<1>1. Inv /\ Inv' /\ dl \in DlRecord
  BY NextInv DEF OrderInv, Next, DlThread, Inv, TypeInv
<1>2. dl.pc = "send" /\ dl.mdh # "IDLE" /\ ~dl.comlost
  BY DEF Send, OrderInv, HandlersInv
<1>3. Frame(dl, dl') /\ Call(dl, dl') /\ dl'.pc = "wait" /\ dl'.posts = <<>>
      /\ Quiet /\ (Confirmed' => Confirmed)
  <2>1. PICK d : d = [dl EXCEPT !.pc = "wait"] /\ DlStep(d, <<>>)
    BY DEF Send
  <2>2. Frame(dl, d) /\ Call(dl, d) /\ d.pc = "wait" /\ d.posts = <<>>
    BY <1>1, <2>1, PcGoes DEF Threads, OrderInv, BaseInv
  <2> QED BY <2>1, <2>2, Silent DEF Frame, Call
<1>4. Alone /\ UNCHANGED <<device, pdout>> /\ wire'.od = dl.txOd
  BY DEF Send, Alone, dataVars, smVars, appVars
<1>5. BaseInv' /\ QueueInv'
  BY <1>2, <1>3, <1>4 DEF OrderInv, BaseInv, Quiet, Alone, Call, Frame
<1>6. CallInv'
  BY <1>2, <1>3, <1>4 DEF OrderInv, CallInv, Alone, Call, Frame
<1>7. HandlersInv'
  BY <1>2, <1>3, <1>4 DEF OrderInv, HandlersInv, CallOpen, Alone, Call, Frame
<1>8. StartInv'
  BY <1>2, <1>3, <1>4 DEF OrderInv, StartInv, Clean, Quiet, Alone, Call, Frame
<1>9. ConfigInv'
  BY <1>2, <1>3, <1>4 DEF OrderInv, ConfigInv, Clean, Quiet, Alone, Call, Frame
<1>10. ValidInv'
  BY <1>2, <1>3, <1>4 DEF OrderInv, ValidInv, HandlersInv, Alone, Call, Frame
<1>11. FreshInv'
  BY <1>2, <1>3, <1>4 DEF OrderInv, FreshInv, Alone, Call, Frame
<1>12. FallbackInv'
  BY <1>2, <1>3, <1>4 DEF OrderInv, FallbackInv, Alone, Call, Frame
<1> QED BY <1>1, <1>5, <1>6, <1>7, <1>8, <1>9, <1>10, <1>11, <1>12 DEF OrderInv

(* The device has taken the message that was sent. *)
LEMMA TakenByDevice ==
    ASSUME OrderInv, dl.pc = "wait", ~dl.comlost, dl.mdh # "IDLE"
    PROVE  /\ Taken \in [valid : BOOLEAN, inputs : BOOLEAN, fallback : BOOLEAN]
           /\ Taken.valid =>
                 \/ dl.od = "COMMAND" /\ dl.command = "PD_OUT_OP"
                 \/ device.valid /\ ~(dl.od = "COMMAND" /\ dl.command = "DEVICE_OPERATE")
           /\ device.fallback => Taken.fallback
           /\ dl.od = "COMMAND" /\ dl.command = "FALLBACK" => Taken.fallback
<1>1. wire.od = IF dl.od = "COMMAND" THEN dl.command ELSE "isdu"
  BY DEF OrderInv, HandlersInv
<1>2. device \in [valid : BOOLEAN, inputs : BOOLEAN, fallback : BOOLEAN]
  BY DEF OrderInv, BaseInv
<1> QED BY <1>1, <1>2 DEF Taken

LEMMA Reply16Order == ASSUME OrderInv, Reply16 PROVE OrderInv'
<1>1. Inv /\ Inv' /\ dl \in DlRecord
  BY NextInv DEF OrderInv, Next, DlThread, Inv, TypeInv
<1>2. dl.pc = "wait" /\ dl.mdh = "OPERATE" /\ ~dl.comlost
  BY DEF Reply16, OrderInv, HandlersInv
<1>3. Frame(dl, dl') /\ Call(dl, dl') /\ dl'.pc = "pdin" /\ dl'.posts = <<>>
      /\ Quiet /\ (Confirmed' => Confirmed)
  <2>1. PICK d : d = [dl EXCEPT !.pc = "pdin"] /\ DlStep(d, Status)
    BY DEF Reply16
  <2>2. Frame(dl, d) /\ Call(dl, d) /\ d.pc = "pdin" /\ d.posts = <<>> /\ d \in DlRecord
    BY <1>1, <2>1, PcGoes DEF Threads, OrderInv, BaseInv, Frame
  <2>3. dl' = [d EXCEPT !.posts = <<>>] /\ mbox' = mbox \o <<>> \o Status
    BY <2>1, <2>2 DEF DlStep
  <2>4. mbox \in Seq(Jobs) /\ device.inputs \in BOOLEAN
    BY DEF OrderInv, BaseInv
  <2>5. /\ Job("CONTROL", device.inputs) \in Reports
        /\ Job("CONTROL", device.inputs) # Job("CNF", "ok")
    BY <2>4 DEF Reports, Job
  <2>6. mbox' = mbox \o <<Job("CONTROL", device.inputs)>>
    BY <2>3, <2>4 DEF Status
  <2>7. Quiet /\ (Confirmed' => Confirmed)
    BY <2>5, <2>6, Reported
  <2>8. Frame(d, dl') /\ Call(d, dl') /\ dl'.pc = d.pc /\ dl'.posts = <<>>
    BY <2>2, <2>3, PostsEmptied
  <2> QED BY <2>2, <2>7, <2>8 DEF Frame, Call
<1>4. Alone /\ UNCHANGED <<wire, pdout>> /\ device' = Taken
  BY DEF Reply16, Alone, smVars, appVars
<1>5. /\ device' \in [valid : BOOLEAN, inputs : BOOLEAN, fallback : BOOLEAN]
      /\ device'.valid =>
            \/ dl.od = "COMMAND" /\ dl.command = "PD_OUT_OP"
            \/ device.valid /\ ~(dl.od = "COMMAND" /\ dl.command = "DEVICE_OPERATE")
      /\ device.fallback => device'.fallback
      /\ dl.od = "COMMAND" /\ dl.command = "FALLBACK" => device'.fallback
  BY <1>2, <1>4, TakenByDevice
<1>6. BaseInv' /\ QueueInv'
  BY <1>2, <1>3, <1>4, <1>5 DEF OrderInv, BaseInv, Quiet, Alone, Call, Frame
<1>7. CallInv'
  BY <1>2, <1>3, <1>4, <1>5 DEF OrderInv, CallInv, Alone, Call, Frame
<1>8. HandlersInv'
  BY <1>2, <1>3, <1>4, <1>5 DEF OrderInv, HandlersInv, CallOpen, Alone, Call, Frame
<1>9. StartInv'
  BY <1>2, <1>3, <1>4, <1>5 DEF OrderInv, StartInv, Clean, Quiet, Alone, Call, Frame
<1>10. ConfigInv'
  BY <1>2, <1>3, <1>4, <1>5 DEF OrderInv, ConfigInv, Clean, Quiet, Alone, Call, Frame
<1>11. ValidInv'
  BY <1>2, <1>3, <1>4, <1>5 DEF OrderInv, ValidInv, HandlersInv, Alone, Call, Frame
<1>12. FreshInv'
  BY <1>2, <1>3, <1>4, <1>5 DEF OrderInv, FreshInv, Alone, Call, Frame
<1>13. FallbackInv'
  BY <1>2, <1>3, <1>4, <1>5 DEF OrderInv, FallbackInv, Alone, Call, Frame
<1> QED BY <1>1, <1>6, <1>7, <1>8, <1>9, <1>10, <1>11, <1>12, <1>13 DEF OrderInv

LEMMA Reply9Order == ASSUME OrderInv, Reply9 PROVE OrderInv'
<1>1. Inv /\ Inv' /\ dl \in DlRecord
  BY NextInv DEF OrderInv, Next, DlThread, Inv, TypeInv
<1>2. dl.pc = "wait" /\ dl.mdh = "PREOPERATE" /\ ~dl.comlost
  BY DEF Reply9, OrderInv, HandlersInv
<1>3. Frame(dl, dl') /\ Call(dl, dl') /\ dl'.pc = "reply" /\ dl'.posts = <<>>
      /\ Quiet /\ (Confirmed' => Confirmed)
  <2>1. PICK d : d = [dl EXCEPT !.pc = "reply"] /\ DlStep(d, <<>>)
    BY DEF Reply9
  <2>2. Frame(dl, d) /\ Call(dl, d) /\ d.pc = "reply" /\ d.posts = <<>>
    BY <1>1, <2>1, PcGoes DEF Threads, OrderInv, BaseInv
  <2> QED BY <2>1, <2>2, Silent DEF Frame, Call
<1>4. Alone /\ UNCHANGED <<wire, pdout>> /\ device' = Taken
  BY DEF Reply9, Alone, dataVars, smVars, appVars
<1>5. /\ device' \in [valid : BOOLEAN, inputs : BOOLEAN, fallback : BOOLEAN]
      /\ device'.valid =>
            \/ dl.od = "COMMAND" /\ dl.command = "PD_OUT_OP"
            \/ device.valid /\ ~(dl.od = "COMMAND" /\ dl.command = "DEVICE_OPERATE")
      /\ device.fallback => device'.fallback
      /\ dl.od = "COMMAND" /\ dl.command = "FALLBACK" => device'.fallback
  BY <1>2, <1>4, TakenByDevice
<1>6. BaseInv' /\ QueueInv'
  BY <1>2, <1>3, <1>4, <1>5 DEF OrderInv, BaseInv, Quiet, Alone, Call, Frame
<1>7. CallInv'
  BY <1>2, <1>3, <1>4, <1>5 DEF OrderInv, CallInv, Alone, Call, Frame
<1>8. HandlersInv'
  BY <1>2, <1>3, <1>4, <1>5 DEF OrderInv, HandlersInv, CallOpen, Alone, Call, Frame
<1>9. StartInv'
  BY <1>2, <1>3, <1>4, <1>5 DEF OrderInv, StartInv, Clean, Quiet, Alone, Call, Frame
<1>10. ConfigInv'
  BY <1>2, <1>3, <1>4, <1>5 DEF OrderInv, ConfigInv, Clean, Quiet, Alone, Call, Frame
<1>11. ValidInv'
  BY <1>2, <1>3, <1>4, <1>5 DEF OrderInv, ValidInv, HandlersInv, Alone, Call, Frame
<1>12. FreshInv'
  BY <1>2, <1>3, <1>4, <1>5 DEF OrderInv, FreshInv, Alone, Call, Frame
<1>13. FallbackInv'
  BY <1>2, <1>3, <1>4, <1>5 DEF OrderInv, FallbackInv, Alone, Call, Frame
<1> QED BY <1>1, <1>6, <1>7, <1>8, <1>9, <1>10, <1>11, <1>12, <1>13 DEF OrderInv

LEMMA InputsDoneOrder == ASSUME OrderInv, InputsDone PROVE OrderInv'
<1>1. Inv /\ Inv' /\ dl \in DlRecord
  BY NextInv DEF OrderInv, Next, DlThread, Inv, TypeInv
<1>2. dl.pc = "pdin" /\ dl.mdh # "IDLE" /\ ~dl.comlost
  BY DEF InputsDone, OrderInv, HandlersInv
<1>3. Frame(dl, dl') /\ Call(dl, dl') /\ dl'.pc = "reply" /\ dl'.posts = <<>>
      /\ Quiet /\ (Confirmed' => Confirmed)
  <2>1. PICK d : d = [dl EXCEPT !.pc = "reply"] /\ DlStep(d, <<>>)
    BY DEF InputsDone
  <2>2. Frame(dl, d) /\ Call(dl, d) /\ d.pc = "reply" /\ d.posts = <<>>
    BY <1>1, <2>1, PcGoes DEF Threads, OrderInv, BaseInv
  <2> QED BY <2>1, <2>2, Silent DEF Frame, Call
<1>4. Alone /\ UNCHANGED <<wire, device, pdout>>
  BY DEF InputsDone, Alone, smVars, appVars
<1>5. BaseInv' /\ QueueInv'
  BY <1>2, <1>3, <1>4 DEF OrderInv, BaseInv, Quiet, Alone, Call, Frame
<1>6. CallInv'
  BY <1>2, <1>3, <1>4 DEF OrderInv, CallInv, Alone, Call, Frame
<1>7. HandlersInv'
  BY <1>2, <1>3, <1>4 DEF OrderInv, HandlersInv, CallOpen, Alone, Call, Frame
<1>8. StartInv'
  BY <1>2, <1>3, <1>4 DEF OrderInv, StartInv, Clean, Quiet, Alone, Call, Frame
<1>9. ConfigInv'
  BY <1>2, <1>3, <1>4 DEF OrderInv, ConfigInv, Clean, Quiet, Alone, Call, Frame
<1>10. ValidInv'
  BY <1>2, <1>3, <1>4 DEF OrderInv, ValidInv, HandlersInv, Alone, Call, Frame
<1>11. FreshInv'
  BY <1>2, <1>3, <1>4 DEF OrderInv, FreshInv, Alone, Call, Frame
<1>12. FallbackInv'
  BY <1>2, <1>3, <1>4 DEF OrderInv, FallbackInv, Alone, Call, Frame
<1> QED BY <1>1, <1>5, <1>6, <1>7, <1>8, <1>9, <1>10, <1>11, <1>12 DEF OrderInv

(* The reply to a command ends it.                                         *)
LEMMA OdReplyOrder == ASSUME OrderInv, Orderly, OdReply PROVE OrderInv'
<1>1. Inv /\ Inv' /\ dl \in DlRecord
  BY NextInv DEF OrderInv, Next, DlThread, Inv, TypeInv
<1>2. dl.pc = "reply" /\ ~CallOpen /\ dl.mdh # "IDLE" /\ ~dl.comlost
  BY DEF OdReply, Undisturbed, OrderInv, HandlersInv
<1>3. /\ dl.od \in {"ISDU", "COMMAND"} /\ dl.posts = <<>>
      /\ dl.od = "COMMAND" => dl.code = "NONE"
  BY <1>1, <1>2, Ranges DEF OrderInv, HandlersInv, OdStates, BaseInv
<1> DEFINE e == Od(dl, "DEVICE")
           d == [e EXCEPT !.pc = "idle"]
<1>4. /\ Frame(dl, e) /\ e.od = "ISDU" /\ e.code = dl.code /\ e.cmdh = dl.cmdh
      /\ e.txOd = dl.txOd /\ e.chActive = dl.chActive
      /\ e.posts = <<>> \/ (dl.od = "COMMAND" /\ e.posts = <<Job("CNF", "ok")>>)
      /\ dl.od = "ISDU" => e.command = dl.command
  <2> HIDE DEF e
  <2>1. CASE dl.od = "ISDU"
    <3>1. /\ Frame(dl, e) /\ e.od = "ISDU" /\ e.code = dl.code /\ e.cmdh = dl.cmdh
          /\ e.command = dl.command /\ e.txOd = dl.txOd /\ e.posts = dl.posts
          /\ e.chActive = dl.chActive
      BY <1>1, <2>1, OtherEnds DEF e
    <3>2. e.posts = <<>> /\ dl.od # "COMMAND"
      BY <1>3, <2>1, <3>1
    <3> QED BY <3>1, <3>2
  <2>2. CASE dl.od = "COMMAND"
    <3>1. /\ Frame(dl, e) /\ e.od = "ISDU" /\ e.code = "NONE" /\ e.cmdh = dl.cmdh
          /\ e.command = "NONE" /\ e.txOd = dl.txOd /\ e.chActive = dl.chActive
          /\ e.posts = IF dl.command \in DeviceModes THEN <<Job("CNF", "ok")>> ELSE <<>>
      BY <1>1, <1>3, <2>2, CommandEnds DEF e
    <3> QED BY <1>3, <2>2, <3>1
  <2> QED BY <1>3, <2>1, <2>2
<1>5. /\ Frame(dl, dl') /\ dl'.od = "ISDU" /\ dl'.code = dl.code /\ dl'.cmdh = dl.cmdh
      /\ dl'.txOd = dl.txOd /\ dl'.chActive = dl.chActive /\ dl'.pc = "idle" /\ dl'.posts = <<>>
      /\ dl.od = "ISDU" => dl'.command = dl.command
      /\ Quiet
      /\ Confirmed' => Confirmed \/ dl.od = "COMMAND"
  <2> HIDE DEF e
  <2>1. Frame(e, d) /\ Call(e, d) /\ d.pc = "idle" /\ d.posts = e.posts
    BY <1>4, PcGoes DEF Threads, Frame
  <2>2. DlStep(d, <<>>) /\ mbox \in Seq(Jobs)
    BY DEF OdReply, e, OrderInv, BaseInv
  <2> HIDE DEF d
  <2>3. dl' = [d EXCEPT !.posts = <<>>] /\ mbox' = mbox \o d.posts
    <3>1. d.posts \in Seq(Jobs)
      <4>1. Job("CNF", "ok") \in Jobs
        BY DEF Job, Jobs, Types, Args
      <4>2. <<Job("CNF", "ok")>> \in Seq(Jobs) /\ <<>> \in Seq(Jobs)
        BY <4>1
      <4> QED BY <1>4, <2>1, <4>2
    <3> QED BY <2>2, <3>1 DEF DlStep
  <2>4. Frame(d, dl') /\ Call(d, dl') /\ dl'.pc = d.pc /\ dl'.posts = <<>>
    BY <2>1, <2>3, PostsEmptied DEF Frame
  <2>5. Quiet /\ (Confirmed' => Confirmed \/ dl.od = "COMMAND")
    <3>1. CASE e.posts = <<>>
      BY <2>1, <2>2, <3>1, Silent DEF Frame
    <3>2. CASE dl.od = "COMMAND" /\ e.posts = <<Job("CNF", "ok")>>
      <4>1. Job("CNF", "ok") \in Reports /\ mbox' = mbox \o <<Job("CNF", "ok")>>
        BY <2>1, <2>3, <3>2 DEF Reports
      <4> QED BY <3>2, <4>1, Reported
    <3> QED BY <1>4, <3>1, <3>2
  <2> QED BY <1>4, <2>1, <2>4, <2>5 DEF Frame, Call
<1>6. Alone /\ UNCHANGED <<wire, device, pdout>>
  BY DEF OdReply, Alone, dataVars, smVars, appVars
<1>7. (dl.od = "COMMAND" => dl'.code = "NONE")
  BY <1>3, <1>5
<1>8. BaseInv' /\ QueueInv'
  BY <1>2, <1>3, <1>5, <1>6, <1>7 DEF OrderInv, BaseInv, Quiet, Alone, Frame
<1>9. CallInv'
  BY <1>2, <1>3, <1>5, <1>6, <1>7 DEF OrderInv, CallInv, Alone, Frame, CallOpen, BaseInv
<1>10. HandlersInv'
  BY <1>2, <1>3, <1>5, <1>6, <1>7 DEF OrderInv, HandlersInv, CallOpen, Alone, Frame
<1>11. StartInv'
  BY <1>2, <1>3, <1>5, <1>6, <1>7 DEF OrderInv, StartInv, Clean, Quiet, Alone, Frame
<1>12. ConfigInv'
  BY <1>2, <1>3, <1>5, <1>6, <1>7 DEF OrderInv, ConfigInv, Clean, Quiet, Alone, Frame
<1>13. ValidInv'
  BY <1>2, <1>3, <1>5, <1>6, <1>7 DEF OrderInv, ValidInv, HandlersInv, Alone, Frame
<1>14. FreshInv'
  BY <1>2, <1>3, <1>5, <1>6, <1>7 DEF OrderInv, FreshInv, Alone, Frame
<1>15. FallbackInv'
  BY <1>2, <1>3, <1>5, <1>6, <1>7 DEF OrderInv, FallbackInv, Alone, Frame
<1> QED BY <1>1, <1>8, <1>9, <1>10, <1>11, <1>12, <1>13, <1>14, <1>15 DEF OrderInv

-----------------------------------------------------------------------------
(* The command handler.                                                    *)
LEMMA CmdHandles ==
    ASSUME NEW d \in DlRecord, NEW e, e = CmdHandler(d)
    PROVE  /\ Frame(d, e) /\ e.od = d.od /\ e.posts = d.posts /\ e.pc = d.pc
           /\ e.chActive = d.chActive
           /\ d.cmdh = "INACTIVE" =>
                 /\ e.cmdh = IF d.chActive THEN "IDLE" ELSE "INACTIVE"
                 /\ e.code = d.code /\ e.command = d.command /\ e.txOd = d.txOd
           /\ d.cmdh = "IDLE" => e.code = d.code /\ e.txOd = d.txOd
           /\ d.cmdh = "IDLE" /\ ~d.chActive => e.cmdh = "INACTIVE" /\ e.command = d.command
           /\ d.cmdh = "IDLE" /\ d.chActive =>
                 /\ e.cmdh = IF d.code = "NONE" THEN "IDLE" ELSE "MASTERCOMMAND"
                 /\ d.code = "PDOUTVALID" => e.command = "PD_OUT_OP"
                 /\ d.code = "PDOUTINVALID" => e.command = "DEVICE_OPERATE"
                 /\ d.code \in {"NONE", "DEVICEMODE"} => e.command = d.command
           /\ d.cmdh = "MASTERCOMMAND" =>
                 /\ e.cmdh = "IDLE" /\ e.code = "NONE" /\ e.command = d.command
                 /\ e.txOd = d.command
<1>1. e \in DlRecord /\ e.pc = d.pc
  BY CmdHandlerType DEF Handled
<1>2. d.cmdh \in ChStates /\ d.code \in Controls
  BY DEF DlRecord
<1>3. CASE d.cmdh = "INACTIVE"
  <2>1. e = IF d.chActive THEN [d EXCEPT !.cmdh = "IDLE"] ELSE d
    BY <1>3 DEF CmdHandler
  <2> QED BY <1>1, <1>3, <2>1 DEF DlRecord, Frame
<1>4. CASE d.cmdh = "IDLE" /\ ~d.chActive
  <2>1. e = [d EXCEPT !.cmdh = "INACTIVE"]
    BY <1>4 DEF CmdHandler
  <2> QED BY <1>1, <1>4, <2>1 DEF DlRecord, Frame
<1>5. CASE d.cmdh = "IDLE" /\ d.chActive /\ d.code = "NONE"
  <2>1. e = d
    BY <1>5 DEF CmdHandler
  <2> QED BY <1>1, <1>5, <2>1 DEF DlRecord, Frame
<1>6. CASE d.cmdh = "IDLE" /\ d.chActive /\ d.code = "PDOUTVALID"
  <2>1. e = [d EXCEPT !.command = "PD_OUT_OP", !.cmdh = "MASTERCOMMAND"]
    BY <1>6 DEF CmdHandler
  <2> QED BY <1>1, <1>6, <2>1 DEF DlRecord, Frame
<1>7. CASE d.cmdh = "IDLE" /\ d.chActive /\ d.code = "PDOUTINVALID"
  <2>1. e = [d EXCEPT !.command = "DEVICE_OPERATE", !.cmdh = "MASTERCOMMAND"]
    BY <1>7 DEF CmdHandler
  <2> QED BY <1>1, <1>7, <2>1 DEF DlRecord, Frame
<1>8. CASE d.cmdh = "IDLE" /\ d.chActive /\ d.code = "DEVICEMODE"
  <2>1. e = [d EXCEPT !.cmdh = "MASTERCOMMAND"]
    BY <1>8 DEF CmdHandler
  <2> QED BY <1>1, <1>8, <2>1 DEF DlRecord, Frame
<1>9. CASE d.cmdh = "MASTERCOMMAND"
  <2>1. e = [[d EXCEPT !.txOd = d.command] EXCEPT !.code = "NONE", !.cmdh = "IDLE"]
    BY <1>9 DEF CmdHandler, Od_req
  <2>2. /\ e.mdh = d.mdh /\ e.mode = d.mode /\ e.comlost = d.comlost /\ e.mdhEvent = d.mdhEvent
        /\ e.txOut = d.txOut /\ e.posts = d.posts /\ e.chActive = d.chActive
        /\ e.command = d.command /\ e.od = d.od
        /\ e.code = "NONE" /\ e.cmdh = "IDLE" /\ e.txOd = d.command
    BY <2>1 DEF DlRecord
  <2> QED BY <1>1, <1>9, <2>2 DEF Frame
<1> QED BY <1>2, <1>3, <1>4, <1>5, <1>6, <1>7, <1>8, <1>9 DEF ChStates, Controls

(* OH_Conf and CH_Conf stop the handlers; a command that was under way     *)
(* stays where it is in the OD handler.                                    *)
LEMMA HandlersStop ==
    ASSUME NEW d \in DlRecord, NEW e, e = CH_Conf(OH_ConfInactive(d), FALSE)
    PROVE  /\ Frame(d, e) /\ e.posts = d.posts /\ e.command = d.command
           /\ e.od = IF d.od = "COMMAND" THEN "COMMAND" ELSE "INACTIVE"
           /\ e.code = d.code \/ (e.code = "NONE" /\ d.cmdh = "MASTERCOMMAND")
<1> DEFINE u == OH_ConfInactive(d)
           v == [u EXCEPT !.chActive = FALSE]
<1>1. u = [d EXCEPT !.cmdh = "INACTIVE"] \/ u = [d EXCEPT !.od = "INACTIVE"]
  BY DEF OH_ConfInactive
<1>2. /\ Frame(d, u) /\ u.posts = d.posts /\ u.command = d.command /\ u.code = d.code
      /\ \/ d.od = "COMMAND" /\ u.od = "COMMAND" /\ u.cmdh = "INACTIVE"
         \/ d.od # "COMMAND" /\ u.od = "INACTIVE" /\ u.cmdh = d.cmdh
  <2>1. u \in DlRecord
    BY ConfType DEF Handled
  <2>2. CASE d.od = "COMMAND"
    <3>1. u = [d EXCEPT !.cmdh = "INACTIVE"]
      BY <2>2 DEF OH_ConfInactive
    <3> QED BY <2>1, <2>2, <3>1 DEF DlRecord, Frame
  <2>3. CASE d.od # "COMMAND"
    <3>1. u = [d EXCEPT !.od = "INACTIVE"]
      BY <2>3 DEF OH_ConfInactive
    <3> QED BY <2>1, <2>3, <3>1 DEF DlRecord, Frame
  <2> QED BY <2>2, <2>3
<1> HIDE DEF u
<1>3. /\ Frame(u, v) /\ v.posts = u.posts /\ v.command = u.command /\ v.code = u.code
      /\ v.od = u.od /\ v.cmdh = u.cmdh /\ ~v.chActive
  BY <1>2 DEF DlRecord, Frame
<1>4. e = CmdHandler(v)
  BY DEF CH_Conf, u
<1> HIDE DEF v
<1>5. v \in DlRecord /\ v.cmdh \in ChStates
  BY <1>3 DEF Frame, DlRecord
<1>6. /\ Frame(v, e) /\ e.od = v.od /\ e.posts = v.posts /\ e.command = v.command
      /\ e.code = v.code \/ (e.code = "NONE" /\ v.cmdh = "MASTERCOMMAND")
  <2>1. Frame(v, e) /\ e.od = v.od /\ e.posts = v.posts
    BY <1>4, <1>5, CmdHandles
  <2>2. CASE v.cmdh = "INACTIVE"
    BY <1>4, <1>5, <2>1, <2>2, CmdHandles
  <2>3. CASE v.cmdh = "IDLE"
    <3>1. e.code = v.code /\ e.command = v.command
      BY <1>3, <1>4, <1>5, <2>3, CmdHandles
    <3> QED BY <2>1, <3>1
  <2>4. CASE v.cmdh = "MASTERCOMMAND"
    BY <1>4, <1>5, <2>1, <2>4, CmdHandles
  <2> QED BY <1>5, <2>2, <2>3, <2>4 DEF ChStates
<1> QED BY <1>2, <1>3, <1>6 DEF Frame

(* OH_Conf and CH_Conf start the handlers.                                 *)
LEMMA HandlersStart ==
    ASSUME NEW d \in DlRecord, d.code = "NONE", d.od = "INACTIVE",
           NEW e, e = OdHandler(CH_Conf(d, TRUE))
    PROVE  /\ Frame(d, e) /\ e.posts = d.posts /\ e.command = d.command /\ e.pc = d.pc
           /\ e.od = "ISDU" /\ e.code = "NONE" /\ e.cmdh = "IDLE" /\ e.chActive
<1> DEFINE u == [d EXCEPT !.chActive = TRUE]
           v == CmdHandler(u)
<1>1. /\ Frame(d, u) /\ u.posts = d.posts /\ u.command = d.command /\ u.code = "NONE"
      /\ u.od = "INACTIVE" /\ u.cmdh = d.cmdh /\ u.chActive /\ u.pc = d.pc
  BY DEF DlRecord, Frame
<1>2. e = OdHandler(v)
  BY DEF CH_Conf
<1> HIDE DEF u
<1>3. u \in DlRecord /\ u.cmdh \in ChStates
  BY <1>1 DEF Frame, DlRecord
<1>4. /\ Frame(u, v) /\ v.od = u.od /\ v.posts = u.posts /\ v.command = u.command
      /\ v.code = "NONE" /\ v.cmdh = "IDLE" /\ v.chActive /\ v.pc = u.pc
  BY <1>1, <1>3, CmdHandles DEF ChStates
<1> HIDE DEF v
<1>5. e = [v EXCEPT !.od = "ISDU"]
  BY <1>1, <1>2, <1>4 DEF OdHandler
<1>6. /\ Frame(v, e) /\ e.od = "ISDU" /\ e.posts = v.posts /\ e.command = v.command
      /\ e.code = v.code /\ e.cmdh = v.cmdh /\ e.chActive = v.chActive /\ e.pc = v.pc
  BY <1>4, <1>5 DEF Frame, DlRecord, OdStates
<1> QED BY <1>1, <1>4, <1>6 DEF Frame

-----------------------------------------------------------------------------
(* The mode handler.                                                       *)
LEMMA MailStays ==
    ASSUME OrderInv, UNCHANGED mbox
    PROVE  Quiet /\ (Confirmed' => Confirmed)
<1>1. mbox \in Seq(Jobs) /\ QueueInv
  BY DEF OrderInv, BaseInv
<1>2. Gain(0, {})
  BY <1>1 DEF Gain
<1>3. Adds({}) /\ QueueInv'
  BY <1>1, <1>2, GainAdds, QueueKept
<1> QED BY <1>1, <1>3 DEF Adds, Quiet

LEMMA MessageLostOrder == ASSUME OrderInv, MessageLost PROVE OrderInv'
<1>1. Inv /\ Inv' /\ dl \in DlRecord
  BY NextInv DEF OrderInv, Next, Inv, TypeInv
<1>2. dl.pc = "wait" /\ dl.mdh = "OPERATE" /\ ~dl.comlost
  BY DEF MessageLost, OrderInv, HandlersInv
<1>3. /\ dl'.mdh = dl.mdh /\ dl'.mode = dl.mode /\ dl'.txOut = dl.txOut /\ Call(dl, dl')
      /\ dl'.posts = <<>>
      /\ dl' = dl \/ (dl'.comlost /\ dl'.mdhEvent /\ dl'.pc = "idle")
  <2>1. dl.posts = <<>>
    BY DEF OrderInv, BaseInv
  <2>2. CASE dl' = dl
    BY <2>1, <2>2 DEF Call
  <2>3. CASE dl' = [dl EXCEPT !.comlost = TRUE, !.mdhEvent = TRUE, !.pc = "idle"]
    BY <1>1, <2>1, <2>3 DEF Call, DlRecord
  <2> QED BY <2>2, <2>3 DEF MessageLost
<1>4. Alone /\ UNCHANGED <<wire, pdout, mbox>> /\ device' \in {device, Taken}
  BY DEF MessageLost, Alone, dataVars, smVars, appVars
<1>5. /\ device' \in [valid : BOOLEAN, inputs : BOOLEAN, fallback : BOOLEAN]
      /\ device.fallback => device'.fallback
      /\ \/ device' = device
         \/ device'.valid =>
               \/ dl.od = "COMMAND" /\ dl.command = "PD_OUT_OP"
               \/ device.valid /\ ~(dl.od = "COMMAND" /\ dl.command = "DEVICE_OPERATE")
  BY <1>2, <1>4, TakenByDevice DEF OrderInv, BaseInv
<1>6. Quiet /\ (Confirmed' => Confirmed)
  BY <1>4, MailStays
<1>7. BaseInv' /\ QueueInv'
  BY <1>2, <1>3, <1>4, <1>5, <1>6 DEF OrderInv, BaseInv, Quiet, Alone, Call
<1>8. CallInv'
  BY <1>2, <1>3, <1>4, <1>5, <1>6 DEF OrderInv, CallInv, Alone, Call
<1>9. HandlersInv'
  BY <1>2, <1>3, <1>4, <1>5, <1>6 DEF OrderInv, HandlersInv, CallOpen, Alone, Call
<1>10. StartInv'
  BY <1>2, <1>3, <1>4, <1>5, <1>6 DEF OrderInv, StartInv, Clean, Quiet, Alone, Call
<1>11. ConfigInv'
  BY <1>2, <1>3, <1>4, <1>5, <1>6 DEF OrderInv, ConfigInv, Clean, Quiet, Alone, Call
<1>12. ValidInv'
  BY <1>2, <1>3, <1>4, <1>5, <1>6 DEF OrderInv, ValidInv, HandlersInv, Alone, Call
<1>13. FreshInv'
  BY <1>2, <1>3, <1>4, <1>5, <1>6 DEF OrderInv, FreshInv, Alone, Call
<1>14. FallbackInv'
  BY <1>2, <1>3, <1>4, <1>5, <1>6 DEF OrderInv, FallbackInv, Alone, Call
<1> QED BY <1>1, <1>7, <1>8, <1>9, <1>10, <1>11, <1>12, <1>13, <1>14 DEF OrderInv

(* The port starts with nothing under way.                                 *)
LEMMA EstablishOrder == ASSUME OrderInv, Establish PROVE OrderInv'
<1>1. Inv /\ Inv' /\ dl \in DlRecord /\ mbox \in Seq(Jobs)
  BY NextInv DEF OrderInv, Next, DlThread, Inv, TypeInv, BaseInv
<1>2. /\ dl.mdh = "IDLE" /\ dl.mode = "STARTUP" /\ dl.pc = "idle" /\ dl.posts = <<>>
      /\ sm = "PortInactive" /\ ~ModeTold /\ ~pde.active /\ dl.code = "NONE"
      /\ main = "job" /\ ~Confirmed /\ NoConfiguration /\ ~OperateTold /\ dl.od = "INACTIVE"
      /\ app.pc = "idle" /\ ~dl.comlost
  BY DEF Establish, OrderInv, BaseInv, HandlersInv, StartInv, ConfigInv, Clean, CallInv
<1> DEFINE e == OdHandler(CH_Conf(dl, TRUE))
           d == [e EXCEPT !.mdh = "PREOPERATE", !.mdhEvent = FALSE]
           jobs == <<Job("MODE", "STARTUP"), Job("MODE", "PREOPERATE")>>
<1>3. /\ Frame(dl, e) /\ e.posts = <<>> /\ e.command = dl.command /\ e.pc = "idle"
      /\ e.od = "ISDU" /\ e.code = "NONE" /\ e.cmdh = "IDLE" /\ e.chActive
  BY <1>1, <1>2, HandlersStart
<1>4. DlStep(d, jobs)
  BY DEF Establish
<1> HIDE DEF e
<1>5. /\ d \in DlRecord /\ d.mdh = "PREOPERATE" /\ ~d.mdhEvent /\ d.mode = "STARTUP"
      /\ d.posts = <<>> /\ d.command = dl.command /\ d.pc = "idle" /\ d.txOut = dl.txOut
      /\ d.od = "ISDU" /\ d.code = "NONE" /\ d.cmdh = "IDLE" /\ d.chActive /\ ~d.comlost
  BY <1>2, <1>3 DEF Frame, DlRecord
<1> HIDE DEF d
<1>6. dl' = [d EXCEPT !.posts = <<>>] /\ mbox' = mbox \o <<>> \o jobs
  BY <1>4, <1>5 DEF DlStep
<1>7. /\ dl'.mdh = "PREOPERATE" /\ ~dl'.mdhEvent /\ dl'.mode = "STARTUP"
      /\ dl'.posts = <<>> /\ dl'.command = dl.command /\ dl'.pc = "idle"
      /\ dl'.od = "ISDU" /\ dl'.code = "NONE" /\ dl'.cmdh = "IDLE" /\ dl'.chActive
      /\ ~dl'.comlost
  BY <1>5, <1>6, PostsEmptied DEF Frame, Call
<1>8. /\ mbox' \in Seq(Jobs) /\ Len(mbox') = Len(mbox) + 2
      /\ \A i \in 1 .. Len(mbox) : mbox'[i] = mbox[i]
      /\ mbox'[Len(mbox) + 1] = Job("MODE", "STARTUP")
      /\ mbox'[Len(mbox) + 2] = Job("MODE", "PREOPERATE")
  <2>1. jobs \in Seq(Jobs) /\ Len(jobs) = 2 /\ jobs[1] = Job("MODE", "STARTUP")
        /\ jobs[2] = Job("MODE", "PREOPERATE")
    <3>1. Job("MODE", "STARTUP") \in Jobs /\ Job("MODE", "PREOPERATE") \in Jobs
      BY DEF Job, Jobs, Types, Args
    <3> QED BY <3>1
  <2> HIDE DEF jobs
  <2>2. mbox' = mbox \o jobs
    BY <1>1, <1>6, <2>1
  <2>3. /\ mbox' \in Seq(Jobs) /\ Len(mbox) \in Nat /\ Len(mbox') = Len(mbox) + Len(jobs)
    <3>1. mbox \in Seq(Jobs) /\ jobs \in Seq(Jobs) /\ mbox' = mbox \o jobs
      BY <1>1, <2>1, <2>2
    <3> QED BY <3>1
  <2>4. \A i \in 1 .. Len(mbox) : mbox'[i] = mbox[i]
    BY <1>1, <2>1, <2>2
  <2>5. mbox'[Len(mbox) + 1] = jobs[1]
    BY <1>1, <2>1, <2>2, <2>3
  <2>6. mbox'[Len(mbox) + 2] = jobs[2]
    BY <1>1, <2>1, <2>2, <2>3
  <2> QED BY <2>1, <2>3, <2>4, <2>5, <2>6
<1>9. \A i \in 1 .. Len(mbox) : mbox[i].type \notin {"MODE", "CFG", "SM_CFG", "CNF"}
  BY <1>2 DEF ModeTold, Confirmed, NoConfiguration, Waiting
<1>10. \A i \in 1 .. Len(mbox') :
          \/ mbox'[i].type \notin {"MODE", "CFG", "SM_CFG", "CNF"} /\ i \in 1 .. Len(mbox)
             /\ mbox'[i] = mbox[i]
          \/ i = Len(mbox) + 1 /\ mbox'[i] = Job("MODE", "STARTUP")
          \/ i = Len(mbox) + 2 /\ mbox'[i] = Job("MODE", "PREOPERATE")
  <2>1. Len(mbox) \in Nat
    BY <1>1
  <2>2. \A i \in 1 .. Len(mbox') :
           i \in 1 .. Len(mbox) \/ i = Len(mbox) + 1 \/ i = Len(mbox) + 2
    BY <1>8, <2>1
  <2> QED BY <1>8, <1>9, <2>2
<1>11. QueueInv'
  BY <1>10 DEF QueueInv, Once, At, Configures, StartsAt, Job
<1>12. /\ OnlyStartModes' /\ ~Confirmed' /\ NoConfiguration' /\ ~OperateTold'
       /\ ~CfgStarts' /\ ~SmStarts' /\ ~SmStops'
  <2>1. OnlyStartModes' /\ ~Confirmed' /\ NoConfiguration'
    BY <1>10 DEF OnlyStartModes, Confirmed, NoConfiguration, Waiting, Job
  <2>2. ~CfgStarts' /\ ~SmStarts' /\ ~SmStops'
    BY <1>10 DEF CfgStarts, SmStarts, SmStops, Has, At, Job
  <2>3. ~OperateTold'
    BY <1>2, <1>10 DEF OperateTold, Has, At, Job
  <2> QED BY <2>1, <2>2, <2>3
<1>13. /\ Alone /\ UNCHANGED <<wire, pdout>>
       /\ device' = [device EXCEPT !.valid = FALSE, !.fallback = FALSE]
  BY DEF Establish, Alone, dataVars, smVars, appVars
<1>14. device' \in [valid : BOOLEAN, inputs : BOOLEAN, fallback : BOOLEAN] /\ ~device'.valid
  BY <1>13 DEF OrderInv, BaseInv
<1>15. BaseInv'
  BY <1>7, <1>8, <1>13, <1>14 DEF OrderInv, BaseInv, Alone
<1>16. CallInv'
  BY <1>2, <1>7, <1>13 DEF OrderInv, CallInv, Alone
<1>17. HandlersInv'
  BY <1>2, <1>7, <1>13 DEF HandlersInv, CallOpen, Alone
<1>18. StartInv'
  BY <1>2, <1>7, <1>12, <1>13 DEF StartInv, Clean, Alone
<1>19. ConfigInv'
  BY <1>2, <1>7, <1>12, <1>13 DEF ConfigInv, Clean, Alone
<1>20. ValidInv'
  BY <1>2, <1>7, <1>13, <1>14 DEF ValidInv, Alone
<1>21. FreshInv'
  BY <1>7, <1>13 DEF OrderInv, FreshInv, Alone
<1>22. FallbackInv'
  BY <1>2, <1>13 DEF FallbackInv, Alone
<1> QED BY <1>1, <1>11, <1>15, <1>16, <1>17, <1>18, <1>19, <1>20, <1>21, <1>22 DEF OrderInv

(* A mode the mode handler reports when the port does not start.           *)
OtherModes == {Job("MODE", "OPERATE"), Job("MODE", "INACTIVE"), Job("MODE", "COMLOST")}
LEMMA ModeReported ==
    ASSUME OrderInv, NEW job \in OtherModes, mbox' = mbox \o <<job>>
    PROVE  /\ mbox' \in Seq(Jobs) /\ QueueInv'
           /\ StartupTold' => StartupTold
           /\ PreoperateTold' => PreoperateTold
           /\ OperateTold' => OperateTold
           /\ CfgStarts' => CfgStarts
           /\ SmStarts' => SmStarts
           /\ SmStops' => SmStops
           /\ ~NoConfiguration' => ~NoConfiguration
           /\ Confirmed' => Confirmed
<1>1. job \in Jobs /\ Plain(job) /\ dl \in DlRecord /\ QueueInv /\ mbox \in Seq(Jobs)
  <2>1. OtherModes \subseteq Jobs /\ \A n \in OtherModes : Plain(n)
    BY DEF OtherModes, Job, Jobs, Types, Args, Plain
  <2> QED BY <2>1 DEF OrderInv, Inv, TypeInv, BaseInv
<1>2. mbox' \in Seq(Jobs) /\ Gain(0, {job}) /\ Adds({job})
  BY <1>1, Posting1
<1>3. QueueInv'
  BY <1>1, <1>2, QueueKept
<1> QED BY <1>2, <1>3 DEF Adds, OtherModes, Job

LEMMA GotoOperateOrder == ASSUME OrderInv, GotoOperate PROVE OrderInv'
<1>1. Inv /\ Inv' /\ dl \in DlRecord /\ mbox \in Seq(Jobs)
  BY NextInv DEF OrderInv, Next, DlThread, Inv, TypeInv, BaseInv
<1>2. dl.mdh = "PREOPERATE" /\ dl.mode = "OPERATE" /\ dl.pc = "idle" /\ ~dl.comlost
      /\ dl.posts = <<>>
  BY DEF GotoOperate, OrderInv, HandlersInv, BaseInv
<1> DEFINE d == [dl EXCEPT !.ph = "PDSINGLE", !.mdh = "OPERATE", !.mdhEvent = FALSE]
<1>3. /\ d \in DlRecord /\ d.mdh = "OPERATE" /\ d.mode = dl.mode /\ d.comlost = dl.comlost
      /\ d.txOut = dl.txOut /\ d.pc = dl.pc /\ d.posts = <<>> /\ Call(dl, d)
  BY <1>1, <1>2 DEF DlRecord, Call
<1>4. DlStep(d, <<Job("MODE", "OPERATE")>>)
  BY DEF GotoOperate
<1> HIDE DEF d
<1>5. dl' = [d EXCEPT !.posts = <<>>] /\ mbox' = mbox \o <<>> \o <<Job("MODE", "OPERATE")>>
  BY <1>3, <1>4 DEF DlStep
<1>6. /\ dl'.mdh = "OPERATE" /\ dl'.mode = dl.mode /\ dl'.comlost = dl.comlost
      /\ dl'.pc = dl.pc /\ dl'.posts = <<>> /\ Call(dl, dl')
  BY <1>3, <1>5, PostsEmptied DEF Frame, Call
<1>7. mbox' = mbox \o <<Job("MODE", "OPERATE")>>
  BY <1>1, <1>5
<1>8. /\ mbox' \in Seq(Jobs) /\ QueueInv'
      /\ StartupTold' => StartupTold
      /\ PreoperateTold' => PreoperateTold
      /\ OperateTold' => OperateTold
      /\ CfgStarts' => CfgStarts
      /\ SmStarts' => SmStarts
      /\ SmStops' => SmStops
      /\ ~NoConfiguration' => ~NoConfiguration
      /\ Confirmed' => Confirmed
  BY <1>7, ModeReported DEF OtherModes
<1>9. Alone /\ UNCHANGED <<wire, device, pdout>>
  BY DEF GotoOperate, Alone, dataVars, smVars, appVars
<1>10. BaseInv' /\ QueueInv'
  BY <1>2, <1>6, <1>8, <1>9 DEF OrderInv, BaseInv, Quiet, Alone, Call
<1>11. CallInv'
  BY <1>2, <1>6, <1>8, <1>9 DEF OrderInv, CallInv, Alone, Call
<1>12. HandlersInv'
  BY <1>2, <1>6, <1>8, <1>9 DEF OrderInv, HandlersInv, CallOpen, Alone, Call
<1>13. StartInv'
  BY <1>2, <1>6, <1>8, <1>9 DEF OrderInv, StartInv, Clean, Quiet, Alone, Call
<1>14. ConfigInv'
  BY <1>2, <1>6, <1>8, <1>9 DEF OrderInv, ConfigInv, Clean, Quiet, Alone, Call
<1>15. ValidInv'
  BY <1>2, <1>6, <1>8, <1>9 DEF OrderInv, ValidInv, HandlersInv, Alone, Call
<1>16. FreshInv'
  BY <1>2, <1>6, <1>8, <1>9 DEF OrderInv, FreshInv, Alone, Call
<1>17. FallbackInv'
  BY <1>2, <1>6, <1>8, <1>9 DEF OrderInv, FallbackInv, Alone, Call
<1> QED BY <1>1, <1>10, <1>11, <1>12, <1>13, <1>14, <1>15, <1>16, <1>17 DEF OrderInv

LEMMA GotoIdleOrder == ASSUME OrderInv, GotoIdle PROVE OrderInv'
<1>1. Inv /\ Inv' /\ dl \in DlRecord /\ mbox \in Seq(Jobs)
  BY NextInv DEF OrderInv, Next, DlThread, Inv, TypeInv, BaseInv
<1>2. dl.mdh = "OPERATE" /\ dl.mode # "STARTUP" /\ dl.posts = <<>>
  BY DEF GotoIdle, OrderInv, StartInv, BaseInv
<1> DEFINE e == CH_Conf(OH_ConfInactive(dl), FALSE)
           d == [e EXCEPT !.ph = "INACTIVE", !.mdh = "IDLE", !.comlost = FALSE,
                          !.mdhEvent = FALSE, !.pc = "idle"]
           job == Job("MODE", IF dl.mode = "INACTIVE" THEN "INACTIVE" ELSE "COMLOST")
<1>3. /\ Frame(dl, e) /\ e.posts = <<>> /\ e.command = dl.command
      /\ e.od = IF dl.od = "COMMAND" THEN "COMMAND" ELSE "INACTIVE"
      /\ e.code = dl.code \/ (e.code = "NONE" /\ dl.cmdh = "MASTERCOMMAND")
  BY <1>1, <1>2, HandlersStop
<1>4. DlStep(d, <<job>>)
  BY DEF GotoIdle
<1> HIDE DEF e
<1>5. /\ d \in DlRecord /\ d.mdh = "IDLE" /\ d.mode = dl.mode /\ ~d.comlost /\ d.pc = "idle"
      /\ d.posts = <<>> /\ d.command = dl.command /\ d.od = e.od /\ d.code = e.code
  BY <1>3 DEF Frame, DlRecord, Threads
<1> HIDE DEF d
<1>6. dl' = [d EXCEPT !.posts = <<>>] /\ mbox' = mbox \o <<>> \o <<job>>
  BY <1>4, <1>5 DEF DlStep
<1>7. /\ dl'.mdh = "IDLE" /\ dl'.mode = dl.mode /\ ~dl'.comlost /\ dl'.pc = "idle"
      /\ dl'.posts = <<>> /\ dl'.command = dl.command
      /\ dl'.od = IF dl.od = "COMMAND" THEN "COMMAND" ELSE "INACTIVE"
      /\ dl'.code = dl.code \/ (dl'.code = "NONE" /\ dl.cmdh = "MASTERCOMMAND")
  BY <1>3, <1>5, <1>6, PostsEmptied DEF Frame, Call
<1>8. mbox' = mbox \o <<job>> /\ job \in OtherModes
  BY <1>1, <1>6 DEF OtherModes
<1> HIDE DEF job
<1>9. /\ mbox' \in Seq(Jobs) /\ QueueInv'
      /\ StartupTold' => StartupTold
      /\ PreoperateTold' => PreoperateTold
      /\ OperateTold' => OperateTold
      /\ CfgStarts' => CfgStarts
      /\ SmStarts' => SmStarts
      /\ SmStops' => SmStops
      /\ ~NoConfiguration' => ~NoConfiguration
      /\ Confirmed' => Confirmed
  BY <1>8, ModeReported
<1>10. Alone /\ UNCHANGED <<wire, device, pdout>>
  BY DEF GotoIdle, Alone, dataVars, smVars, appVars
<1>11. CallOpen => dl.cmdh = "IDLE"
  BY <1>2 DEF OrderInv, HandlersInv
<1>12. BaseInv' /\ QueueInv'
  BY <1>2, <1>7, <1>9, <1>10, <1>11 DEF OrderInv, BaseInv, Quiet, Alone
<1>13. CallInv'
  BY <1>2, <1>7, <1>9, <1>10, <1>11 DEF OrderInv, CallInv, Alone, CallOpen
<1>14. HandlersInv'
  BY <1>2, <1>7, <1>9, <1>10, <1>11 DEF OrderInv, HandlersInv, CallOpen, Alone
<1>15. StartInv'
  BY <1>2, <1>7, <1>9, <1>10, <1>11 DEF OrderInv, StartInv, Clean, Quiet, Alone
<1>16. ConfigInv'
  BY <1>2, <1>7, <1>9, <1>10, <1>11 DEF OrderInv, ConfigInv, Clean, Quiet, Alone
<1>17. ValidInv'
  BY <1>2, <1>7, <1>9, <1>10, <1>11 DEF OrderInv, ValidInv, HandlersInv, Alone
<1>18. FreshInv'
  BY <1>2, <1>7, <1>9, <1>10, <1>11 DEF OrderInv, FreshInv, Alone
<1>19. FallbackInv'
  BY <1>2, <1>7, <1>9, <1>10, <1>11 DEF OrderInv, FallbackInv, Alone
<1> QED BY <1>1, <1>12, <1>13, <1>14, <1>15, <1>16, <1>17, <1>18, <1>19 DEF OrderInv

LEMMA ModeIgnoredOrder == ASSUME OrderInv, ModeIgnored PROVE OrderInv'
<1>1. Inv /\ Inv' /\ dl \in DlRecord
  BY NextInv DEF OrderInv, Next, DlThread, Inv, TypeInv
<1>2. (dl.mdh = "IDLE" /\ dl.mode # "STARTUP") \/ dl.mdh = "PREOPERATE"
  BY DEF ModeIgnored
<1>3. /\ dl'.mdh = dl.mdh /\ dl'.mode = dl.mode /\ dl'.comlost = dl.comlost
      /\ dl'.txOut = dl.txOut /\ Call(dl, dl') /\ dl'.pc = dl.pc /\ dl'.posts = <<>>
      /\ Quiet /\ (Confirmed' => Confirmed)
  <2>1. PICK d : d = [dl EXCEPT !.mdhEvent = FALSE] /\ DlStep(d, <<>>)
    BY DEF ModeIgnored
  <2>2. /\ d \in DlRecord /\ d.mdh = dl.mdh /\ d.mode = dl.mode /\ d.comlost = dl.comlost
        /\ d.txOut = dl.txOut /\ Call(dl, d) /\ d.pc = dl.pc /\ d.posts = <<>>
    BY <1>1, <2>1 DEF DlRecord, Call, OrderInv, BaseInv
  <2> QED BY <2>1, <2>2, Silent DEF Frame, Call
<1>4. Alone /\ UNCHANGED <<wire, device, pdout>>
  BY DEF ModeIgnored, Alone, dataVars, smVars, appVars
<1>5. BaseInv' /\ QueueInv'
  BY <1>2, <1>3, <1>4 DEF OrderInv, BaseInv, Quiet, Alone, Call
<1>6. CallInv'
  BY <1>2, <1>3, <1>4 DEF OrderInv, CallInv, Alone, Call
<1>7. HandlersInv'
  BY <1>2, <1>3, <1>4 DEF OrderInv, HandlersInv, CallOpen, Alone, Call
<1>8. StartInv'
  BY <1>2, <1>3, <1>4 DEF OrderInv, StartInv, Clean, Quiet, Alone, Call
<1>9. ConfigInv'
  BY <1>2, <1>3, <1>4 DEF OrderInv, ConfigInv, Clean, Quiet, Alone, Call
<1>10. ValidInv'
  BY <1>2, <1>3, <1>4 DEF OrderInv, ValidInv, HandlersInv, Alone, Call
<1>11. FreshInv'
  BY <1>2, <1>3, <1>4 DEF OrderInv, FreshInv, Alone, Call
<1>12. FallbackInv'
  BY <1>2, <1>3, <1>4 DEF OrderInv, FallbackInv, Alone, Call
<1> QED BY <1>1, <1>5, <1>6, <1>7, <1>8, <1>9, <1>10, <1>11, <1>12 DEF OrderInv

-----------------------------------------------------------------------------
(* The main thread writes a device mode.                                   *)
LEMMA DevicemodeCodeOrder == ASSUME OrderInv, DevicemodeCode PROVE OrderInv'
<1>1. Inv /\ Inv' /\ dl \in DlRecord
  BY NextInv DEF OrderInv, Next, MainThread, Inv, TypeInv
<1>2. main = "code" /\ main' = "cmd" /\ app.pc # "cmd"
  BY DEF DevicemodeCode, OrderInv, CallInv
<1>3. /\ Frame(dl, dl') /\ dl'.code = "DEVICEMODE" /\ dl'.od = dl.od /\ dl'.cmdh = dl.cmdh
      /\ dl'.command = dl.command /\ dl'.txOd = dl.txOd /\ dl'.chActive = dl.chActive
      /\ dl'.pc = dl.pc /\ dl'.posts = <<>>
  BY <1>1 DEF DevicemodeCode, DlRecord, Frame, Controls, OrderInv, BaseInv
<1>4. UNCHANGED <<sm, cm, pde, app, enabler, wire, device, pdout, mbox>>
  BY DEF DevicemodeCode, dataVars, smVars, appVars
<1>5. Quiet /\ (Confirmed' => Confirmed)
  BY <1>4, MailStays
<1>6. /\ CallOpen /\ CallOpen' /\ dl.code = "NONE" /\ dl.od # "COMMAND" /\ NoConfiguration
      /\ \/ sm = "wait_devmode_cnf" /\ dl.command = "DEVICE_OPERATE"
         \/ sm = "waitForFallback" /\ dl.command = "FALLBACK"
  BY <1>2 DEF OrderInv, CallInv, CallOpen, ConfigInv, Clean
<1>7. BaseInv' /\ QueueInv'
  BY <1>2, <1>3, <1>4, <1>5, <1>6 DEF OrderInv, BaseInv, Quiet, Frame, DeviceModes
<1>8. CallInv'
  BY <1>2, <1>3, <1>4, <1>5, <1>6 DEF OrderInv, CallInv, Frame, DeviceModes
<1>9. HandlersInv'
  BY <1>2, <1>3, <1>4, <1>5, <1>6 DEF OrderInv, HandlersInv, CallOpen, Frame, DeviceModes
<1>10. StartInv'
  BY <1>2, <1>3, <1>4, <1>5, <1>6 DEF OrderInv, StartInv, Clean, Quiet, Frame, DeviceModes
<1>11. ConfigInv'
  BY <1>2, <1>3, <1>4, <1>5, <1>6 DEF OrderInv, ConfigInv, Clean, Quiet, Frame, DeviceModes
<1>12. ValidInv'
  BY <1>2, <1>3, <1>4, <1>5, <1>6 DEF OrderInv, ValidInv, HandlersInv, Frame, DeviceModes
<1>13. FreshInv'
  BY <1>2, <1>3, <1>4, <1>5, <1>6 DEF OrderInv, FreshInv, Frame, DeviceModes
<1>14. FallbackInv'
  BY <1>2, <1>3, <1>4, <1>5, <1>6 DEF OrderInv, FallbackInv, Frame, DeviceModes
<1> QED BY <1>1, <1>7, <1>8, <1>9, <1>10, <1>11, <1>12, <1>13, <1>14 DEF OrderInv

LEMMA DevicemodeCmdOrder == ASSUME OrderInv, DevicemodeCmd PROVE OrderInv'
<1>1. Inv /\ Inv' /\ dl \in DlRecord /\ dl.cmdh \in ChStates
  BY NextInv, Ranges DEF OrderInv, Next, MainThread, Inv, TypeInv
<1>2. /\ main = "cmd" /\ main' = "job" /\ app.pc # "cmd" /\ dl.code = "DEVICEMODE"
      /\ dl.od # "COMMAND" /\ NoConfiguration /\ dl.posts = <<>>
      /\ \/ sm = "wait_devmode_cnf" /\ dl.command = "DEVICE_OPERATE"
         \/ sm = "waitForFallback" /\ dl.command = "FALLBACK"
  BY DEF DevicemodeCmd, OrderInv, CallInv, ConfigInv, Clean, BaseInv
<1>3. /\ Frame(dl, dl') /\ dl'.od = dl.od /\ dl'.chActive = dl.chActive /\ dl'.pc = dl.pc
      /\ dl'.posts = <<>> /\ dl'.command = dl.command /\ dl'.code \in {"NONE", "DEVICEMODE"}
  <2>1. dl' = CmdHandler(dl)
    BY DEF DevicemodeCmd
  <2>2. Frame(dl, dl') /\ dl'.od = dl.od /\ dl'.chActive = dl.chActive /\ dl'.pc = dl.pc
        /\ dl'.posts = <<>>
    BY <1>1, <1>2, <2>1, CmdHandles
  <2>3. CASE dl.cmdh = "IDLE"
    <3>1. CASE dl.chActive
      BY <1>1, <1>2, <2>1, <2>2, <2>3, <3>1, CmdHandles
    <3>2. CASE ~dl.chActive
      BY <1>1, <1>2, <2>1, <2>2, <2>3, <3>2, CmdHandles
    <3> QED BY <3>1, <3>2
  <2>4. CASE dl.cmdh \in {"INACTIVE", "MASTERCOMMAND"}
    BY <1>1, <1>2, <2>1, <2>2, <2>4, CmdHandles
  <2> QED BY <1>1, <2>3, <2>4 DEF ChStates
<1>4. dl.mdh # "IDLE" =>
         /\ dl.chActive /\ dl'.cmdh = "MASTERCOMMAND" /\ dl'.code = "DEVICEMODE"
         /\ dl'.txOd = dl.txOd
  <2>1. dl.mdh # "IDLE" => dl.chActive /\ dl.cmdh = "IDLE"
    BY <1>2 DEF OrderInv, HandlersInv, CallOpen
  <2>2. dl' = CmdHandler(dl)
    BY DEF DevicemodeCmd
  <2> QED BY <1>1, <1>2, <2>1, <2>2, CmdHandles
<1>5. UNCHANGED <<sm, cm, pde, app, enabler, wire, device, pdout, mbox>>
  BY DEF DevicemodeCmd, dataVars, smVars, appVars
<1>6. Quiet /\ (Confirmed' => Confirmed)
  BY <1>5, MailStays
<1>7. BaseInv' /\ QueueInv'
  BY <1>2, <1>3, <1>4, <1>5, <1>6 DEF OrderInv, BaseInv, Quiet, Frame, DeviceModes
<1>8. CallInv'
  BY <1>2, <1>3, <1>4, <1>5, <1>6 DEF OrderInv, CallInv, Frame, DeviceModes
<1>9. HandlersInv'
  BY <1>2, <1>3, <1>4, <1>5, <1>6 DEF OrderInv, HandlersInv, CallOpen, Frame, DeviceModes
<1>10. StartInv'
  BY <1>2, <1>3, <1>4, <1>5, <1>6 DEF OrderInv, StartInv, Clean, Quiet, Frame, DeviceModes
<1>11. ConfigInv'
  BY <1>2, <1>3, <1>4, <1>5, <1>6 DEF OrderInv, ConfigInv, Clean, Quiet, Frame, DeviceModes
<1>12. ValidInv'
  BY <1>2, <1>3, <1>4, <1>5, <1>6 DEF OrderInv, ValidInv, HandlersInv, Frame, DeviceModes
<1>13. FreshInv'
  BY <1>2, <1>3, <1>4, <1>5, <1>6 DEF OrderInv, FreshInv, Frame, DeviceModes
<1>14. FallbackInv'
  BY <1>2, <1>3, <1>4, <1>5, <1>6 DEF OrderInv, FallbackInv, Frame, DeviceModes
<1> QED BY <1>1, <1>7, <1>8, <1>9, <1>10, <1>11, <1>12, <1>13, <1>14 DEF OrderInv

-----------------------------------------------------------------------------
(* The main thread takes a job.                                            *)
Mains == {Job("OPERATE", ""), Job("PORT", "COMLOST"), Job("PORT", "INACTIVE")}
LEMMA MainsPlain ==
    /\ Mains \subseteq Jobs
    /\ \A n \in Mains : Plain(n) /\ n.type \in {"OPERATE", "PORT"}
  BY DEF Mains, Job, Jobs, Types, Args, Plain

(* What the first job is.                                                  *)
First(type, arg) == Head(mbox).type = type /\ Head(mbox).arg = arg
LEMMA FirstTold ==
    ASSUME mbox \in Seq(Jobs), mbox # <<>>
    PROVE  /\ Head(mbox) = mbox[1] /\ Len(mbox) \in Nat \ {0} /\ Head(mbox) \in Jobs
           /\ First("MODE", "STARTUP") => StartupTold
           /\ First("MODE", "PREOPERATE") => PreoperateTold
           /\ Head(mbox).type = "MODE" => ModeTold
           /\ Head(mbox).type = "CNF" => Confirmed
           /\ First("PORT", "OPERATE") => OperateTold
           /\ First("CFG", "CFGCOM") => CfgStarts
           /\ First("SM_CFG", "CFGCOM") => SmStarts
           /\ First("SM_CFG", "INACTIVE") => SmStops
           /\ Head(mbox).type \in {"CFG", "SM_CFG"} => ~NoConfiguration
<1>1. Head(mbox) = mbox[1] /\ Len(mbox) \in Nat \ {0} /\ 1 \in 1 .. Len(mbox)
      /\ Head(mbox) \in Jobs
  OBVIOUS
<1>2. /\ First("MODE", "STARTUP") => StartupTold
      /\ First("MODE", "PREOPERATE") => PreoperateTold
      /\ First("PORT", "OPERATE") => OperateTold
  BY <1>1 DEF First, StartupTold, PreoperateTold, OperateTold, Has, At
<1>3. /\ First("CFG", "CFGCOM") => CfgStarts
      /\ First("SM_CFG", "CFGCOM") => SmStarts
      /\ First("SM_CFG", "INACTIVE") => SmStops
  BY <1>1 DEF First, CfgStarts, SmStarts, SmStops, Has, At
<1>4. /\ Head(mbox).type = "MODE" => ModeTold
      /\ Head(mbox).type = "CNF" => Confirmed
      /\ Head(mbox).type \in {"CFG", "SM_CFG"} => ~NoConfiguration
  BY <1>1 DEF ModeTold, Confirmed, NoConfiguration, Waiting
<1> QED BY <1>1, <1>2, <1>3, <1>4

(* What was there once is gone when it is taken.                           *)
Gone ==
    /\ First("MODE", "STARTUP") => ~StartupTold'
    /\ First("MODE", "PREOPERATE") => ~PreoperateTold'
    /\ Head(mbox).type \in {"CFG", "SM_CFG"} => NoConfiguration'
    /\ Head(mbox).type \in {"CFG", "SM_CFG"} /\ Head(mbox).arg = "CFGCOM" => ~OperateTold'
LEMMA FirstGone ==
    ASSUME mbox \in Seq(Jobs), mbox # <<>>, mbox' \in Seq(Jobs), QueueInv, NEW news,
           Gain(1, news), \A n \in news : Plain(n)
    PROVE  Gone
<1>1. Head(mbox) = mbox[1] /\ Len(mbox) \in Nat \ {0} /\ Len(mbox') \in Nat
  OBVIOUS
<1>2. \A i \in 1 .. Len(mbox') :
         \/ i + 1 \in 1 .. Len(mbox) /\ 1 < i + 1 /\ i + 1 # 1 /\ mbox'[i] = mbox[i + 1]
         \/ Plain(mbox'[i])
  BY <1>1 DEF Gain
<1>3. First("MODE", "STARTUP") => ~StartupTold'
  BY <1>1, <1>2 DEF QueueInv, Once, At, First, StartupTold, Has, Plain
<1>4. First("MODE", "PREOPERATE") => ~PreoperateTold'
  BY <1>1, <1>2 DEF QueueInv, Once, At, First, PreoperateTold, Has, Plain
<1>5. Head(mbox).type \in {"CFG", "SM_CFG"} => NoConfiguration'
  BY <1>1, <1>2 DEF QueueInv, Configures, NoConfiguration, Waiting, Plain
<1>6. Head(mbox).type \in {"CFG", "SM_CFG"} /\ Head(mbox).arg = "CFGCOM" => ~OperateTold'
  <2> SUFFICES ASSUME Head(mbox).type \in {"CFG", "SM_CFG"}, Head(mbox).arg = "CFGCOM",
                      NEW i \in 1 .. Len(mbox'), At(i, "PORT", "OPERATE")'
               PROVE  FALSE
    BY DEF OperateTold, Has
  <2>1. StartsAt(1)
    BY <1>1 DEF StartsAt, Configures
  <2>2. i + 1 \in 1 .. Len(mbox) /\ 1 < i + 1 /\ mbox'[i] = mbox[i + 1]
    BY <1>2 DEF At, Plain
  <2>3. At(i + 1, "PORT", "OPERATE")
    BY <2>2 DEF At
  <2> QED BY <1>1, <2>1, <2>2, <2>3 DEF QueueInv
<1> QED BY <1>3, <1>4, <1>5, <1>6 DEF Gone

LEMMA TakesPlain ==
    ASSUME OrderInv, mbox # <<>>, NEW jobs, Posting(jobs),
           jobs = <<>> \/ \E n \in Mains : jobs = <<n>>
    PROVE  Quiet /\ (Confirmed' => Confirmed) /\ Gone
<1>1. mbox \in Seq(Jobs) /\ QueueInv
  BY DEF OrderInv, BaseInv
<1>2. \E news \in SUBSET Mains : jobs \in Seq(Jobs) /\ {jobs[k] : k \in 1 .. Len(jobs)} = news
  <2>1. CASE jobs = <<>>
    <3>1. jobs \in Seq(Jobs) /\ {jobs[k] : k \in 1 .. Len(jobs)} = {}
      BY <2>1
    <3> QED BY <3>1
  <2>2. ASSUME NEW n \in Mains, jobs = <<n>>
        PROVE  jobs \in Seq(Jobs) /\ {jobs[k] : k \in 1 .. Len(jobs)} = {n}
    <3>1. n \in Jobs
      BY MainsPlain
    <3> QED BY <2>2, <3>1
  <2> QED BY <2>1, <2>2
<1>3. PICK news \in SUBSET Mains :
         jobs \in Seq(Jobs) /\ {jobs[k] : k \in 1 .. Len(jobs)} = news
  BY <1>2
<1>4. mbox' \in Seq(Jobs) /\ Gain(1, news)
  BY <1>1, <1>3, Takes DEF Posting
<1>5. \A n \in news : Plain(n)
  BY MainsPlain
<1>6. Adds(news) /\ QueueInv' /\ Gone
  BY <1>1, <1>4, <1>5, GainAdds, QueueKept, FirstGone
<1>7. \A n \in news : n.type \in {"OPERATE", "PORT"} /\ ~(n.type = "PORT" /\ n.arg = "OPERATE")
  BY MainsPlain DEF Plain
<1> QED BY <1>4, <1>6, <1>7 DEF Adds, Quiet

(* A step that only takes a job.                                           *)
LEMMA MailOnly ==
    ASSUME OrderInv, Inv', Quiet, Confirmed' => Confirmed,
           UNCHANGED <<dl, wire, device, pdout, main, sm, cm, pde, app, enabler>>
    PROVE  OrderInv'
<1>1. BaseInv' /\ QueueInv' /\ CallInv'
  BY DEF OrderInv, BaseInv, Quiet, CallInv
<1>2. HandlersInv' /\ ValidInv' /\ FreshInv'
  BY DEF OrderInv, HandlersInv, CallOpen, ValidInv, FreshInv
<1>3. StartInv' /\ ConfigInv'
  BY DEF OrderInv, StartInv, ConfigInv, Clean, Quiet
<1>4. FallbackInv'
  BY DEF OrderInv, FallbackInv
<1> QED BY <1>1, <1>2, <1>3, <1>4 DEF OrderInv

(* What the SM tells the DL. *)
LEMMA SetModeDl ==
    ASSUME dl \in DlRecord, NEW mode \in {"INACTIVE", "STARTUP", "OPERATE"},
           DL_SetMode_req(mode)
    PROVE  /\ dl'.mode = mode /\ dl'.mdhEvent /\ dl'.mdh = dl.mdh /\ dl'.comlost = dl.comlost
           /\ dl'.txOut = dl.txOut /\ dl'.pc = dl.pc /\ dl'.posts = dl.posts /\ Call(dl, dl')
  BY DEF DL_SetMode_req, DlRecord, Call

LEMMA DevicemodeDl ==
    ASSUME OrderInv, Orderly, NEW mode \in {"OPERATE", "INACTIVE"},
           DL_Write_Devicemode_req(mode)
    PROVE  /\ dl'.command = IF mode = "OPERATE" THEN "DEVICE_OPERATE" ELSE "FALLBACK"
           /\ dl.code = "NONE" /\ dl'.code = "NONE" /\ dl'.od = dl.od /\ dl'.cmdh = dl.cmdh
           /\ dl'.txOd = dl.txOd /\ dl'.chActive = dl.chActive
           /\ dl.od # "COMMAND" /\ ~CallOpen /\ main' = "code" /\ Frame(dl, dl')
           /\ dl'.pc = dl.pc /\ dl'.posts = <<>>
<1>1. dl \in DlRecord /\ dl.posts = <<>>
  BY DEF OrderInv, Inv, TypeInv, BaseInv
<1>2. HandlerFree /\ main' = "code" /\ dl' = [dl EXCEPT !.command = Commands[mode]]
  BY DEF DL_Write_Devicemode_req
<1>3. Commands[mode] = IF mode = "OPERATE" THEN "DEVICE_OPERATE" ELSE "FALLBACK"
  BY DEF Commands
<1>4. Commands[mode] \in Codes
  BY <1>3, Values
<1> QED BY <1>1, <1>2, <1>3, <1>4 DEF HandlerFree, DlRecord, Frame

(* A loss of communication, in a state of the SM that takes it.            *)
LEMMA ComlostOrder ==
    ASSUME OrderInv, Inv', main = "job", mbox # <<>>, Comlost,
           sm \in {"SMOperate", "wait", "waitForFallback"}
    PROVE  OrderInv'
<1>1. dl \in DlRecord
  BY DEF OrderInv, Inv, TypeInv
<1>2. /\ dl'.mode = "INACTIVE" /\ dl'.mdhEvent /\ dl'.mdh = dl.mdh /\ dl'.comlost = dl.comlost
      /\ dl'.txOut = dl.txOut /\ dl'.pc = dl.pc /\ dl'.posts = dl.posts /\ Call(dl, dl')
  BY <1>1, SetModeDl DEF Comlost
<1>3. Quiet /\ (Confirmed' => Confirmed)
  BY TakesPlain DEF Comlost, SmGoes, Mains
<1>4. sm' = "PortInactive" /\ main' = "job"
      /\ UNCHANGED <<cm, pde, app, enabler, wire, device, pdout>>
  BY DEF Comlost, SmGoes, appVars, dataVars
<1>5. ~StartupTold /\ ~PreoperateTold /\ ~CfgStarts /\ ~SmStarts
  BY DEF OrderInv, StartInv, ConfigInv
<1>6. main = "job" /\ sm \in {"SMOperate", "wait", "waitForFallback"}
  OBVIOUS
<1>7. BaseInv' /\ QueueInv'
  BY <1>2, <1>3, <1>4, <1>5, <1>6 DEF OrderInv, BaseInv, Quiet, Call
<1>8. CallInv'
  BY <1>2, <1>3, <1>4, <1>5, <1>6 DEF OrderInv, CallInv, Call
<1>9. HandlersInv'
  BY <1>2, <1>3, <1>4, <1>5, <1>6 DEF OrderInv, HandlersInv, CallOpen, Call
<1>10. StartInv'
  BY <1>2, <1>3, <1>4, <1>5, <1>6 DEF OrderInv, StartInv, Clean, Quiet, Call
<1>11. ConfigInv'
  BY <1>2, <1>3, <1>4, <1>5, <1>6 DEF OrderInv, ConfigInv, Clean, Quiet, Call
<1>12. ValidInv'
  BY <1>2, <1>3, <1>4, <1>5, <1>6 DEF OrderInv, ValidInv, HandlersInv, Call
<1>13. FreshInv'
  BY <1>2, <1>3, <1>4, <1>5, <1>6 DEF OrderInv, FreshInv, Call
<1>14. FallbackInv'
  BY <1>2, <1>3, <1>4, <1>5, <1>6 DEF OrderInv, FallbackInv, Call
<1> QED BY <1>7, <1>8, <1>9, <1>10, <1>11, <1>12, <1>13, <1>14 DEF OrderInv

LEMMA SmStaysOrder ==
    ASSUME OrderInv, Inv', mbox # <<>>, SmStays
    PROVE  OrderInv'
<1>1. Quiet /\ (Confirmed' => Confirmed)
  BY TakesPlain DEF SmStays, SmGoes
<1>2. UNCHANGED <<dl, wire, device, pdout, main, sm, cm, pde, app, enabler>>
  BY DEF SmStays, SmGoes, appVars, dataVars
<1> QED BY <1>1, <1>2, MailOnly

LEMMA ComlostEventOrder ==
    ASSUME OrderInv, Inv', main = "job", mbox # <<>>, ComlostEvent
    PROVE  OrderInv'
  BY ComlostOrder, SmStaysOrder DEF ComlostEvent

(* What the SM makes of a mode that was reached.                           *)
LEMMA StartupReached ==
    ASSUME OrderInv, Inv', main = "job", mbox # <<>>, UNCHANGED <<dl, main>>,
           \/ First("MODE", "STARTUP") /\ sm = "PortInactive" /\ SmGoes("waitonDLPreoperate", <<>>)
           \/ /\ First("MODE", "PREOPERATE") /\ sm = "waitonDLPreoperate"
              /\ SmGoes("wait", <<Job("OPERATE", "")>>)
    PROVE  OrderInv'
<1>1. Quiet /\ (Confirmed' => Confirmed) /\ Gone
  BY TakesPlain DEF SmGoes, Mains
<1>2. UNCHANGED <<cm, pde, app, enabler, wire, device, pdout>>
  BY DEF SmGoes, appVars, dataVars
<1>3. (First("MODE", "STARTUP") => StartupTold) /\ (First("MODE", "PREOPERATE") => PreoperateTold)
      /\ ModeTold
  BY FirstTold DEF First, OrderInv, BaseInv
<1>4. dl.mode = "STARTUP" /\ dl.mdh # "IDLE" /\ Clean /\ NoConfiguration
  BY <1>3 DEF OrderInv, StartInv, ConfigInv
<1>5. /\ \/ sm = "PortInactive" /\ sm' = "waitonDLPreoperate" /\ ~StartupTold'
         \/ sm = "waitonDLPreoperate" /\ sm' = "wait" /\ ~StartupTold' /\ ~PreoperateTold'
      /\ UNCHANGED <<dl, main>>
  BY <1>1, FirstTold DEF Gone, SmGoes, OrderInv, StartInv, Quiet
<1>6. BaseInv' /\ QueueInv'
  BY <1>1, <1>2, <1>4, <1>5 DEF OrderInv, BaseInv, Quiet, Clean
<1>7. CallInv'
  BY <1>1, <1>2, <1>4, <1>5 DEF OrderInv, CallInv, Clean
<1>8. HandlersInv'
  BY <1>1, <1>2, <1>4, <1>5 DEF OrderInv, HandlersInv, CallOpen, Clean
<1>9. StartInv'
  BY <1>1, <1>2, <1>4, <1>5 DEF OrderInv, StartInv, Clean, Quiet, Clean
<1>10. ConfigInv'
  BY <1>1, <1>2, <1>4, <1>5 DEF OrderInv, ConfigInv, Clean, Quiet, Clean
<1>11. ValidInv'
  BY <1>1, <1>2, <1>4, <1>5 DEF OrderInv, ValidInv, HandlersInv, Clean
<1>12. FreshInv'
  BY <1>1, <1>2, <1>4, <1>5 DEF OrderInv, FreshInv, Clean
<1>13. FallbackInv'
  BY <1>1, <1>2, <1>4, <1>5 DEF OrderInv, FallbackInv, Clean
<1> QED BY <1>6, <1>7, <1>8, <1>9, <1>10, <1>11, <1>12, <1>13 DEF OrderInv

LEMMA OperateReached ==
    ASSUME OrderInv, Inv', main = "job", mbox # <<>>, UNCHANGED <<dl, main>>,
           sm = "SMOperate", SmGoes(sm, <<Job("PORT", "OPERATE")>>)
    PROVE  OrderInv'
<1>1. mbox \in Seq(Jobs) /\ QueueInv
  BY DEF OrderInv, BaseInv
<1> DEFINE jobs == <<Job("PORT", "OPERATE")>>
           news == {Job("PORT", "OPERATE")}
<1>2. jobs \in Seq(Jobs) /\ {jobs[k] : k \in 1 .. Len(jobs)} = news
  <2>1. Job("PORT", "OPERATE") \in Jobs
    BY DEF Job, Jobs, Types, Args
  <2> QED BY <2>1
<1>3. mbox' = Tail(mbox) \o jobs
  BY DEF SmGoes, Posting
<1> HIDE DEF jobs
<1>4. mbox' \in Seq(Jobs) /\ Gain(1, news)
  BY <1>1, <1>2, <1>3, Takes
<1>5. Adds(news)
  BY <1>1, <1>4, GainAdds
<1>6. /\ StartupTold' => StartupTold
      /\ PreoperateTold' => PreoperateTold
      /\ ModeTold' => ModeTold
      /\ CfgStarts' => CfgStarts
      /\ SmStarts' => SmStarts
      /\ SmStops' => SmStops
      /\ ~NoConfiguration' => ~NoConfiguration
      /\ Confirmed' => Confirmed
  BY <1>5 DEF Adds, Job
<1>7. ~CfgStarts /\ ~SmStarts /\ dl.mode # "STARTUP"
  BY DEF OrderInv, ConfigInv, StartInv
<1>8. QueueInv'
  <2>1. Len(mbox) \in Nat /\ Len(mbox') \in Nat
    BY <1>1, <1>4
  <2>2. \A i \in 1 .. Len(mbox') :
           \/ i + 1 \in 1 .. Len(mbox) /\ mbox'[i] = mbox[i + 1]
           \/ mbox'[i].type = "PORT"
    BY <1>4, <2>1 DEF Gain, Job
  <2>3. Once("MODE", "STARTUP")' /\ Once("MODE", "PREOPERATE")'
    <3>1. ASSUME NEW arg \in {"STARTUP", "PREOPERATE"},
                 NEW i \in 1 .. Len(mbox'), NEW j \in 1 .. Len(mbox'),
                 mbox'[i].type = "MODE", mbox'[i].arg = arg,
                 mbox'[j].type = "MODE", mbox'[j].arg = arg
          PROVE  i = j
      <4>1. /\ i + 1 \in 1 .. Len(mbox) /\ mbox'[i] = mbox[i + 1]
            /\ j + 1 \in 1 .. Len(mbox) /\ mbox'[j] = mbox[j + 1]
        BY <2>2, <3>1
      <4>2. At(i + 1, "MODE", arg) /\ At(j + 1, "MODE", arg)
        BY <3>1, <4>1 DEF At
      <4>3. i + 1 = j + 1
        BY <1>1, <4>1, <4>2 DEF QueueInv, Once
      <4> QED BY <2>1, <4>3
    <3> QED BY <3>1 DEF Once, At
  <2>4. (\A i, j \in 1 .. Len(mbox) : Configures(i) /\ Configures(j) => i = j)'
    <3> SUFFICES ASSUME NEW i \in 1 .. Len(mbox'), NEW j \in 1 .. Len(mbox'),
                        Configures(i)', Configures(j)'
                 PROVE  i = j
      OBVIOUS
    <3>1. /\ i + 1 \in 1 .. Len(mbox) /\ mbox'[i] = mbox[i + 1]
          /\ j + 1 \in 1 .. Len(mbox) /\ mbox'[j] = mbox[j + 1]
      BY <2>2 DEF Configures
    <3>2. Configures(i + 1) /\ Configures(j + 1)
      BY <3>1 DEF Configures
    <3>3. i + 1 = j + 1
      BY <1>1, <3>1, <3>2 DEF QueueInv
    <3> QED BY <2>1, <3>3
  <2>5. \A i \in 1 .. Len(mbox') : ~StartsAt(i)'
    BY <1>6, <1>7 DEF StartsAt, Configures, CfgStarts, SmStarts, Has, At
  <2> QED BY <2>3, <2>4, <2>5 DEF QueueInv
<1>9. UNCHANGED <<sm, cm, pde, app, enabler, wire, device, pdout, dl, main>> /\ sm = "SMOperate"
  BY DEF SmGoes, appVars, dataVars
<1>10. BaseInv' /\ QueueInv'
  BY <1>4, <1>6, <1>7, <1>8, <1>9 DEF OrderInv, BaseInv, Quiet, Call
<1>11. CallInv'
  BY <1>4, <1>6, <1>7, <1>8, <1>9 DEF OrderInv, CallInv, Call
<1>12. HandlersInv'
  BY <1>4, <1>6, <1>7, <1>8, <1>9 DEF OrderInv, HandlersInv, CallOpen, Call
<1>13. StartInv'
  BY <1>4, <1>6, <1>7, <1>8, <1>9 DEF OrderInv, StartInv, Clean, Quiet, Call
<1>14. ConfigInv'
  BY <1>4, <1>6, <1>7, <1>8, <1>9 DEF OrderInv, ConfigInv, Clean, Quiet, Call
<1>15. ValidInv'
  BY <1>4, <1>6, <1>7, <1>8, <1>9 DEF OrderInv, ValidInv, HandlersInv, Call
<1>16. FreshInv'
  BY <1>4, <1>6, <1>7, <1>8, <1>9 DEF OrderInv, FreshInv, Call
<1>17. FallbackInv'
  BY <1>4, <1>6, <1>7, <1>8, <1>9 DEF OrderInv, FallbackInv, Call
<1> QED BY <1>10, <1>11, <1>12, <1>13, <1>14, <1>15, <1>16, <1>17 DEF OrderInv

LEMMA ModeIndOrder == ASSUME OrderInv, ModeInd PROVE OrderInv'
<1>1. Inv' /\ main = "job" /\ mbox # <<>> /\ Head(mbox).type = "MODE"
  BY NextInv DEF OrderInv, Next, MainThread, ModeInd, Took
<1>2. CASE sm = "PortInactive" /\ Arg = "STARTUP"
  BY <1>1, <1>2, StartupReached DEF ModeInd, First, Arg
<1>3. CASE sm = "PortInactive" /\ Arg = "INACTIVE"
  <2>1. PICK job \in Mains : SmGoes(sm, <<job>>) /\ UNCHANGED <<dl, main>>
    BY <1>3 DEF ModeInd, Mains
  <2>2. Quiet /\ (Confirmed' => Confirmed)
    BY <1>1, <2>1, TakesPlain DEF SmGoes
  <2> QED BY <1>1, <2>1, <2>2, MailOnly DEF SmGoes, appVars, dataVars
<1>4. CASE sm = "waitonDLPreoperate" /\ Arg = "PREOPERATE"
  BY <1>1, <1>4, StartupReached DEF ModeInd, First, Arg
<1>5. CASE sm = "SMOperate" /\ Arg = "OPERATE"
  BY <1>1, <1>5, OperateReached DEF ModeInd
<1>6. CASE ComlostEvent
  BY <1>1, <1>6, ComlostEventOrder
<1>7. CASE SmStays
  BY <1>1, <1>7, SmStaysOrder
<1> QED BY <1>2, <1>3, <1>4, <1>5, <1>6, <1>7 DEF ModeInd

LEMMA SmOperateReqOrder == ASSUME OrderInv, Orderly, SmOperateReq PROVE OrderInv'
<1>1. Inv' /\ main = "job" /\ mbox # <<>>
  BY NextInv DEF OrderInv, Next, MainThread, SmOperateReq, Took
<1>2. CASE SmStays
  BY <1>1, <1>2, SmStaysOrder
<1>3. CASE sm = "wait" /\ SmGoes("wait_devmode_cnf", <<>>) /\ DL_Write_Devicemode_req("OPERATE")
  <2>1. /\ dl'.command = "DEVICE_OPERATE"
        /\ dl.code = "NONE" /\ dl'.code = "NONE" /\ dl'.od = dl.od /\ dl'.cmdh = dl.cmdh
        /\ dl'.txOd = dl.txOd /\ dl'.chActive = dl.chActive
        /\ dl.od # "COMMAND" /\ ~CallOpen /\ main' = "code" /\ Frame(dl, dl')
        /\ dl'.pc = dl.pc /\ dl'.posts = <<>>
    BY <1>3, DevicemodeDl
  <2>2. Quiet /\ (Confirmed' => Confirmed)
    BY <1>1, <1>3, TakesPlain DEF SmGoes
  <2>3. sm = "wait" /\ sm' = "wait_devmode_cnf"
        /\ UNCHANGED <<cm, pde, app, enabler, wire, device, pdout>>
    BY <1>3 DEF SmGoes, appVars, dataVars
  <2>4. BaseInv' /\ QueueInv'
    BY <2>1, <2>2, <2>3 DEF OrderInv, BaseInv, Quiet, Frame
  <2>5. CallInv'
    BY <2>1, <2>2, <2>3 DEF OrderInv, CallInv, Frame
  <2>6. HandlersInv'
    BY <2>1, <2>2, <2>3 DEF OrderInv, HandlersInv, CallOpen, Frame
  <2>7. StartInv'
    BY <2>1, <2>2, <2>3 DEF OrderInv, StartInv, Clean, Quiet, Frame
  <2>8. ConfigInv'
    BY <2>1, <2>2, <2>3 DEF OrderInv, ConfigInv, Clean, Quiet, Frame
  <2>9. ValidInv'
    BY <2>1, <2>2, <2>3 DEF OrderInv, ValidInv, HandlersInv, Frame
  <2>10. FreshInv'
    BY <2>1, <2>2, <2>3 DEF OrderInv, FreshInv, Frame
  <2>11. FallbackInv'
    BY <2>1, <2>2, <2>3 DEF OrderInv, FallbackInv, Frame
  <2> QED BY <1>1, <2>4, <2>5, <2>6, <2>7, <2>8, <2>9, <2>10, <2>11 DEF OrderInv
<1> QED BY <1>2, <1>3 DEF SmOperateReq

LEMMA DevmodeCnfOrder == ASSUME OrderInv, DevmodeCnf PROVE OrderInv'
<1>1. Inv' /\ main = "job" /\ mbox # <<>> /\ dl \in DlRecord
  BY NextInv DEF OrderInv, Next, MainThread, DevmodeCnf, Took, Inv, TypeInv
<1>2. CASE ComlostEvent
  BY <1>1, <1>2, ComlostEventOrder
<1>3. CASE sm = "wait_devmode_cnf" \/ sm = "waitForFallback"
  <2>1. PICK mode \in {"OPERATE", "INACTIVE"} : DL_SetMode_req(mode)
    BY <1>3 DEF DevmodeCnf
  <2>2. /\ dl'.mode = mode /\ dl'.mdhEvent /\ dl'.mdh = dl.mdh /\ dl'.comlost = dl.comlost
        /\ dl'.txOut = dl.txOut /\ dl'.pc = dl.pc /\ dl'.posts = dl.posts /\ Call(dl, dl')
        /\ mode # "STARTUP"
    BY <1>1, <2>1, SetModeDl
  <2>3. sm' \in {"SMOperate", "PortInactive"} /\ main' = "job" /\ main = "job"
        /\ UNCHANGED <<cm, pde, app, enabler, wire, device, pdout>>
    BY <1>1, <1>3 DEF DevmodeCnf, SmGoes, appVars, dataVars
  <2>4. Quiet /\ (Confirmed' => Confirmed)
    <3>1. CASE sm = "wait_devmode_cnf"
      BY <1>1, <3>1, TakesPlain DEF DevmodeCnf, SmGoes
    <3>2. CASE sm = "waitForFallback"
      BY <1>1, <3>2, TakesPlain DEF DevmodeCnf, SmGoes, Mains
    <3> QED BY <1>3, <3>1, <3>2
  <2>5. ~StartupTold /\ ~PreoperateTold /\ ~CfgStarts /\ ~SmStarts /\ NoConfiguration
    BY <1>3 DEF OrderInv, StartInv, ConfigInv
  <2>6. BaseInv' /\ QueueInv'
    BY <2>2, <2>3, <2>4, <2>5 DEF OrderInv, BaseInv, Quiet, Call
  <2>7. CallInv'
    BY <2>2, <2>3, <2>4, <2>5 DEF OrderInv, CallInv, Call
  <2>8. HandlersInv'
    BY <2>2, <2>3, <2>4, <2>5 DEF OrderInv, HandlersInv, CallOpen, Call
  <2>9. StartInv'
    BY <2>2, <2>3, <2>4, <2>5 DEF OrderInv, StartInv, Clean, Quiet, Call
  <2>10. ConfigInv'
    BY <2>2, <2>3, <2>4, <2>5 DEF OrderInv, ConfigInv, Clean, Quiet, Call
  <2>11. ValidInv'
    BY <2>2, <2>3, <2>4, <2>5 DEF OrderInv, ValidInv, HandlersInv, Call
  <2>12. FreshInv'
    BY <2>2, <2>3, <2>4, <2>5 DEF OrderInv, FreshInv, Call
  <2>13. FallbackInv'
    BY <2>2, <2>3, <2>4, <2>5 DEF OrderInv, FallbackInv, Call
  <2> QED BY <1>1, <2>6, <2>7, <2>8, <2>9, <2>10, <2>11, <2>12, <2>13 DEF OrderInv
<1> QED BY <1>2, <1>3 DEF DevmodeCnf

LEMMA SetPortCfgOrder == ASSUME OrderInv, Orderly, SetPortCfg PROVE OrderInv'
<1>1. Inv' /\ main = "job" /\ mbox # <<>> /\ dl \in DlRecord /\ Head(mbox).type = "SM_CFG"
      /\ dl.posts = <<>>
  BY NextInv DEF OrderInv, Next, MainThread, SetPortCfg, Took, Inv, TypeInv, BaseInv
<1>2. /\ Quiet /\ (Confirmed' => Confirmed) /\ NoConfiguration'
      /\ Arg = "CFGCOM" => ~OperateTold'
  <2>1. Quiet /\ (Confirmed' => Confirmed) /\ Gone
    BY <1>1, TakesPlain DEF SetPortCfg, Mains
  <2> QED BY <1>1, <2>1 DEF Gone, Arg
<1>3. UNCHANGED <<cm, pde, app, enabler, wire, device, pdout>>
  BY DEF SetPortCfg, appVars, dataVars
<1>4. /\ ~NoConfiguration
      /\ Arg = "CFGCOM" => SmStarts
      /\ Arg = "INACTIVE" => SmStops
  BY <1>1, FirstTold DEF First, Arg, OrderInv, BaseInv
<1>5. /\ Clean /\ app.pc = "idle" /\ dl.mode # "STARTUP"
      /\ ~StartupTold /\ ~PreoperateTold
      /\ Arg = "CFGCOM" => dl.mdh = "IDLE" /\ ~ModeTold /\ ~pde.active
      /\ Arg = "INACTIVE" => cm = "Deactivated"
  BY <1>4 DEF OrderInv, ConfigInv, StartInv
<1>6. ~CfgStarts' /\ ~SmStarts' /\ ~SmStops'
  <2>1. Told'
    BY ToldHolds, PTL
  <2> QED BY <1>2, <2>1 DEF Told
<1>7. CASE /\ sm = "PortInactive" /\ sm' = sm /\ main' = main
           /\ \/ Arg = "CFGCOM" /\ DL_SetMode_req("STARTUP")
              \/ DL_SetMode_req("INACTIVE")
  <2>1. PICK mode \in {"STARTUP", "INACTIVE"} :
           DL_SetMode_req(mode) /\ (mode = "STARTUP" => Arg = "CFGCOM")
    BY <1>7
  <2>2. /\ dl'.mode = mode /\ dl'.mdhEvent /\ dl'.mdh = dl.mdh /\ dl'.comlost = dl.comlost
        /\ dl'.txOut = dl.txOut /\ dl'.pc = dl.pc /\ dl'.posts = <<>> /\ Call(dl, dl')
    BY <1>1, <2>1, SetModeDl
  <2>3. mode = "STARTUP" =>
           /\ dl.mdh = "IDLE" /\ ~ModeTold' /\ OnlyStartModes' /\ ~pde.active /\ ~OperateTold'
    <3>1. ~ModeTold => OnlyStartModes
      BY ToldHolds DEF Told
    <3> QED BY <1>2, <1>5, <2>1, <3>1 DEF Quiet
  <2>4. sm = "PortInactive" /\ sm' = sm /\ main = "job" /\ main' = "job"
    BY <1>1, <1>7
  <2>5. BaseInv' /\ QueueInv'
    BY <1>2, <1>3, <1>5, <1>6, <2>2, <2>3, <2>4 DEF OrderInv, BaseInv, Quiet, Call
  <2>6. CallInv'
    BY <1>2, <1>3, <1>5, <1>6, <2>2, <2>3, <2>4 DEF OrderInv, CallInv, Call
  <2>7. HandlersInv'
    BY <1>2, <1>3, <1>5, <1>6, <2>2, <2>3, <2>4 DEF OrderInv, HandlersInv, CallOpen, Call
  <2>8. StartInv'
    BY <1>2, <1>3, <1>5, <1>6, <2>2, <2>3, <2>4 DEF OrderInv, StartInv, Clean, Quiet, Call
  <2>9. ConfigInv'
    BY <1>2, <1>3, <1>5, <1>6, <2>2, <2>3, <2>4 DEF OrderInv, ConfigInv, Clean, Quiet, Call
  <2>10. ValidInv'
    BY <1>2, <1>3, <1>5, <1>6, <2>2, <2>3, <2>4 DEF OrderInv, ValidInv, HandlersInv, Call
  <2>11. FreshInv'
    BY <1>2, <1>3, <1>5, <1>6, <2>2, <2>3, <2>4 DEF OrderInv, FreshInv, Call
  <2>12. FallbackInv'
    BY <1>2, <1>3, <1>5, <1>6, <2>2, <2>3, <2>4 DEF OrderInv, FallbackInv, Call
  <2> QED BY <1>1, <2>5, <2>6, <2>7, <2>8, <2>9, <2>10, <2>11, <2>12 DEF OrderInv
<1>8. CASE sm = "SMOperate" /\ Arg = "INACTIVE" /\ DL_Write_Devicemode_req("INACTIVE")
           /\ sm' = "waitForFallback"
  <2>1. /\ dl'.command = "FALLBACK"
        /\ dl.code = "NONE" /\ dl'.code = "NONE" /\ dl'.od = dl.od /\ dl'.cmdh = dl.cmdh
        /\ dl'.txOd = dl.txOd /\ dl'.chActive = dl.chActive
        /\ dl.od # "COMMAND" /\ ~CallOpen /\ main' = "code" /\ Frame(dl, dl')
        /\ dl'.pc = dl.pc /\ dl'.posts = <<>>
    BY <1>8, DevicemodeDl
  <2>2. sm = "SMOperate" /\ sm' = "waitForFallback" /\ cm = "Deactivated"
    BY <1>5, <1>8
  <2>3. BaseInv' /\ QueueInv'
    BY <1>2, <1>3, <1>5, <1>6, <2>1, <2>2 DEF OrderInv, BaseInv, Quiet, Frame
  <2>4. CallInv'
    BY <1>2, <1>3, <1>5, <1>6, <2>1, <2>2 DEF OrderInv, CallInv, Frame
  <2>5. HandlersInv'
    BY <1>2, <1>3, <1>5, <1>6, <2>1, <2>2 DEF OrderInv, HandlersInv, CallOpen, Frame
  <2>6. StartInv'
    BY <1>2, <1>3, <1>5, <1>6, <2>1, <2>2 DEF OrderInv, StartInv, Clean, Quiet, Frame
  <2>7. ConfigInv'
    BY <1>2, <1>3, <1>5, <1>6, <2>1, <2>2 DEF OrderInv, ConfigInv, Clean, Quiet, Frame
  <2>8. ValidInv'
    BY <1>2, <1>3, <1>5, <1>6, <2>1, <2>2 DEF OrderInv, ValidInv, HandlersInv, Frame
  <2>9. FreshInv'
    BY <1>2, <1>3, <1>5, <1>6, <2>1, <2>2 DEF OrderInv, FreshInv, Frame
  <2>10. FallbackInv'
    BY <1>2, <1>3, <1>5, <1>6, <2>1, <2>2 DEF OrderInv, FallbackInv, Clean, Frame
  <2> QED BY <1>1, <2>3, <2>4, <2>5, <2>6, <2>7, <2>8, <2>9, <2>10 DEF OrderInv
<1> QED BY <1>7, <1>8 DEF SetPortCfg

(* The CM takes a configuration and hands it to the SM.                    *)
LEMMA CfgChangeOrder == ASSUME OrderInv, CfgChange PROVE OrderInv'
<1>1. Inv' /\ main = "job" /\ mbox # <<>> /\ Head(mbox).type = "CFG" /\ mbox \in Seq(Jobs)
      /\ QueueInv
  BY NextInv DEF OrderInv, Next, MainThread, CfgChange, Took, BaseInv
<1> DEFINE job == Job("SM_CFG", Arg)
           jobs == <<job>>
           news == {job}
<1>2. Head(mbox) = mbox[1] /\ Len(mbox) \in Nat \ {0} /\ Head(mbox) \in Jobs
      /\ ~NoConfiguration /\ (Arg = "CFGCOM" => CfgStarts)
  BY <1>1, FirstTold DEF First, Arg
<1>3. job \in Jobs
  <2>1. Arg \in Args
    BY <1>2 DEF Arg, Jobs
  <2> QED BY <2>1 DEF Job, Jobs, Types
<1>4. mbox' = Tail(mbox) \o jobs /\ job.type = "SM_CFG" /\ job.arg = Arg
  BY DEF CfgChange, Posting, Job
<1> HIDE DEF job
<1>5. jobs \in Seq(Jobs) /\ {jobs[k] : k \in 1 .. Len(jobs)} = news /\ Len(jobs) = 1
  BY <1>3
<1> HIDE DEF jobs
<1>6. mbox' \in Seq(Jobs) /\ Gain(1, news)
  BY <1>1, <1>4, <1>5, Takes
<1>7. Adds(news) /\ Len(mbox') \in Nat
  BY <1>1, <1>6, GainAdds
<1>8. Len(mbox') = Len(mbox)
  <2>1. PICK t : t = Tail(mbox)
    OBVIOUS
  <2>2. t \in Seq(Jobs) /\ Len(t) = Len(mbox) - 1
    BY <1>1, <2>1
  <2>3. mbox' = t \o jobs
    BY <1>4, <2>1
  <2>4. Len(mbox') = Len(t) + Len(jobs)
    <3>1. t \in Seq(Jobs) /\ jobs \in Seq(Jobs) /\ mbox' = t \o jobs
      BY <1>5, <2>2, <2>3
    <3> QED BY <3>1
  <2> QED BY <1>2, <1>5, <2>2, <2>4
<1>9. Configures(1)
  BY <1>1, <1>2 DEF Configures
<1>10. \A i \in 1 .. Len(mbox') :
          \/ /\ i < Len(mbox') /\ i + 1 \in 1 .. Len(mbox) /\ mbox'[i] = mbox[i + 1]
             /\ mbox'[i].type \notin {"CFG", "SM_CFG"}
          \/ i = Len(mbox') /\ mbox'[i] = job
  <2>1. ASSUME NEW i \in 1 .. Len(mbox)
        PROVE  \/ /\ i < Len(mbox') /\ i + 1 \in 1 .. Len(mbox) /\ mbox'[i] = mbox[i + 1]
                  /\ mbox'[i].type \notin {"CFG", "SM_CFG"}
               \/ i = Len(mbox') /\ mbox'[i] = job
    <3>1. CASE i < Len(mbox)
      <4>1. i + 1 \in 1 .. Len(mbox) /\ mbox'[i] = mbox[i + 1] /\ i + 1 # 1
        BY <1>2, <1>6, <1>8, <3>1 DEF Gain
      <4>2. ~Configures(i + 1)
        BY <1>1, <1>2, <1>9, <4>1 DEF QueueInv
      <4> QED BY <1>8, <3>1, <4>1, <4>2 DEF Configures
    <3>2. CASE i = Len(mbox)
      BY <1>2, <1>6, <1>8, <3>2 DEF Gain
    <3> QED BY <1>2, <3>1, <3>2
  <2> QED BY <1>8, <2>1
<1>11. QueueInv'
  <2>1. ASSUME NEW arg \in {"STARTUP", "PREOPERATE"},
               NEW i \in 1 .. Len(mbox'), NEW j \in 1 .. Len(mbox'),
               mbox'[i].type = "MODE", mbox'[i].arg = arg,
               mbox'[j].type = "MODE", mbox'[j].arg = arg
        PROVE  i = j
    <3>1. /\ i + 1 \in 1 .. Len(mbox) /\ mbox'[i] = mbox[i + 1]
          /\ j + 1 \in 1 .. Len(mbox) /\ mbox'[j] = mbox[j + 1]
      BY <1>4, <1>10, <2>1
    <3>2. At(i + 1, "MODE", arg) /\ At(j + 1, "MODE", arg)
      BY <2>1, <3>1 DEF At
    <3>3. i + 1 = j + 1
      BY <1>1, <2>1, <3>1, <3>2 DEF QueueInv, Once
    <3> QED BY <1>7, <3>3
  <2>2. Once("MODE", "STARTUP")' /\ Once("MODE", "PREOPERATE")'
    BY <2>1 DEF Once, At
  <2>3. \A i \in 1 .. Len(mbox') : Configures(i)' => i = Len(mbox')
    BY <1>10 DEF Configures
  <2>4. (\A i, j \in 1 .. Len(mbox) : Configures(i) /\ Configures(j) => i = j)'
    BY <2>3
  <2>5. (\A i, j \in 1 .. Len(mbox) : i < j /\ StartsAt(i) => ~At(j, "PORT", "OPERATE"))'
    BY <1>7, <2>3 DEF StartsAt
  <2> QED BY <2>2, <2>4, <2>5 DEF QueueInv
<1>12. /\ ~CfgStarts'
       /\ SmStarts' => Arg = "CFGCOM"
       /\ SmStops' => Arg = "INACTIVE"
  BY <1>4, <1>10 DEF CfgStarts, SmStarts, SmStops, Has, At
<1>13. /\ StartupTold' => StartupTold
       /\ PreoperateTold' => PreoperateTold
       /\ ModeTold' => ModeTold
       /\ Confirmed' => Confirmed
       /\ OperateTold' => OperateTold
       /\ OnlyStartModes => OnlyStartModes'
  BY <1>4, <1>7 DEF Adds
<1>14. Arg = "CFGCOM" => ~OperateTold'
  <2> SUFFICES ASSUME Arg = "CFGCOM", NEW i \in 1 .. Len(mbox'), At(i, "PORT", "OPERATE")'
               PROVE  FALSE
    BY DEF OperateTold, Has
  <2>1. i + 1 \in 1 .. Len(mbox) /\ mbox'[i] = mbox[i + 1] /\ 1 < i + 1
    BY <1>4, <1>7, <1>10 DEF At
  <2>2. StartsAt(1) /\ At(i + 1, "PORT", "OPERATE") /\ 1 \in 1 .. Len(mbox)
    BY <1>2, <1>9, <2>1 DEF StartsAt, At, Arg
  <2> QED BY <1>1, <2>1, <2>2 DEF QueueInv
<1>15. /\ sm \in {"SMOperate", "PortInactive"} /\ dl.mode # "STARTUP" /\ Clean /\ app.pc = "idle"
       /\ Arg = "CFGCOM" => sm = "PortInactive" /\ dl.mdh = "IDLE" /\ ~ModeTold
  BY <1>2 DEF OrderInv, ConfigInv
<1>16. /\ UNCHANGED <<sm, app, enabler, dl, main, wire, device, pdout>>
       /\ pde' = [active |-> FALSE, oe |-> FALSE]
       /\ cm' = IF Arg = "CFGCOM" THEN "Startup" ELSE "Deactivated"
  BY DEF CfgChange, PD_Stop, dataVars
<1>17. /\ ~pde'.active
       /\ cm' = "Startup" => Arg = "CFGCOM"
       /\ (Arg # "CFGCOM" => cm' = "Deactivated")
  BY <1>16
<1>18. BaseInv' /\ CallInv'
  BY <1>6, <1>15, <1>16, <1>17 DEF OrderInv, BaseInv, CallInv
<1>19. HandlersInv' /\ FreshInv'
  BY <1>16 DEF OrderInv, HandlersInv, CallOpen, FreshInv
<1>20. StartInv' /\ ConfigInv'
  BY <1>12, <1>13, <1>14, <1>15, <1>16, <1>17 DEF OrderInv, StartInv, ConfigInv, Clean
<1>21. ValidInv' /\ FallbackInv'
  BY <1>15, <1>16, <1>17 DEF ValidInv, FallbackInv
<1> QED BY <1>1, <1>11, <1>18, <1>19, <1>20, <1>21 DEF OrderInv

LEMMA PortModeOrder == ASSUME OrderInv, PortMode PROVE OrderInv'
<1>1. Inv' /\ main = "job" /\ mbox # <<>> /\ Head(mbox).type = "PORT"
      /\ pde \in [active : BOOLEAN, oe : BOOLEAN] /\ cm \in CmStates
  BY NextInv DEF OrderInv, Next, MainThread, PortMode, Took, Inv, TypeInv
<1>2. Quiet /\ (Confirmed' => Confirmed)
  BY <1>1, TakesPlain DEF PortMode
<1>3. UNCHANGED <<sm, app, enabler, dl, main, wire, device, pdout>>
  BY DEF PortMode, dataVars
<1>4. CASE Arg = "OPERATE" /\ cm = "Startup"
  <2>1. cm' = "Port_Active" /\ pde'.active /\ pde'.oe = pde.oe
    BY <1>1, <1>4 DEF PortMode
  <2>2. OperateTold
    BY <1>1, <1>4, FirstTold DEF First, Arg, OrderInv, BaseInv
  <2>3. dl.mode # "STARTUP" /\ ~SmStarts /\ ~SmStops /\ sm # "waitForFallback" /\ cm = "Startup"
    BY <1>4, <2>2 DEF OrderInv, StartInv, ConfigInv
  <2>4. BaseInv' /\ QueueInv'
    BY <1>2, <1>3, <2>1, <2>3 DEF OrderInv, BaseInv, Quiet, Clean
  <2>5. CallInv'
    BY <1>2, <1>3, <2>1, <2>3 DEF OrderInv, CallInv, Clean
  <2>6. HandlersInv'
    BY <1>2, <1>3, <2>1, <2>3 DEF OrderInv, HandlersInv, CallOpen, Clean
  <2>7. StartInv'
    BY <1>2, <1>3, <2>1, <2>3 DEF OrderInv, StartInv, Clean, Quiet
  <2>8. ConfigInv'
    BY <1>2, <1>3, <2>1, <2>3 DEF OrderInv, ConfigInv, Clean, Quiet
  <2>9. ValidInv'
    BY <1>2, <1>3, <2>1, <2>3 DEF OrderInv, ValidInv, HandlersInv, Clean
  <2>10. FreshInv'
    BY <1>2, <1>3, <2>1, <2>3 DEF OrderInv, FreshInv, Clean
  <2>11. FallbackInv'
    BY <1>2, <1>3, <2>1, <2>3 DEF OrderInv, FallbackInv, Clean
  <2> QED BY <1>1, <2>4, <2>5, <2>6, <2>7, <2>8, <2>9, <2>10, <2>11 DEF OrderInv
<1>5. CASE Arg = "COMLOST" /\ cm \in {"Startup", "Port_Active"}
  <2>1. cm' = "CheckPortMode" /\ pde' = pde
    BY <1>1, <1>5 DEF PortMode
  <2>2. ~SmStops /\ sm # "waitForFallback"
    BY <1>5 DEF OrderInv, ConfigInv
  <2>3. BaseInv' /\ QueueInv'
    BY <1>2, <1>3, <2>1, <2>2 DEF OrderInv, BaseInv, Quiet, Clean
  <2>4. CallInv'
    BY <1>2, <1>3, <2>1, <2>2 DEF OrderInv, CallInv, Clean
  <2>5. HandlersInv'
    BY <1>2, <1>3, <2>1, <2>2 DEF OrderInv, HandlersInv, CallOpen, Clean
  <2>6. StartInv'
    BY <1>2, <1>3, <2>1, <2>2 DEF OrderInv, StartInv, Clean, Quiet
  <2>7. ConfigInv'
    BY <1>2, <1>3, <2>1, <2>2 DEF OrderInv, ConfigInv, Clean, Quiet
  <2>8. ValidInv'
    BY <1>2, <1>3, <2>1, <2>2 DEF OrderInv, ValidInv, HandlersInv, Clean
  <2>9. FreshInv'
    BY <1>2, <1>3, <2>1, <2>2 DEF OrderInv, FreshInv, Clean
  <2>10. FallbackInv'
    BY <1>2, <1>3, <2>1, <2>2 DEF OrderInv, FallbackInv, Clean
  <2> QED BY <1>1, <2>3, <2>4, <2>5, <2>6, <2>7, <2>8, <2>9, <2>10 DEF OrderInv
<1>6. CASE UNCHANGED <<cm, pde>>
  BY <1>1, <1>2, <1>3, <1>6, MailOnly
<1> QED BY <1>4, <1>5, <1>6 DEF PortMode

LEMMA ControlIndOrder == ASSUME OrderInv, ControlInd PROVE OrderInv'
<1>1. Inv' /\ mbox # <<>>
  BY NextInv DEF OrderInv, Next, MainThread, ControlInd, Took
<1>2. Quiet /\ (Confirmed' => Confirmed)
  BY <1>1, TakesPlain DEF ControlInd
<1> QED BY <1>1, <1>2, MailOnly DEF ControlInd, appVars, dataVars

-----------------------------------------------------------------------------
(* The application.                                                        *)
LEMMA ConfigureOrder ==
    ASSUME OrderInv, Calm, NEW mode \in {"INACTIVE", "CFGCOM"}, Configure(mode)
    PROVE  OrderInv'
<1>1. Inv' /\ mbox \in Seq(Jobs) /\ QueueInv /\ main \in {"job", "code", "cmd"}
  BY NextInv DEF OrderInv, Next, BaseInv
<1> DEFINE job == Job("CFG", mode)
<1>2. job \in Jobs /\ job.type = "CFG" /\ job.arg = mode
  BY DEF Job, Jobs, Types, Args
<1>3. mbox' = Append(mbox, job)
  BY DEF Configure
<1> HIDE DEF job
<1>4. /\ mbox' \in Seq(Jobs) /\ Len(mbox) \in Nat /\ Len(mbox') = Len(mbox) + 1
      /\ \A i \in 1 .. Len(mbox) : mbox'[i] = mbox[i]
      /\ mbox'[Len(mbox) + 1] = job
  BY <1>1, <1>2, <1>3
<1>5. \A i \in 1 .. Len(mbox) : mbox[i].type \notin {"CFG", "SM_CFG"}
  BY DEF Configure, NoConfiguration, Waiting
<1>6. \A i \in 1 .. Len(mbox') :
         \/ i \in 1 .. Len(mbox) /\ mbox'[i] = mbox[i] /\ mbox'[i].type \notin {"CFG", "SM_CFG"}
         \/ i = Len(mbox') /\ mbox'[i] = job
  BY <1>4, <1>5
<1>7. QueueInv'
  <2>1. Once("MODE", "STARTUP")' /\ Once("MODE", "PREOPERATE")'
    BY <1>1, <1>2, <1>6 DEF QueueInv, Once, At
  <2>2. \A i \in 1 .. Len(mbox') : Configures(i)' => i = Len(mbox')
    BY <1>6 DEF Configures
  <2>3. (\A i, j \in 1 .. Len(mbox) : Configures(i) /\ Configures(j) => i = j)'
    BY <2>2
  <2>4. (\A i, j \in 1 .. Len(mbox) : i < j /\ StartsAt(i) => ~At(j, "PORT", "OPERATE"))'
    BY <1>4, <2>2 DEF StartsAt
  <2> QED BY <2>1, <2>3, <2>4 DEF QueueInv
<1>8. Gain(0, {job})
  BY <1>4 DEF Gain
<1>9. Adds({job})
  BY <1>1, <1>4, <1>8, GainAdds
<1>10. /\ StartupTold' => StartupTold
       /\ PreoperateTold' => PreoperateTold
       /\ ModeTold' => ModeTold
       /\ Confirmed' => Confirmed
       /\ OperateTold' => OperateTold
       /\ OnlyStartModes => OnlyStartModes'
       /\ SmStarts' => SmStarts
       /\ SmStops' => SmStops
       /\ CfgStarts' => CfgStarts \/ mode = "CFGCOM"
  BY <1>2, <1>9 DEF Adds
<1>11. /\ NoConfiguration /\ Settled /\ (mode = "CFGCOM" => sm = "PortInactive")
       /\ app.pc = "idle" /\ dl.code = "NONE" /\ dl.od # "COMMAND" /\ ~Confirmed
  BY DEF Configure, Confirmed
<1>12. ~CfgStarts /\ ~SmStarts /\ ~SmStops
  BY <1>11, ToldHolds DEF Told
<1>13. /\ main = "job" /\ dl.mode # "STARTUP" /\ Clean /\ sm \in {"SMOperate", "PortInactive"}
       /\ mode = "CFGCOM" => dl.mdh = "IDLE" /\ ~ModeTold
  BY <1>1, <1>11 DEF Settled, OrderInv, CallInv, StartInv, Clean, ModeTold
<1>14. UNCHANGED <<dl, wire, device, pdout, main, sm, cm, pde, app, enabler>>
  BY DEF Configure, smVars, appVars, dataVars
<1>15. BaseInv' /\ CallInv' /\ FreshInv'
  BY <1>4, <1>14 DEF OrderInv, BaseInv, CallInv, FreshInv
<1>16. HandlersInv' /\ ValidInv'
  BY <1>14 DEF OrderInv, HandlersInv, CallOpen, ValidInv
<1>17. StartInv'
  BY <1>10, <1>14 DEF OrderInv, StartInv, Clean
<1>18. ConfigInv'
  BY <1>10, <1>11, <1>12, <1>13, <1>14 DEF OrderInv, ConfigInv, Clean
<1>19. FallbackInv'
  BY <1>13, <1>14 DEF FallbackInv
<1> QED BY <1>1, <1>7, <1>15, <1>16, <1>17, <1>18, <1>19 DEF OrderInv

(* A call that goes on, without the command handler.                       *)
LEMMA AppGoesOrder ==
    ASSUME OrderInv, Inv', pde.active, NoConfiguration, app'.pc # "cmd", app.pc # "cmd",
           app'.pc = "control" => pde.oe # app'.oe,
           UNCHANGED <<dl, wire, device, main, sm, cm, pde, mbox>>, FreshInv'
    PROVE  OrderInv'
<1>1. Quiet /\ (Confirmed' => Confirmed)
  BY MailStays
<1>2. dl.mode # "STARTUP"
  BY DEF OrderInv, StartInv
<1>3. BaseInv' /\ CallInv' /\ QueueInv'
  BY <1>1 DEF OrderInv, BaseInv, CallInv, Quiet
<1>4. HandlersInv' /\ ValidInv' /\ FallbackInv'
  BY <1>1 DEF OrderInv, HandlersInv, CallOpen, ValidInv, FallbackInv
<1>5. StartInv' /\ ConfigInv'
  BY <1>1, <1>2 DEF OrderInv, StartInv, ConfigInv, Clean, Quiet
<1> QED BY <1>3, <1>4, <1>5 DEF OrderInv

LEMMA AppRanges ==
    Inv => /\ app \in AppRecord /\ app.no \in Nat /\ app.oe \in BOOLEAN /\ enabler \in Nat
           /\ pdout \in Reqs \X Reqs /\ pdout[1] \in Nat /\ dl.txOut[1] \in Nat
           /\ pde \in [active : BOOLEAN, oe : BOOLEAN]
<1> SUFFICES ASSUME Inv
             PROVE  /\ app \in AppRecord /\ app.no \in Nat /\ app.oe \in BOOLEAN /\ enabler \in Nat
                    /\ pdout \in Reqs \X Reqs /\ pdout[1] \in Nat /\ dl.txOut[1] \in Nat
                    /\ pde \in [active : BOOLEAN, oe : BOOLEAN]
  OBVIOUS
<1>1. Reqs \subseteq Nat
  BY DataAssumption DEF Reqs
<1>2. dl.txOut \in Reqs \X Reqs
  BY DEF Inv, TypeInv, DlRecord
<1>3. app.no \in Reqs /\ app.oe \in BOOLEAN
  BY DEF Inv, TypeInv, AppRecord
<1> QED BY <1>1, <1>2, <1>3 DEF Inv, TypeInv

LEMMA PDOutOrder == ASSUME OrderInv, Calm, NEW oe \in BOOLEAN, PDOut(oe) PROVE OrderInv'
<1>1. Inv' /\ NoConfiguration /\ pde.active /\ app.pc = "idle"
  BY NextInv DEF OrderInv, Next, PDOut
<1>2. /\ app' = [pc |-> "output", no |-> app.no + 1, oe |-> oe]
      /\ UNCHANGED <<dl, wire, device, main, sm, cm, pde, mbox, pdout, enabler>>
  BY DEF PDOut, AppGoes, dataVars, smVars
<1>3. app'.pc = "output" /\ app'.no = app.no + 1
  BY <1>2
<1>4. FreshInv'
  BY <1>2, <1>3, AppRanges DEF OrderInv, FreshInv
<1> QED BY <1>1, <1>2, <1>3, <1>4, AppGoesOrder

LEMMA SetOutputOrder == ASSUME OrderInv, SetOutput PROVE OrderInv'
<1>1. Inv' /\ app.pc = "output" /\ pde.active /\ NoConfiguration /\ Inv
  BY NextInv DEF OrderInv, Next, AppCall, SetOutput, CallInv, ConfigInv
<1>2. UNCHANGED <<dl, wire, device, main, sm, cm, pde, mbox, enabler>>
  BY DEF SetOutput, AppGoes, smVars
<1>3. \/ app' = [app EXCEPT !.pc = "idle"] /\ pdout' = pdout
      \/ app' = [app EXCEPT !.pc = "copy"] /\ pdout' = [pdout EXCEPT ![1] = app.no]
  BY DEF SetOutput, AppGoes
<1>4. /\ app'.no = app.no
      /\ \/ app'.pc = "idle" /\ pdout'[1] = pdout[1]
         \/ app'.pc = "copy" /\ pdout'[1] = app.no
  BY <1>1, <1>3, AppRanges DEF AppRecord
<1>5. FreshInv'
  BY <1>1, <1>2, <1>4, AppRanges DEF OrderInv, FreshInv
<1> QED BY <1>1, <1>2, <1>4, <1>5, AppGoesOrder

LEMMA OutputSetOrder == ASSUME OrderInv, OutputSet PROVE OrderInv'
<1>1. Inv' /\ app.pc = "copy" /\ pde.active /\ NoConfiguration /\ Inv
  BY NextInv DEF OrderInv, Next, AppCall, OutputSet, CallInv, ConfigInv
<1>2. UNCHANGED <<dl, wire, device, main, sm, cm, pde, mbox, enabler>>
  BY DEF OutputSet, AppGoes, smVars
<1>3. /\ app' = [app EXCEPT !.pc = IF pde.oe # app.oe THEN "control" ELSE "idle"]
      /\ pdout' = [pdout EXCEPT ![2] = app.no]
  BY DEF OutputSet, AppGoes
<1>4. /\ app'.no = app.no /\ app'.oe = app.oe /\ pdout'[1] = pdout[1]
      /\ app'.pc \in {"control", "idle"} /\ (app'.pc = "control" => pde.oe # app.oe)
  BY <1>1, <1>3, AppRanges DEF AppRecord
<1>5. FreshInv'
  BY <1>1, <1>2, <1>4, AppRanges DEF OrderInv, FreshInv
<1> QED BY <1>1, <1>2, <1>4, <1>5, AppGoesOrder

LEMMA ControlReqOrder == ASSUME OrderInv, Orderly, ControlReq PROVE OrderInv'
<1>1. Inv /\ Inv' /\ app.pc = "control" /\ pde.active /\ NoConfiguration /\ dl \in DlRecord
      /\ pde.oe # app.oe /\ app.oe \in BOOLEAN /\ pde.oe \in BOOLEAN /\ dl.posts = <<>>
  BY NextInv, AppRanges
     DEF OrderInv, Next, AppCall, ControlReq, CallInv, ConfigInv, Inv, TypeInv, BaseInv
<1>2. dl.code = "NONE" /\ dl.od # "COMMAND" /\ ~CallOpen
  BY DEF ControlReq, HandlerFree
<1>3. UNCHANGED <<wire, device, main, sm, cm, pde, mbox, pdout>>
  BY DEF ControlReq, AppGoes, dataVars, smVars
<1>4. app'.pc = "cmd" /\ app'.no = app.no /\ app'.oe = app.oe
  BY <1>1, AppRanges DEF ControlReq, AppGoes, AppRecord
<1>5. /\ Frame(dl, dl') /\ dl'.code = (IF app.oe THEN "PDOUTVALID" ELSE "PDOUTINVALID")
      /\ dl'.od = dl.od /\ dl'.cmdh = dl.cmdh
      /\ dl'.command = dl.command /\ dl'.txOd = dl.txOd /\ dl'.chActive = dl.chActive
      /\ dl'.pc = dl.pc /\ dl'.posts = <<>>
  <2>1. PICK code \in {"PDOUTVALID", "PDOUTINVALID"} :
           /\ code = IF app.oe THEN "PDOUTVALID" ELSE "PDOUTINVALID"
           /\ dl' = [dl EXCEPT !.code = code]
    BY DEF ControlReq
  <2> QED BY <1>1, <2>1 DEF Frame, DlRecord, Controls
<1>6. Quiet /\ (Confirmed' => Confirmed)
  BY <1>3, MailStays
<1>7. main = "job" /\ dl.mode # "STARTUP" /\ cm # "Startup" /\ sm # "waitForFallback"
  BY <1>1, <1>2 DEF OrderInv, CallOpen, BaseInv, StartInv, ConfigInv, CallInv
<1>8. enabler' = IF app.oe THEN app.no ELSE 0
  BY DEF ControlReq
<1>9. dl.mdh = "OPERATE" /\ dl.pc \in {"od", "send"} /\ device.valid => pde.oe
  BY <1>1, <1>2 DEF OrderInv, ValidInv, HandlersInv
<1>10. FreshInv'
  BY <1>1, <1>3, <1>4, <1>5, <1>8, <1>9, AppRanges DEF OrderInv, FreshInv, Frame
<1>11. BaseInv' /\ QueueInv' /\ CallInv'
  BY <1>1, <1>2, <1>3, <1>4, <1>5, <1>6, <1>7 DEF OrderInv, BaseInv, Quiet, CallInv
<1>12. HandlersInv'
  BY <1>2, <1>3, <1>4, <1>5, <1>7 DEF OrderInv, HandlersInv, CallOpen, Frame
<1>13. StartInv' /\ ConfigInv'
  BY <1>1, <1>3, <1>5, <1>6, <1>7 DEF OrderInv, StartInv, ConfigInv, Quiet, Frame
<1>14. ValidInv' /\ FallbackInv'
  BY <1>3, <1>4, <1>5, <1>7 DEF OrderInv, ValidInv, FallbackInv, Frame
<1> QED BY <1>1, <1>10, <1>11, <1>12, <1>13, <1>14 DEF OrderInv

LEMMA ControlCmdOrder == ASSUME OrderInv, ControlCmd PROVE OrderInv'
<1>1. /\ Inv /\ Inv' /\ app.pc = "cmd" /\ pde.active /\ NoConfiguration /\ dl \in DlRecord
      /\ main = "job" /\ dl.od # "COMMAND" /\ app.oe \in BOOLEAN /\ dl.posts = <<>>
      /\ dl.code = IF app.oe THEN "PDOUTVALID" ELSE "PDOUTINVALID"
      /\ cm \in {"Port_Active", "CheckPortMode"}
  BY NextInv, AppRanges
     DEF OrderInv, Next, AppCall, ControlCmd, CallInv, ConfigInv, Inv, TypeInv, BaseInv
<1>2. dl.mode # "STARTUP" /\ sm # "waitForFallback"
  BY <1>1 DEF OrderInv, StartInv, ConfigInv
<1>3. dl' = CmdHandler(dl) /\ pde' = [pde EXCEPT !.oe = app.oe] /\ app' = [app EXCEPT !.pc = "idle"]
      /\ UNCHANGED <<wire, device, main, sm, cm, mbox, pdout, enabler>>
  BY DEF ControlCmd, AppGoes, dataVars, smVars
<1>4. /\ Frame(dl, dl') /\ dl'.od = dl.od /\ dl'.chActive = dl.chActive /\ dl'.pc = dl.pc
      /\ dl'.posts = <<>>
  BY <1>1, <1>3, CmdHandles
<1>5. dl.mdh # "IDLE" =>
         /\ dl.chActive /\ dl'.cmdh = "MASTERCOMMAND" /\ dl'.code = dl.code /\ dl'.txOd = dl.txOd
         /\ dl'.command = IF app.oe THEN "PD_OUT_OP" ELSE "DEVICE_OPERATE"
  <2>1. dl.mdh # "IDLE" => dl.chActive /\ dl.cmdh = "IDLE"
    BY <1>1 DEF OrderInv, HandlersInv, CallOpen
  <2> QED BY <1>1, <1>3, <2>1, CmdHandles
<1>6. pde'.active /\ pde'.oe = app.oe /\ app'.pc = "idle" /\ app'.no = app.no
  BY <1>1, <1>3, AppRanges DEF AppRecord
<1>7. Quiet /\ (Confirmed' => Confirmed)
  BY <1>3, MailStays
<1>8. BaseInv' /\ QueueInv' /\ CallInv'
  BY <1>1, <1>3, <1>4, <1>6, <1>7 DEF OrderInv, BaseInv, Quiet, CallInv
<1>9. HandlersInv'
  BY <1>1, <1>3, <1>4, <1>5, <1>6 DEF OrderInv, HandlersInv, CallOpen, Frame
<1>10. StartInv' /\ ConfigInv'
  BY <1>1, <1>2, <1>3, <1>4, <1>7 DEF OrderInv, StartInv, ConfigInv, Quiet, Frame
<1>11. ValidInv'
  BY <1>1, <1>3, <1>4, <1>5, <1>6 DEF OrderInv, ValidInv, Frame
<1>12. FreshInv' /\ FallbackInv'
  BY <1>1, <1>2, <1>3, <1>4, <1>6 DEF OrderInv, FreshInv, FallbackInv, Frame
<1> QED BY <1>1, <1>8, <1>9, <1>10, <1>11, <1>12 DEF OrderInv

LEMMA InputsChangeOrder == ASSUME OrderInv, InputsChange PROVE OrderInv'
<1>1. Inv'
  BY NextInv DEF OrderInv, Next
<1>2. UNCHANGED <<dl, wire, pdout, main, sm, cm, pde, app, enabler, mbox>>
  BY DEF InputsChange, smVars, appVars, dataVars
<1>3. /\ device' \in [valid : BOOLEAN, inputs : BOOLEAN, fallback : BOOLEAN]
      /\ device'.valid = device.valid /\ device'.fallback = device.fallback
  BY DEF InputsChange, OrderInv, BaseInv
<1>4. Quiet /\ (Confirmed' => Confirmed)
  BY <1>2, MailStays
<1>5. BaseInv' /\ QueueInv'
  BY <1>2, <1>3, <1>4 DEF OrderInv, BaseInv, Quiet, Call
<1>6. CallInv'
  BY <1>2, <1>3, <1>4 DEF OrderInv, CallInv, Call
<1>7. HandlersInv'
  BY <1>2, <1>3, <1>4 DEF OrderInv, HandlersInv, CallOpen, Call
<1>8. StartInv'
  BY <1>2, <1>3, <1>4 DEF OrderInv, StartInv, Clean, Quiet, Call
<1>9. ConfigInv'
  BY <1>2, <1>3, <1>4 DEF OrderInv, ConfigInv, Clean, Quiet, Call
<1>10. ValidInv'
  BY <1>2, <1>3, <1>4 DEF OrderInv, ValidInv, HandlersInv, Call
<1>11. FreshInv'
  BY <1>2, <1>3, <1>4 DEF OrderInv, FreshInv, Call
<1>12. FallbackInv'
  BY <1>2, <1>3, <1>4 DEF OrderInv, FallbackInv, Call
<1> QED BY <1>1, <1>5, <1>6, <1>7, <1>8, <1>9, <1>10, <1>11, <1>12 DEF OrderInv

-----------------------------------------------------------------------------
LEMMA NextOrder == ASSUME OrderInv, Orderly, Calm, [Next]_vars PROVE OrderInv'
<1>1. CASE DlThread
  BY <1>1, PD_reqOrder, OdRequestOrder, SendOrder, Reply16Order, InputsDoneOrder, Reply9Order,
     OdReplyOrder, EstablishOrder, GotoOperateOrder, GotoIdleOrder, ModeIgnoredOrder
     DEF DlThread
<1>2. CASE MainThread
  BY <1>2, DevicemodeCodeOrder, DevicemodeCmdOrder, ModeIndOrder, SmOperateReqOrder,
     DevmodeCnfOrder, SetPortCfgOrder, CfgChangeOrder, PortModeOrder, ControlIndOrder
     DEF MainThread
<1>3. CASE AppCall
  BY <1>3, SetOutputOrder, OutputSetOrder, ControlReqOrder, ControlCmdOrder DEF AppCall
<1>4. CASE \E oe \in BOOLEAN : PDOut(oe)
  BY <1>4, PDOutOrder
<1>5. CASE \E mode \in {"INACTIVE", "CFGCOM"} : Configure(mode)
  BY <1>5, ConfigureOrder
<1>6. CASE PreoperateMessage \/ MessageLost \/ InputsChange
  BY <1>6, PreoperateMessageOrder, MessageLostOrder, InputsChangeOrder
<1>7. CASE PDIn \/ UNCHANGED vars
  <2>1. Inv'
    BY <1>7, NextInv DEF OrderInv, Next
  <2>2. UNCHANGED <<dl, wire, device, pdout, main, sm, cm, pde, app, enabler, mbox>>
    BY <1>7 DEF PDIn, Answer, vars, smVars, appVars
  <2> QED BY <2>1, <2>2, MailStays, MailOnly
<1> QED BY <1>1, <1>2, <1>3, <1>4, <1>5, <1>6, <1>7 DEF Next

LEMMA InitOrder == Init => OrderInv
<1> SUFFICES ASSUME Init PROVE OrderInv
  OBVIOUS
<1>1. Inv
  BY InitInv
<1>2. /\ dl.mdh = "IDLE" /\ dl.mode = "INACTIVE" /\ ~dl.comlost /\ dl.pc = "idle"
      /\ dl.od = "INACTIVE" /\ dl.code = "NONE" /\ dl.posts = <<>>
      /\ main = "job" /\ sm = "PortInactive" /\ cm = "Deactivated" /\ ~pde.active
      /\ app.pc = "idle" /\ app.no = 0 /\ enabler = 0 /\ pdout[1] = 0
      /\ device \in [valid : BOOLEAN, inputs : BOOLEAN, fallback : BOOLEAN]
  BY DEF Init, Pair
<1>3. mbox = <<>> /\ mbox \in Seq(Jobs)
  BY DEF Init
<1>4. Len(mbox) = 0
  BY <1>3
<1>5. QueueInv
  BY <1>4 DEF QueueInv, Once
<1>6. ~StartupTold /\ ~PreoperateTold /\ ~CfgStarts /\ ~SmStarts /\ ~SmStops /\ NoConfiguration
      /\ ~Confirmed
  BY <1>4 DEF StartupTold, PreoperateTold, CfgStarts, SmStarts, SmStops, Has,
              NoConfiguration, Confirmed, Waiting
<1>7. BaseInv /\ CallInv /\ HandlersInv
  BY <1>2, <1>3 DEF BaseInv, CallInv, HandlersInv
<1>8. StartInv /\ ConfigInv
  BY <1>2, <1>6 DEF StartInv, ConfigInv
<1>9. ValidInv /\ FreshInv /\ FallbackInv
  BY <1>2 DEF ValidInv, FreshInv, FallbackInv
<1> QED BY <1>1, <1>5, <1>7, <1>8, <1>9 DEF OrderInv

LEMMA OrderHolds == ASSUME Orderly, Calm PROVE Spec => []OrderInv
<1>1. OrderInv /\ [Next]_vars => OrderInv'
  BY NextOrder
<1> QED BY <1>1, InitOrder, PTL DEF Spec

(* Only the DL thread moves itself. *)
LEMMA OthersKeepPc ==
    ASSUME Inv, MainThread \/ AppCall
    PROVE  dl'.pc = dl.pc
<1>1. dl \in DlRecord /\ Handled(dl, CmdHandler(dl))
  BY CmdHandlerType DEF Inv, TypeInv
<1>2. ASSUME NEW mode \in {"INACTIVE", "STARTUP", "OPERATE"}, DL_SetMode_req(mode)
      PROVE  dl'.pc = dl.pc
  BY <1>1, <1>2, SetModeDl
<1>3. ASSUME NEW mode \in {"INACTIVE", "OPERATE"}, DL_Write_Devicemode_req(mode)
      PROVE  dl'.pc = dl.pc
  BY <1>1, <1>3 DEF DL_Write_Devicemode_req, DlRecord
<1>4. CASE DevicemodeCode \/ DevicemodeCmd \/ ControlReq \/ ControlCmd
  <2>1. dl' = CmdHandler(dl) => dl'.pc = dl.pc
    BY <1>1 DEF Handled
  <2>2. \A code : dl' = [dl EXCEPT !.code = code] => dl'.pc = dl.pc
    BY <1>1 DEF DlRecord
  <2> QED BY <1>4, <2>1, <2>2 DEF DevicemodeCode, DevicemodeCmd, ControlReq, ControlCmd
<1>5. CASE CfgChange \/ PortMode \/ ControlInd \/ SetOutput \/ OutputSet
  BY <1>5 DEF CfgChange, PortMode, ControlInd, SetOutput, OutputSet
<1>6. ComlostEvent \/ SmStays => dl'.pc = dl.pc
  BY <1>2 DEF ComlostEvent, Comlost, SmStays
<1>7. CASE ModeInd \/ DevmodeCnf
  BY <1>2, <1>6, <1>7 DEF ModeInd, DevmodeCnf
<1>8. CASE SmOperateReq \/ SetPortCfg
  BY <1>2, <1>3, <1>6, <1>8 DEF SmOperateReq, SetPortCfg
<1> QED BY <1>4, <1>5, <1>7, <1>8 DEF MainThread, AppCall

(* Once a device has been told that its outputs are valid (AL_Control_req, *)
(* write_master_command), no message PL_MessageDownload_req is given       *)
(* carries outputs of before the request that made them valid, for any     *)
(* number of requests, configurations and losses.                          *)
THEOREM OutputsFresh == ASSUME Orderly, Calm PROVE Spec => EnabledOutputsFresh
<1>1. OrderInv /\ [Next]_vars =>
         [(dl.pc = "send" /\ dl'.pc = "wait" /\ dl.mdh = "OPERATE" /\ device.valid)
             => wire'.out[1] >= enabler]_vars
  <2> SUFFICES ASSUME OrderInv, Next, dl.pc = "send", dl'.pc = "wait", dl.mdh = "OPERATE",
                      device.valid
               PROVE  wire'.out[1] >= enabler
    BY DEF vars
  <2>1. dl.txOut[1] >= enabler
    BY DEF OrderInv, FreshInv
  <2>2. Send
    <3>1. MainThread \/ AppCall => dl'.pc = dl.pc
      BY OthersKeepPc DEF OrderInv
    <3>2. PDIn \/ InputsChange \/ (\E oe \in BOOLEAN : PDOut(oe))
          \/ (\E mode \in {"INACTIVE", "CFGCOM"} : Configure(mode)) => dl'.pc = dl.pc
      BY DEF PDIn, Answer, InputsChange, PDOut, Configure
    <3>3. PreoperateMessage \/ MessageLost => dl.pc # "send"
      BY DEF PreoperateMessage, MessageLost
    <3>4. DlThread => Send
      BY DEF DlThread, PD_req, OdRequest, Reply16, InputsDone, Reply9, OdReply, Establish,
             GotoOperate, GotoIdle, ModeIgnored, AtRest
    <3> QED BY <3>1, <3>2, <3>3, <3>4 DEF Next
  <2>3. wire'.out = dl.txOut
    BY <2>2 DEF Send
  <2> QED BY <2>1, <2>3
<1> QED BY <1>1, OrderHolds, PTL DEF Spec, EnabledOutputsFresh

(* sm_DL_Write_Devmode_cnf takes a confirmation for its fallback only when *)
(* the device has been sent FALLBACK, however the confirmation of an       *)
(* earlier device mode, a loss and a configuration fall together.          *)
THEOREM FallbackTaken == ASSUME Orderly, Calm PROVE Spec => FallbackSent
<1>1. OrderInv /\ [Next]_vars =>
         [(sm = "waitForFallback" /\ sm' = "PortInactive" /\ Head(mbox).type = "CNF")
             => device.fallback]_vars
  <2> SUFFICES ASSUME OrderInv, Next, sm = "waitForFallback", sm' = "PortInactive",
                      Head(mbox).type = "CNF"
               PROVE  device.fallback
    BY DEF vars
  <2>1. mbox # <<>>
    <3>1. MainThread => mbox # <<>>
      BY DEF MainThread, DevicemodeCode, DevicemodeCmd, smVars, ModeInd, SmOperateReq, DevmodeCnf,
             SetPortCfg, CfgChange, PortMode, ControlInd, Took
    <3>2. DlThread => sm' = sm
      BY DEF DlThread, PD_req, OdRequest, Send, Reply16, InputsDone, Reply9, OdReply, Establish,
             GotoOperate, GotoIdle, ModeIgnored, smVars
    <3>3. AppCall => sm' = sm
      BY DEF AppCall, SetOutput, OutputSet, ControlReq, ControlCmd, AppGoes, smVars
    <3>4. PreoperateMessage \/ PDIn \/ MessageLost \/ InputsChange
          \/ (\E oe \in BOOLEAN : PDOut(oe))
          \/ (\E mode \in {"INACTIVE", "CFGCOM"} : Configure(mode)) => sm' = sm
      BY DEF PreoperateMessage, PDIn, Answer, MessageLost, InputsChange, PDOut, AppGoes, Configure,
             smVars
    <3> QED BY <3>1, <3>2, <3>3, <3>4 DEF Next
  <2>2. Confirmed
    BY <2>1, FirstTold DEF OrderInv, BaseInv
  <2> QED BY <2>2 DEF OrderInv, FallbackInv
<1> QED BY <1>1, OrderHolds, PTL DEF Spec, FallbackSent
=============================================================================

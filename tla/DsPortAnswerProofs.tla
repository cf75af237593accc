-------------------------- MODULE DsPortAnswerProofs --------------------------
(***************************************************************************)
(* DsPort with a port that is configured at rest (Orderly) and a device    *)
(* that answers the read of its serial number: the SM is never left        *)
(* waiting for a block, a mode or a service that nobody is going to give   *)
(* it, whatever is lost.                                                   *)
(***************************************************************************)
EXTENDS DsPortStoreProofs

(* The device may refuse the SM its serial number, or answer that it has no*)
(* service. A device of revision 1.0 that does leaves it in checkSerNum    *)
(* (sm_AL_Read_cnf_cb).                                                    *)
Refuses == Garbles \/ "SERNUM" \in Refusable

-----------------------------------------------------------------------------
(* The answers the SM waits for.                                           *)

(* Jobs that make the data storage work or report that it has, and those   *)
(* of its services.                                                        *)
RestJobs == {"AL_READ_REQ", "AL_WRITE_REQ", "AL_READ_CNF", "AL_WRITE_CNF", "DS_STARTUP", "DS_UPLOAD",
             "DS_READY", "DS_FAULT", "SM_OPERATE"}

(* The device is being started, up to the mode it is checked in. *)
Early == Starting \/ sm \in {"waitonDLPreoperate", "waitonDLOperate"}

Resting == dsState \in RestStates /\ ~Among(RestJobs, mbox)

(* Nothing but the SM is at work until it reports the device.              *)
Undisturbed ==
    /\ Early => svc = NoSvc /\ Resting /\ ~Waiting("COMREADY")
    /\ sm = "checkSerNum" => /\ svc # NoSvc => svc.index = "SERNUM"
                             /\ Resting /\ ~Waiting("COMREADY")
    /\ Waiting("COMREADY") => /\ svc = NoSvc /\ Resting /\ sm \in {"wait", "PortInactive"}
                              /\ Single({"COMREADY"}, mbox)

(* A service at the ISDU handler is the one the AL has in progress, and    *)
(* has one answer.                                                         *)
Replied ==
    /\ Single({"ISDU_CNF"}, mbox)
    /\ dl.isdu => ~Waiting("ISDU_CNF")
    /\ dl.isdu \/ Waiting("ISDU_CNF") => svc # NoSvc /\ svc.index # "CYCL"

(* The command handler has no confirmation to give: there is no command,   *)
(* or the one there is has not been sent. What leads there when the device *)
(* is started, and what the handlers are left in when it is lost.          *)
Fresh(d)   == d.code => d.cmdh # "COMMAND"
Unsent(d)  == (d.odh = "ISDU" /\ Fresh(d)) \/ (d.odh = "COMMAND" /\ d.code)
Dormant(d) == ~d.chActive /\ d.cmdh # "COMMAND" /\ (d.code => d.cmdh = "INACTIVE")

(* The jobs of a sort are not in the queue. *)
Lacks(X, q) == \A i \in DOMAIN q : q[i] \notin X

CmdOk    == {j \in PortJob : Kind(j) = "DEVMODE_CNF" /\ j.res = "OK"}
Failed   == {j \in PortJob : Kind(j) \in {"ISDU_CNF", "SERNUM"} /\ j.res # "OK"}
Misnamed == {j \in PortJob : Kind(j) \in {"SERNUM", "CYCL"} /\ j.index # Kind(j)}

Up(d) == d.mdh \in {"PREOPERATE", "OPERATE"}

(* No confirmation of a command of the time before is taken for that of    *)
(* the command OPERATE.                                                    *)
Confirming   == {"checkSerNum", "wait", "write_master_cycl"}
Uncommanding == Confirming \cup {"waitonDLPreoperate", "waitonDLOperate", "SMOperate", "InspectionFault"}

CommandSound ==
    /\ dl.mdh = "STARTUP" => Fresh(dl)
    /\ dl.mdh \in {"IDLE", "ESTCOM"} => Dormant(dl)
    /\ dl.mode = "STARTUP" /\ dl.mdh = "OPERATE" => Unsent(dl)
    /\ sm \in Confirming \cup {"wait_devmode_cnf", "SMOperate"} =>
          dl.mdh \in {"PREOPERATE", "OPERATE", "IDLE"}
    /\ sm \in Confirming => Lacks(CmdOk, mbox)
    /\ Up(dl) /\ sm \in Uncommanding => Unsent(dl)
    /\ Up(dl) /\ sm = "wait_devmode_cnf" /\ ~Lacks(CmdOk, mbox) => Unsent(dl)
    /\ (Waiting("SMI_CFG") \/ Waiting("SM_CFG")) /\ dl.mdh = "OPERATE" =>
          sm \notin {"PortInactive", "DIDO"} /\ ~Among(Upsets, mbox)

(* The mode the SM waits for is on its way, once its last block is         *)
(* answered.                                                               *)
Reaching(state, mode, job) ==
    sm = state /\ ~Token =>
      /\ linked /\ ~dl.lost /\ dl.mode = mode
      /\ \/ dl.event /\ dl.mdh = "STARTUP" /\ ~Among(Modes4, mbox)
         \/ /\ ~dl.event /\ dl.mdh = mode
            /\ Waiting(job) /\ ~Among(Modes4 \ {job}, mbox)
            /\ NoneAfter(job, Upsets, mbox)

(* The device is in the mode it is checked in, and nothing is going to     *)
(* take it from there.                                                     *)
Held == /\ linked /\ ~dl.lost /\ ~dl.event /\ dl.mdh = dl.mode /\ Up(dl)
        /\ ~Among(Upsets, mbox)

Serviced(index) == Waiting(index) \/ (svc # NoSvc /\ svc.index = index)

Awaited ==
    /\ sm \in CompatStates /\ ~smAux.retry => Token
    /\ sm = "RestartDevice" => smAux.retry
    /\ Reaching("waitonDLPreoperate", "PREOPERATE", "MODE_PREOPERATE")
    /\ Reaching("waitonDLOperate", "OPERATE", "MODE_OPERATE")
    /\ sm = "checkSerNum" => Held /\ Lacks(Failed, mbox) /\ Serviced("SERNUM")
    /\ sm = "write_master_cycl" => Serviced("CYCL")
    /\ Lacks(Misnamed, mbox)

ReplyInv == Undisturbed /\ Replied /\ CommandSound /\ Awaited

-----------------------------------------------------------------------------
LEMMA LacksJoined ==
  ASSUME NEW q \in Seq(PortJob), NEW s \in Seq(PortJob), NEW X
  PROVE  Lacks(X, q \o s) <=> Lacks(X, q) /\ Lacks(X, s)
<1>1. ASSUME Lacks(X, q), Lacks(X, s) PROVE Lacks(X, q \o s)
  BY <1>1, Joined DEF Lacks
<1>2. ASSUME Lacks(X, q \o s), NEW i \in DOMAIN q PROVE q[i] \notin X
  BY <1>2, Joined DEF Lacks
<1>3. ASSUME Lacks(X, q \o s), NEW i \in DOMAIN s PROVE s[i] \notin X
  <2>1. i + Len(q) \in DOMAIN (q \o s) /\ (q \o s)[i + Len(q)] = s[i]
    BY Joined
  <2> QED BY <1>3, <2>1 DEF Lacks
<1> QED BY <1>1, <1>2, <1>3 DEF Lacks

LEMMA LacksTail ==
  ASSUME NEW q \in Seq(PortJob), q # <<>>, NEW X
  PROVE  Lacks(X, q) <=> Lacks(X, Tail(q)) /\ Head(q) \notin X
<1>1. ASSUME Lacks(X, q) PROVE Lacks(X, Tail(q)) /\ Head(q) \notin X
  BY <1>1, TailFacts DEF Lacks
<1>2. ASSUME Lacks(X, Tail(q)), Head(q) \notin X, NEW i \in DOMAIN q PROVE q[i] \notin X
  BY <1>2, TailFacts DEF Lacks
<1> QED BY <1>1, <1>2 DEF Lacks

LEMMA LacksFew ==
  ASSUME NEW X
  PROVE  /\ Lacks(X, <<>>)
         /\ \A x : Lacks(X, <<x>>) <=> x \notin X
         /\ \A x, y : Lacks(X, <<x, y>>) <=> x \notin X /\ y \notin X
  BY DEF Lacks

(* The jobs of the kinds outside "may" that are gained. *)
LEMMA LacksOther ==
  ASSUME NEW s \in Seq(PortJob), NEW may, \A i \in DOMAIN s : Kind(s[i]) \in may
  PROVE  /\ "DEVMODE_CNF" \notin may => Lacks(CmdOk, s)
         /\ "ISDU_CNF" \notin may /\ "SERNUM" \notin may => Lacks(Failed, s)
         /\ "SERNUM" \notin may /\ "CYCL" \notin may => Lacks(Misnamed, s)
  BY DEF Lacks, CmdOk, Failed, Misnamed

-----------------------------------------------------------------------------
(* The handlers of the DL and the command. *)
SameCmd(e, d) == e.odh = d.odh /\ e.cmdh = d.cmdh /\ e.code = d.code /\ e.chActive = d.chActive

LEMMA SameSent ==
  ASSUME NEW e, NEW d, SameCmd(e, d)
  PROVE  (Fresh(e) <=> Fresh(d)) /\ (Unsent(e) <=> Unsent(d)) /\ (Dormant(e) <=> Dormant(d))
  BY DEF SameCmd, Fresh, Unsent, Dormant

LEMMA InactiveDormant == ASSUME NEW d \in DlRecord PROVE Dormant(CH_Conf(d, FALSE))
  BY DlShape DEF CH_Conf, CmdHandler, Dormant, Cmdhs

LEMMA ActiveFresh == ASSUME NEW d \in DlRecord, Dormant(d) PROVE Fresh(CH_Conf(d, TRUE))
  BY DlShape DEF CH_Conf, CmdHandler, Dormant, Fresh, Cmdhs

LEMMA CommandDormant ==
  ASSUME NEW d \in DlRecord, NEW cmd \in Cmds, Dormant(d)
  PROVE  Dormant(CmdHandler([d EXCEPT !.cmd = cmd, !.code = TRUE]))
  BY DlShape DEF CmdHandler, Dormant, Cmdhs

LEMMA ActiveUnsent == ASSUME NEW d \in DlRecord, Fresh(d) PROVE Unsent(OH_ConfActive(d))
  BY DlShape DEF OH_ConfActive, CommandSettled, Unsent, Fresh, Odhs

LEMMA InactiveFresh ==
  ASSUME NEW d \in DlRecord, Fresh(d) \/ Unsent(d) PROVE Fresh(OH_ConfInactive(d))
  BY DlShape DEF OH_ConfInactive, Unsent, Fresh, Odhs

LEMMA DormantFresh == ASSUME NEW d, Dormant(d) PROVE Fresh(d)
  BY DEF Dormant, Fresh

LEMMA MhCommand ==
  ASSUME NEW d \in DlRecord,
         NEW e \in {MH_ConfInactive(d), MH_ConfStartup(d), MH_ConfOperate(d), MH_ConfPreoperate(d)}
  PROVE  SameCmd(e, d)
  BY DlShape DEF SameCmd, MH_ConfInactive, MH_ConfStartup, MH_ConfOperate, MH_ConfPreoperate

LEMMA IhCommand ==
  ASSUME NEW d \in DlRecord, NEW e \in {IH_ConfInactive(d), Received(d)} PROVE SameCmd(e, d)
  BY DlShape DEF SameCmd, IH_ConfInactive, Received

(* What the DL posts. *)
LinkKinds == Modes4 \cup Asked \cup {"DEVMODE_CNF", "PARAM_CNF", "ISDU_CNF", "WURQ"}
Given == {s \in Seq(PortJob) : \A i \in DOMAIN s : Kind(s[i]) \in LinkKinds}

LEMMA GivenFacts ==
    /\ <<>> \in Given
    /\ \A x \in PortJob : Kind(x) \in LinkKinds => <<x>> \in Given
    /\ \A s, t \in Given : s \o t \in Given
<1>1. ASSUME NEW s \in Given, NEW t \in Given PROVE s \o t \in Given
  <2>1. s \in Seq(PortJob) /\ t \in Seq(PortJob)
    BY DEF Given
  <2>2. s \o t \in Seq(PortJob)
    BY <2>1, Joined
  <2>3. ASSUME NEW i \in DOMAIN (s \o t) PROVE Kind((s \o t)[i]) \in LinkKinds
    <3>1. CASE i <= Len(s)
      <4>1. i \in DOMAIN s /\ (s \o t)[i] = s[i]
        BY <2>1, <3>1, Joined
      <4> QED BY <4>1 DEF Given
    <3>2. CASE ~(i <= Len(s))
      <4>1. i - Len(s) \in DOMAIN t /\ (s \o t)[i] = t[i - Len(s)]
        BY <2>1, <3>2, Joined
      <4> QED BY <4>1 DEF Given
    <3> QED BY <3>1, <3>2
  <2> QED BY <2>2, <2>3 DEF Given
<1>2. <<>> \in Given
  BY EmptyPost DEF Given
<1>3. ASSUME NEW x \in PortJob, Kind(x) \in LinkKinds PROVE <<x>> \in Given
  BY <1>3 DEF Given
<1> QED BY <1>1, <1>2, <1>3

-----------------------------------------------------------------------------
(* The steps of the DL and of the device, for what the SM waits for: what  *)
(* they do with the service, with the command and with the jobs s.         *)
IsduEnds(s) ==
    \/ (dl'.isdu => dl.isdu) /\ ~Among({"ISDU_CNF"}, s)
    \/ dl.isdu /\ ~dl'.isdu /\ Single({"ISDU_CNF"}, s)

CmdGoes(s) ==
    \/ /\ SameCmd(dl', dl) /\ Lacks(CmdOk, s)
       /\ \/ dl'.mdh = dl.mdh
          \/ dl.mdh = "PREOPERATE" /\ dl'.mdh = "OPERATE" /\ dl.mode = "OPERATE"
          \/ dl.mdh = "IDLE" /\ dl'.mdh = "ESTCOM" /\ dl.mode = "STARTUP"
          \/ dl.mdh = "ESTCOM" /\ dl'.mdh = "IDLE"
       /\ dl.mdh = "OPERATE" /\ Still => ~Among(Upsets, s)
    \/ dl'.mdh = "IDLE" /\ Dormant(dl') /\ Lacks(CmdOk, s)
    \/ dl'.mdh = "STARTUP" /\ dl.mode = "STARTUP" /\ Fresh(dl') /\ Lacks(CmdOk, s)
    \/ dl.mdh = "STARTUP" /\ Up(dl') /\ dl.mode # "STARTUP" /\ Unsent(dl')
    \/ dl'.mdh = dl.mdh /\ Up(dl) /\ (Unsent(dl) => Unsent(dl')) /\ s = <<>>
    \/ dl'.mdh = dl.mdh /\ Up(dl) /\ ~Unsent(dl) /\ Unsent(dl')

(* The device is on its way to the mode the SM set, or there.              *)
Serene ==
    /\ linked /\ ~dl.lost
    /\ IF dl.event THEN dl.mdh = "STARTUP" /\ dl.mode \in {"PREOPERATE", "OPERATE"}
                   ELSE Up(dl) /\ Unsent(dl)

Calmly(s) ==
    /\ linked' /\ dl'.lost = dl.lost /\ dl'.event = dl.event /\ dl'.mdh = dl.mdh
    /\ ~Among(Upsets, s)
    /\ svc.index = "SERNUM" => Lacks(Failed, s)

ModeJob(mode) == IF mode = "PREOPERATE" THEN "MODE_PREOPERATE" ELSE "MODE_OPERATE"

Arrives(s) ==
    /\ dl.event /\ linked' /\ ~dl'.lost /\ ~dl'.event /\ dl'.mdh = dl.mode
    /\ \E t \in Seq(PortJob) : s = t \o <<Signal(ModeJob(dl.mode))>> /\ ~Among(Modes4, t)

LinkGoes ==
    /\ dl'.mode = dl.mode
    /\ \E s \in Given :
          /\ mbox' = mbox \o s
          /\ IsduEnds(s) /\ (Token => Token') /\ CmdGoes(s)
          /\ Serene => Calmly(s) \/ Arrives(s)

LEMMA TokenKept ==
  ASSUME MboxTyped, NEW s \in Given, mbox' = mbox \o s,
         dl'.rw = dl.rw \/ ~BlockOut \/ Among(Asked, s)
  PROVE  Token => Token'
<1>1. s \in Seq(PortJob)
  BY DEF Given
<1>2. Among(Asked, mbox') <=> Among(Asked, mbox) \/ Among(Asked, s)
  BY <1>1, AmongJoined DEF MboxTyped
<1> QED BY <1>2 DEF Token, BlockOut

(* No job is posted, and the command is left alone. *)
LEMMA QuietGoes ==
  ASSUME MboxTyped, mbox' = mbox, dl'.mode = dl.mode, dl'.isdu = dl.isdu, SameCmd(dl', dl),
         \/ dl'.mdh = dl.mdh
         \/ dl.mdh = "IDLE" /\ dl'.mdh = "ESTCOM" /\ dl.mode = "STARTUP",
         dl'.rw = dl.rw \/ ~BlockOut,
         Serene => linked' /\ dl'.lost = dl.lost /\ dl'.event = dl.event /\ dl'.mdh = dl.mdh
  PROVE  LinkGoes
<1>1. <<>> \in Given /\ \A K : ~Among(K, <<>>)
  BY GivenFacts, AmongFew
<1>2. mbox' = mbox \o <<>>
  BY DEF MboxTyped
<1>3. Token => Token'
  BY <1>1, <1>2, TokenKept
<1>4. Lacks(CmdOk, <<>>) /\ Lacks(Failed, <<>>)
  BY LacksFew
<1>5. IsduEnds(<<>>)
  BY <1>1 DEF IsduEnds
<1>6. CmdGoes(<<>>)
  BY <1>1, <1>4 DEF CmdGoes
<1>7. Serene => Calmly(<<>>)
  BY <1>1, <1>4 DEF Calmly
<1> QED BY <1>1, <1>2, <1>3, <1>5, <1>6, <1>7 DEF LinkGoes

(* One job of another kind is posted, and the command is left alone. *)
LEMMA OneGoes ==
  ASSUME MboxTyped, NEW x \in PortJob, mbox' = mbox \o <<x>>, Kind(x) \in LinkKinds, x \notin CmdOk,
         dl'.mode = dl.mode, SameCmd(dl', dl),
         IF Kind(x) = "ISDU_CNF" THEN dl.isdu /\ ~dl'.isdu ELSE dl'.isdu = dl.isdu,
         dl'.mdh = dl.mdh \/ (dl.mdh = "ESTCOM" /\ dl'.mdh = "IDLE"),
         dl.mdh = "OPERATE" /\ Still => Kind(x) \notin Upsets,
         dl'.rw = dl.rw \/ ~BlockOut \/ Kind(x) \in Asked,
         Serene => /\ linked' /\ dl'.lost = dl.lost /\ dl'.event = dl.event /\ dl'.mdh = dl.mdh
                   /\ Kind(x) \notin Upsets /\ (svc.index = "SERNUM" => x \notin Failed)
  PROVE  LinkGoes
<1>1. <<x>> \in Given /\ \A K : Among(K, <<x>>) <=> Kind(x) \in K
  BY GivenFacts, AmongFew
<1>3. Token => Token'
  BY <1>1, TokenKept
<1>4. Lacks(CmdOk, <<x>>) /\ (Lacks(Failed, <<x>>) <=> x \notin Failed)
  BY LacksFew
<1>2. Single({"ISDU_CNF"}, <<x>>)
  BY SingleFew
<1>5. IsduEnds(<<x>>)
  BY <1>1, <1>2 DEF IsduEnds
<1>6. CmdGoes(<<x>>)
  BY <1>1, <1>4 DEF CmdGoes
<1>7. Serene => Calmly(<<x>>)
  BY <1>1, <1>4 DEF Calmly
<1> QED BY <1>1, <1>3, <1>5, <1>6, <1>7 DEF LinkGoes

(* What the ISDU handler posts when it lets go of its service. *)
LEMMA FailedFacts ==
  ASSUME NEW d \in DlRecord, NEW mode \in Modes4
  PROVE  LET s == IsduFailed(d) \o <<Signal(mode)>>
         IN  /\ s \in Given /\ Lacks(CmdOk, s) /\ Single({"ISDU_CNF"}, s)
             /\ ~d.isdu => ~Among({"ISDU_CNF"}, s)
<1> DEFINE x == IsduCnf("ERR", NoSnap)
           y == Signal(mode)
<1>1. /\ x \in PortJob /\ Kind(x) = "ISDU_CNF" /\ y \in PortJob /\ Kind(y) = mode
  BY ModeKinds, WildFacts, ResultNames
<1> HIDE DEF x, y
<1>2. <<x>> \in Given /\ <<y>> \in Given
  BY <1>1, GivenFacts DEF LinkKinds
<1>3. x \notin CmdOk /\ y \notin CmdOk
  BY <1>1 DEF CmdOk, Modes4
<1>4. CASE d.isdu
  <2>1. IsduFailed(d) = <<x>>
    BY <1>4 DEF IsduFailed, x
  <2>2. <<x>> \o <<y>> \in Given /\ <<x>> \in Seq(PortJob) /\ <<y>> \in Seq(PortJob)
    BY <1>2, GivenFacts DEF Given
  <2>3. Lacks(CmdOk, <<x>> \o <<y>>)
    BY <1>3, <2>2, LacksFew, LacksJoined
  <2>4. ~Among({"ISDU_CNF"}, <<y>>)
    <3>1. Among({"ISDU_CNF"}, <<y>>) <=> Kind(y) \in {"ISDU_CNF"}
      BY AmongFew
    <3> QED BY <1>1, <3>1 DEF Modes4
  <2>5. Single({"ISDU_CNF"}, <<x>>)
    BY SingleFew
  <2>6. Single({"ISDU_CNF"}, <<x>> \o <<y>>)
    BY <2>2, <2>4, <2>5, SingleJoined
  <2> QED BY <1>4, <2>1, <2>2, <2>3, <2>6 DEF y
<1>5. CASE ~d.isdu
  <2>1. IsduFailed(d) \o <<y>> = <<y>>
    BY <1>5 DEF IsduFailed
  <2>2. Lacks(CmdOk, <<y>>) /\ ~Among({"ISDU_CNF"}, <<y>>)
    BY <1>1, <1>3, LacksFew, AmongFew DEF Modes4
  <2>3. Single({"ISDU_CNF"}, <<y>>)
    BY SingleFew
  <2> QED BY <1>2, <2>1, <2>2, <2>3 DEF y
<1> QED BY <1>4, <1>5

LEMMA IdleGoes ==
  ASSUME ~Parallel, MboxTyped, dl \in DlRecord, NEW mode \in {"MODE_INACTIVE", "MODE_COMLOST"},
         GotoIdle(Handled, mode), ~Serene
  PROVE  LinkGoes
<1> DEFINE d == Handled
           free == IH_ConfInactive(OH_ConfInactive(d))
           inactive == CH_Conf(free, FALSE)
           stopped == MH_ConfInactive(inactive)
           s == IsduFailed(d) \o <<Signal(mode)>>
<1>1. /\ d \in DlRecord /\ d.mode = dl.mode /\ d.rw = dl.rw /\ d.isdu = dl.isdu
  BY HandledFields
<1>2. dl'.mdh = "IDLE" /\ dl'.mode = dl.mode /\ dl'.rw = dl.rw /\ ~dl'.isdu
  BY <1>1, GoneIdle
<1>3. dl' = [stopped EXCEPT !.lost = FALSE, !.mdh = "IDLE", !.left = "none"] /\ mbox' = mbox \o s
  BY DEF GotoIdle, Interrupts, InIdle, DlPost
<1> HIDE DEF d
<1>4. free \in DlRecord
  BY <1>1, OhType, IhType
<1> HIDE DEF free
<1>5. inactive \in DlRecord /\ Dormant(inactive)
  <2>1. inactive \in DlRecord
    BY <1>4, CH_ConfType, DlNames
  <2>2. Dormant(CH_Conf(free, FALSE))
    BY <1>4, InactiveDormant
  <2> QED BY <2>1, <2>2
<1> HIDE DEF inactive
<1>6. stopped \in DlRecord /\ SameCmd(stopped, inactive)
  <2>1. stopped \in DlRecord
    BY <1>5, MhType
  <2>2. SameCmd(MH_ConfInactive(inactive), inactive)
    BY <1>5, MhCommand
  <2> QED BY <2>1, <2>2
<1> HIDE DEF stopped
<1>7. SameCmd([stopped EXCEPT !.lost = FALSE, !.mdh = "IDLE", !.left = "none"], stopped)
  BY <1>6, DlShape DEF SameCmd
<1>8. Dormant(dl')
  BY <1>3, <1>5, <1>6, <1>7, SameSent
<1>9. /\ s \in Given /\ Lacks(CmdOk, s) /\ Single({"ISDU_CNF"}, s)
      /\ ~d.isdu => ~Among({"ISDU_CNF"}, s)
  BY <1>1, FailedFacts DEF Modes4
<1> HIDE DEF s
<1>10. IsduEnds(s)
  BY <1>1, <1>2, <1>9 DEF IsduEnds
<1>11. Token => Token'
  BY <1>2, <1>3, <1>9, TokenKept
<1>12. CmdGoes(s)
  BY <1>2, <1>8, <1>9 DEF CmdGoes
<1> QED BY <1>2, <1>3, <1>9, <1>10, <1>11, <1>12 DEF LinkGoes

LEMMA StartupGoes ==
  ASSUME ~Parallel, MboxTyped, NEW d \in DlRecord, GotoStartup(d), Fresh(d) \/ Unsent(d), dl \in DlRecord,
         d.mode = dl.mode, d.isdu = dl.isdu, d.rw = dl.rw, dl.mode = "STARTUP", ~Serene
  PROVE  LinkGoes
<1> DEFINE told == MH_ConfStartup(d)
           started == [told EXCEPT !.mdh = "STARTUP", !.left = "none"]
           inactive == OH_ConfInactive(started)
           s == IsduFailed(d) \o <<Signal("MODE_STARTUP")>>
<1>1. dl' = IH_ConfInactive(inactive) /\ mbox' = mbox \o s
  BY DEF GotoStartup, Interrupts, InStartup, DlPost
<1>2. /\ told \in DlRecord /\ SameCmd(told, d) /\ told.mode = d.mode /\ told.rw = d.rw
  BY MhType, MhFields, MhCommand
<1> HIDE DEF told
<1>3. started \in DlRecord /\ SameCmd(started, told)
  <2> told \in DlRecord
    BY <1>2
  <2>1. started \in DlRecord
    BY DlMoreFields, DlNames
  <2>2. SameCmd(started, told)
    BY <1>2, DlShape DEF SameCmd
  <2> QED BY <2>1, <2>2
<1>4. started.mdh = "STARTUP" /\ started.mode = d.mode /\ started.rw = d.rw
  BY <1>2, DlShape
<1> HIDE DEF started
<1>5. Fresh(started) \/ Unsent(started)
  BY <1>2, <1>3, SameSent
<1>6. inactive \in DlRecord /\ Fresh(inactive)
  BY <1>3, <1>5, OhType, InactiveFresh
<1>7. inactive.mdh = "STARTUP" /\ inactive.mode = d.mode /\ inactive.rw = d.rw
  BY <1>3, <1>4, OhFields
<1> HIDE DEF inactive
<1>8. SameCmd(dl', inactive) /\ dl'.mdh = "STARTUP" /\ dl'.mode = d.mode /\ dl'.rw = d.rw /\ ~dl'.isdu
  BY <1>1, <1>6, <1>7, IhFields, IhCommand
<1>9. Fresh(dl')
  BY <1>6, <1>8, SameSent
<1>10. /\ s \in Given /\ Lacks(CmdOk, s) /\ Single({"ISDU_CNF"}, s)
       /\ ~d.isdu => ~Among({"ISDU_CNF"}, s)
  BY FailedFacts DEF Modes4
<1> HIDE DEF s
<1>11. IsduEnds(s)
  BY <1>8, <1>10 DEF IsduEnds
<1>12. Token => Token'
  BY <1>1, <1>8, <1>10, TokenKept
<1>13. CmdGoes(s)
  BY <1>8, <1>9, <1>10 DEF CmdGoes
<1> QED BY <1>1, <1>8, <1>10, <1>11, <1>12, <1>13 DEF LinkGoes

(* A mode is entered that carries on-request data; t is posted before it   *)
(* is indicated.                                                           *)
LEMMA ModeGoes ==
  ASSUME MboxTyped, dl \in DlRecord, NEW t \in Seq(PortJob),
         t = <<>> \/ \E y \in PortJob : t = <<y>> /\ Kind(y) = "DEVMODE_CNF",
         NEW mode \in {"PREOPERATE", "OPERATE"},
         mbox' = mbox \o (t \o <<Signal(ModeJob(mode))>>),
         dl'.mode = dl.mode, dl'.isdu = dl.isdu, dl'.rw = dl.rw, dl.mode = mode, dl'.mdh = mode,
         dl.event, ~dl'.event, dl'.lost = dl.lost, linked' = linked,
         \/ dl.mdh = "STARTUP" /\ Unsent(dl')
         \/ dl.mdh = "PREOPERATE" /\ mode = "OPERATE" /\ SameCmd(dl', dl) /\ t = <<>>
  PROVE  LinkGoes
<1> DEFINE x == Signal(ModeJob(mode))
           s == t \o <<x>>
<1>1. x \in PortJob /\ Kind(x) = ModeJob(mode) /\ ModeJob(mode) \in {"MODE_PREOPERATE", "MODE_OPERATE"}
  <2>1. ModeJob(mode) \in {"MODE_PREOPERATE", "MODE_OPERATE"}
    BY DEF ModeJob
  <2> QED BY <2>1, ModeKinds DEF Modes4
<1>2. mbox' = mbox \o s
  OBVIOUS
<1>3. s = t \o <<Signal(ModeJob(dl.mode))>>
  OBVIOUS
<1> HIDE DEF x
<1>4. /\ <<x>> \in Given /\ <<x>> \in Seq(PortJob) /\ ~Among({"ISDU_CNF"}, <<x>>) /\ Lacks(CmdOk, <<x>>)
  <2>1. <<x>> \in Given /\ <<x>> \in Seq(PortJob)
    BY <1>1, GivenFacts DEF LinkKinds, Modes4
  <2>2. Among({"ISDU_CNF"}, <<x>>) <=> Kind(x) \in {"ISDU_CNF"}
    BY AmongFew
  <2>3. x \notin CmdOk
    BY <1>1 DEF CmdOk
  <2> QED BY <1>1, <2>1, <2>2, <2>3, LacksFew
<1>5. t \in Given /\ ~Among({"ISDU_CNF"}, t) /\ ~Among(Modes4, t)
  <2>1. CASE t = <<>>
    BY <2>1, GivenFacts, AmongFew
  <2>2. CASE \E y \in PortJob : t = <<y>> /\ Kind(y) = "DEVMODE_CNF"
    <3>1. PICK y \in PortJob : t = <<y>> /\ Kind(y) = "DEVMODE_CNF"
      BY <2>2
    <3>2. t \in Given
      BY <3>1, GivenFacts DEF LinkKinds
    <3>3. /\ Among(Modes4, <<y>>) <=> Kind(y) \in Modes4
          /\ Among({"ISDU_CNF"}, <<y>>) <=> Kind(y) \in {"ISDU_CNF"}
      BY AmongFew
    <3> QED BY <3>1, <3>2, <3>3 DEF Modes4
  <2> QED BY <2>1, <2>2
<1>6. s \in Given /\ ~Among({"ISDU_CNF"}, s)
  BY <1>4, <1>5, GivenFacts, AmongJoined
<1>7. Arrives(s) \/ ~Serene
  <2>1. Serene => ~dl.lost /\ linked
    BY DEF Serene
  <2> QED BY <1>3, <1>5, <2>1 DEF Arrives
<1>8. Token => Token'
  BY <1>2, <1>6, TokenKept
<1>9. IsduEnds(s)
  BY <1>6 DEF IsduEnds
<1>10. CmdGoes(s)
  <2>1. CASE dl.mdh = "STARTUP" /\ Unsent(dl')
    BY <2>1 DEF CmdGoes, Up
  <2>2. CASE dl.mdh = "PREOPERATE" /\ mode = "OPERATE" /\ SameCmd(dl', dl) /\ t = <<>>
    <3>1. Lacks(CmdOk, s)
      BY <1>4, <2>2, LacksJoined, LacksFew, EmptyPost
    <3> QED BY <2>2, <3>1 DEF CmdGoes
  <2> QED BY <2>1, <2>2
<1> HIDE DEF s
<1> QED BY <1>2, <1>6, <1>7, <1>8, <1>9, <1>10 DEF LinkGoes

(* The states of the mode handler. *)
LEMMA Startup2Goes ==
  ASSUME ~Parallel, TypeInv, PortInv, CommandSound, dl.event, UNCHANGED linked, Startup2
  PROVE  LinkGoes
<1> DEFINE d == Handled
           active == OH_ConfActive(d)
<1>1. MboxTyped /\ dl \in DlRecord
  BY SmFacts
<1>2. /\ d \in DlRecord /\ d.mode = dl.mode /\ d.rw = dl.rw /\ d.isdu = dl.isdu
      /\ d.mdh = dl.mdh /\ d.lost = dl.lost /\ ~d.event /\ SameCmd(d, dl)
  <2>1. SameCmd(Handled, dl)
    BY <1>1, DlShape DEF SameCmd, Handled
  <2> QED BY <1>1, <2>1, HandledFields
<1>3. dl.mdh = "STARTUP" /\ Fresh(d)
  BY <1>2, SameSent DEF Startup2, CommandSound
<1>4. /\ active \in DlRecord /\ active.mode = dl.mode /\ active.rw = dl.rw /\ active.isdu = dl.isdu
      /\ active.lost = dl.lost /\ ~active.event /\ Unsent(active)
  BY <1>2, <1>3, OhType, OhFields, ActiveUnsent
<1>5. Settled(dl) \in Seq(PortJob)
      /\ (Settled(dl) = <<>> \/ \E y \in PortJob : Settled(dl) = <<y>> /\ Kind(y) = "DEVMODE_CNF")
  BY <1>1, SettledFacts
<1>6. CASE dl.mode = "PREOPERATE" /\ DlPost([MH_ConfPreoperate(active) EXCEPT !.mdh = "PREOPERATE"],
                                              Settled(dl) \o <<Signal("MODE_PREOPERATE")>>)
  <2> DEFINE told == MH_ConfPreoperate(active)
  <2> HIDE DEF active
  <2>1. /\ told \in DlRecord /\ SameCmd(told, active) /\ told.mode = dl.mode /\ told.rw = dl.rw
        /\ told.isdu = dl.isdu /\ told.lost = dl.lost /\ ~told.event
    BY <1>4, MhType, MhCommand, MhFields, MhOutcome
  <2>2. dl' = [told EXCEPT !.mdh = "PREOPERATE"] /\ mbox' = mbox \o (Settled(dl) \o <<Signal("MODE_PREOPERATE")>>)
    BY <1>6 DEF DlPost
  <2> HIDE DEF told
  <2>3. /\ SameCmd(dl', told) /\ dl'.mode = dl.mode /\ dl'.rw = dl.rw /\ dl'.mdh = "PREOPERATE"
        /\ dl'.isdu = dl.isdu /\ dl'.lost = dl.lost /\ ~dl'.event
    BY <2>1, <2>2, DlShape DEF SameCmd
  <2>4. Unsent(dl')
    BY <1>4, <2>1, <2>3, SameSent
  <2>5. ModeJob("PREOPERATE") = "MODE_PREOPERATE"
    BY DEF ModeJob
  <2> QED BY <1>1, <1>3, <1>5, <1>6, <2>2, <2>3, <2>4, <2>5, ModeGoes
<1>7. CASE dl.mode = "OPERATE" /\ GotoOperate(active, Settled(dl))
  <2> DEFINE told == MH_ConfOperate(active)
  <2>2. dl' = [told EXCEPT !.mdh = "OPERATE"] /\ mbox' = mbox \o (Settled(dl) \o <<Signal("MODE_OPERATE")>>)
    BY <1>7 DEF DlPost, GotoOperate
  <2> HIDE DEF active
  <2>1. /\ told \in DlRecord /\ SameCmd(told, active) /\ told.mode = dl.mode /\ told.rw = dl.rw
        /\ told.isdu = dl.isdu /\ told.lost = dl.lost /\ ~told.event
    BY <1>4, MhType, MhCommand, MhFields, MhOutcome
  <2> HIDE DEF told
  <2>3. /\ SameCmd(dl', told) /\ dl'.mode = dl.mode /\ dl'.rw = dl.rw /\ dl'.mdh = "OPERATE"
        /\ dl'.isdu = dl.isdu /\ dl'.lost = dl.lost /\ ~dl'.event
    BY <2>1, <2>2, DlShape DEF SameCmd
  <2>4. Unsent(dl')
    BY <1>4, <2>1, <2>3, SameSent
  <2>5. ModeJob("OPERATE") = "MODE_OPERATE"
    BY DEF ModeJob
  <2> QED BY <1>1, <1>3, <1>5, <1>7, <2>2, <2>3, <2>4, <2>5, ModeGoes
<1>8. CASE dl.mode = "INACTIVE" /\ GotoIdle(Handled, "MODE_INACTIVE")
  BY <1>1, <1>8, IdleGoes DEF Serene
<1>9. CASE dl.mode = "STARTUP" /\ dl.lost /\ GotoIdle(Handled, "MODE_COMLOST")
  BY <1>1, <1>9, IdleGoes DEF Serene
<1>10. CASE dl.mode = "STARTUP" /\ ~dl.lost /\ DlPost(Handled, <<>>)
  <2>1. dl' = d /\ mbox' = mbox
    BY <1>1, <1>10 DEF DlPost, MboxTyped
  <2>2. ~Serene
    BY <1>10 DEF Serene
  <2> HIDE DEF d
  <2> QED BY <1>1, <1>2, <2>1, <2>2, QuietGoes
<1> QED BY <1>6, <1>7, <1>8, <1>9, <1>10 DEF Startup2

LEMMA ModeHandlerGoes ==
  ASSUME ~Parallel, TypeInv, PortInv, CommandSound, ModeHandler
  PROVE  LinkGoes
<1> DEFINE d == Handled
<1>1. MboxTyped /\ dl \in DlRecord /\ dl.event /\ UNCHANGED linked
  BY SmFacts DEF ModeHandler
<1>2. /\ d \in DlRecord /\ d.mode = dl.mode /\ d.rw = dl.rw /\ d.isdu = dl.isdu
      /\ d.mdh = dl.mdh /\ d.lost = dl.lost /\ ~d.event /\ SameCmd(d, dl)
  <2>1. SameCmd(Handled, dl)
    BY <1>1, DlShape DEF SameCmd, Handled
  <2> QED BY <1>1, <2>1, HandledFields
<1>3. ASSUME DlPost(d, <<>>), dl.mdh # "STARTUP" PROVE LinkGoes
  <2>1. dl' = d /\ mbox' = mbox
    BY <1>1, <1>3 DEF DlPost, MboxTyped
  <2>2. ~Serene
    BY <1>1, <1>3 DEF Serene
  <2> HIDE DEF d
  <2> QED BY <1>1, <1>2, <2>1, <2>2, QuietGoes
<1>4. CASE Idle0
  <2>1. CASE dl.mode = "STARTUP" /\ ~dl.wurq
    <3>1. dl' = [d EXCEPT !.mdh = "ESTCOM", !.wurq = TRUE] /\ mbox' = mbox /\ dl.mdh = "IDLE"
      BY <1>1, <1>4, <2>1 DEF Idle0, DlPost, MboxTyped
    <3> HIDE DEF d
    <3>2. SameCmd(dl', d) /\ dl'.mdh = "ESTCOM" /\ dl'.mode = d.mode /\ dl'.isdu = d.isdu /\ dl'.rw = d.rw
      BY <1>2, <3>1, DlShape DEF SameCmd
    <3>3. SameCmd(dl', dl)
      BY <1>2, <3>2 DEF SameCmd
    <3>4. ~Serene
      BY <1>1, <3>1 DEF Serene
    <3> QED BY <1>1, <1>2, <2>1, <3>1, <3>2, <3>3, <3>4, QuietGoes
  <2> QED BY <1>3, <1>4, <2>1 DEF Idle0
<1>5. CASE EstablishCom1
  BY <1>3, <1>5 DEF EstablishCom1
<1>6. CASE Startup2
  BY <1>1, <1>6, Startup2Goes
<1>7. CASE Preoperate3
  <2>1. dl.mdh = "PREOPERATE" /\ ~Serene
    BY <1>1, <1>7 DEF Preoperate3, Serene
  <2>2. CASE dl.mode = "STARTUP" /\ GotoStartup(CH_Conf(Handled, FALSE))
    <3> DEFINE e == CH_Conf(d, FALSE)
    <3>1. e \in DlRecord
      BY <1>2, CH_ConfType, DlNames
    <3>2. Fresh(e)
      <4>1. Dormant(CH_Conf(d, FALSE))
        BY <1>2, InactiveDormant
      <4> QED BY <4>1 DEF Dormant, Fresh
    <3>3. e.mode = dl.mode /\ e.isdu = dl.isdu /\ e.rw = dl.rw
      BY <1>2, CH_ConfFields, DlNames
    <3>4. GotoStartup(e)
      BY <2>2
    <3> HIDE DEF e
    <3> QED BY <1>1, <2>1, <2>2, <3>1, <3>2, <3>3, <3>4, StartupGoes
  <2>3. CASE dl.mode = "INACTIVE" /\ DlPost(MH_ConfOperate(Handled), <<>>)
    <3>1. dl' = MH_ConfOperate(d) /\ mbox' = mbox
      BY <1>1, <2>3 DEF DlPost, MboxTyped
    <3> HIDE DEF d
    <3>2. /\ SameCmd(dl', d) /\ dl'.mdh = d.mdh /\ dl'.mode = d.mode /\ dl'.isdu = d.isdu /\ dl'.rw = d.rw
      BY <1>2, <3>1, MhCommand, MhFields
    <3>3. SameCmd(dl', dl)
      BY <1>2, <3>2 DEF SameCmd
    <3> QED BY <1>1, <1>2, <2>1, <3>1, <3>2, <3>3, QuietGoes
  <2>4. CASE dl.lost /\ GotoIdle(Handled, "MODE_COMLOST")
    BY <1>1, <2>1, <2>4, IdleGoes
  <2>5. CASE dl.mode = "OPERATE" /\ GotoOperate(Handled, <<>>)
    <3> DEFINE told == MH_ConfOperate(d)
    <3>1. dl' = [told EXCEPT !.mdh = "OPERATE"] /\ mbox' = mbox \o (<<>> \o <<Signal("MODE_OPERATE")>>)
      BY <2>5 DEF GotoOperate, DlPost
    <3> HIDE DEF d
    <3>2. /\ told \in DlRecord /\ SameCmd(told, d) /\ told.mode = d.mode /\ told.isdu = d.isdu
          /\ told.rw = d.rw /\ told.lost = d.lost /\ ~told.event
      BY <1>2, MhType, MhCommand, MhFields, MhOutcome
    <3> HIDE DEF told
    <3>3. /\ SameCmd(dl', told) /\ dl'.mode = dl.mode /\ dl'.rw = dl.rw /\ dl'.mdh = "OPERATE"
          /\ dl'.isdu = dl.isdu /\ dl'.lost = dl.lost /\ ~dl'.event
      BY <1>2, <3>1, <3>2, DlShape DEF SameCmd
    <3>4. SameCmd(dl', dl)
      BY <1>2, <3>2, <3>3 DEF SameCmd
    <3>5. ModeJob("OPERATE") = "MODE_OPERATE" /\ <<>> \in Seq(PortJob)
      BY EmptyPost DEF ModeJob
    <3> QED BY <1>1, <2>1, <2>5, <3>1, <3>3, <3>4, <3>5, ModeGoes
  <2>6. CASE dl.mode = "PREOPERATE" /\ DlPost(Handled, <<>>)
    BY <1>3, <2>1, <2>6
  <2> QED BY <1>7, <2>2, <2>3, <2>4, <2>5, <2>6 DEF Preoperate3
<1>8. CASE Operate4
  <2>1. dl.mdh = "OPERATE" /\ ~Serene
    BY <1>1, <1>8 DEF Operate4, Serene
  <2>2. CASE dl.mode = "STARTUP" /\ GotoStartup(Handled)
    <3>1. Unsent(d)
      BY <1>2, <2>1, <2>2, SameSent DEF CommandSound
    <3>2. GotoStartup(d)
      BY <2>2
    <3> HIDE DEF d
    <3> QED BY <1>1, <1>2, <2>1, <2>2, <3>1, <3>2, StartupGoes
  <2>3. CASE GotoIdle(Handled, "MODE_INACTIVE") \/ GotoIdle(Handled, "MODE_COMLOST")
    BY <1>1, <2>1, <2>3, IdleGoes
  <2>4. CASE DlPost(Handled, <<>>)
    BY <1>3, <2>1, <2>4
  <2> QED BY <1>8, <2>2, <2>3, <2>4 DEF Operate4
<1> QED BY <1>4, <1>5, <1>6, <1>7, <1>8 DEF ModeHandler

(* Exchanges that were answered. *)
LEMMA ParamGoes ==
  ASSUME ~Parallel, TypeInv, PortInv, ParamDone PROVE LinkGoes
<1> DEFINE x == ParamCnf("OK")
<1>1. MboxTyped /\ dl \in DlRecord
  BY SmFacts
<1>2. /\ dl' = [Received(dl) EXCEPT !.rw = "none"] /\ mbox' = mbox \o <<x>>
      /\ dl.rw = "param" /\ UNCHANGED linked
  BY DEF ParamDone, Confirmed, DlPost
<1>3. x \in PortJob /\ Kind(x) = "PARAM_CNF"
  BY ModeKinds, ResultNames
<1> HIDE DEF x
<1>4. /\ SameCmd(dl', dl) /\ dl'.mode = dl.mode /\ dl'.isdu = dl.isdu /\ dl'.mdh = dl.mdh
      /\ dl'.lost = dl.lost /\ dl'.event = dl.event
  BY <1>1, <1>2, DlShape DEF SameCmd, Received
<1>5. x \notin CmdOk /\ x \notin Failed /\ Kind(x) \in LinkKinds /\ Kind(x) \notin Upsets
  BY <1>3 DEF CmdOk, Failed, LinkKinds, Upsets
<1>6. ~BlockOut
  BY <1>2 DEF BlockOut
<1> QED BY <1>1, <1>2, <1>3, <1>4, <1>5, <1>6, OneGoes DEF Serene

LEMMA SentGoes ==
  ASSUME TypeInv, PortInv, CommandSent PROVE LinkGoes
<1> DEFINE r == Received(dl)
           c == CmdHandler(r)
<1>1. MboxTyped /\ dl \in DlRecord
  BY SmFacts
<1>2. /\ dl' = [c EXCEPT !.odh = "COMMAND"] /\ mbox' = mbox /\ dl.odh = "ISDU"
      /\ dl.mh \in {"OPERATE", "PREOPERATE"} /\ UNCHANGED linked /\ dl.code
  BY DEF CommandSent
<1>3. /\ r \in DlRecord /\ r.mdh = dl.mdh /\ r.mode = dl.mode /\ r.lost = dl.lost /\ r.event = dl.event
      /\ r.isdu = dl.isdu /\ r.rw = dl.rw /\ SameCmd(r, dl)
  BY <1>1, ReceivedType, ReceivedFields, IhCommand
<1> HIDE DEF r
<1>4. /\ c \in DlRecord /\ c.mdh = dl.mdh /\ c.mode = dl.mode /\ c.lost = dl.lost /\ c.event = dl.event
      /\ c.isdu = dl.isdu /\ c.rw = dl.rw /\ (dl.cmdh # "COMMAND" => c.code = dl.code)
  BY <1>3, CmdHandlerType, CmdHandlerFields DEF SameCmd
<1> HIDE DEF c
<1>5. /\ dl'.mdh = dl.mdh /\ dl'.mode = dl.mode /\ dl'.lost = dl.lost /\ dl'.event = dl.event
      /\ dl'.isdu = dl.isdu /\ dl'.rw = dl.rw /\ dl'.odh = "COMMAND" /\ dl'.code = c.code
  BY <1>2, <1>4, DlShape
<1>6. Up(dl)
  <2>1. dl.mdh \in Mdhs
    BY <1>1, DlFacts
  <2> QED BY <1>2, <2>1 DEF PortInv, DlSound, Up, Mdhs
<1>7. Unsent(dl) => Unsent(dl')
  BY <1>2, <1>4, <1>5 DEF Unsent, Fresh
<1>8. /\ <<>> \in Given /\ ~Among({"ISDU_CNF"}, <<>>) /\ ~Among(Upsets, <<>>)
      /\ mbox' = mbox \o <<>> /\ Lacks(Failed, <<>>)
  BY <1>1, <1>2, GivenFacts, AmongFew, LacksFew DEF MboxTyped
<1>9. Token => Token'
  BY <1>1, <1>5, <1>8, TokenKept
<1>10. IsduEnds(<<>>) /\ CmdGoes(<<>>)
  BY <1>5, <1>6, <1>7, <1>8 DEF IsduEnds, CmdGoes
<1>11. Serene => Calmly(<<>>)
  BY <1>2, <1>5, <1>8 DEF Serene, Calmly
<1> QED BY <1>5, <1>8, <1>9, <1>10, <1>11 DEF LinkGoes

LEMMA DoneGoes ==
  ASSUME TypeInv, PortInv, CommandDone PROVE LinkGoes
<1> DEFINE r == Received(dl)
           s == Settled(dl)
<1>1. MboxTyped /\ dl \in DlRecord
  BY SmFacts
<1>2. /\ dl' = [r EXCEPT !.odh = "ISDU", !.cmd = "NONE"] /\ mbox' = mbox \o s
      /\ CommandSettled(dl) /\ dl.mh \in {"OPERATE", "PREOPERATE"}
  BY DEF CommandDone, DlPost, OdExchange
<1>3. /\ r \in DlRecord /\ r.mdh = dl.mdh /\ r.mode = dl.mode /\ r.lost = dl.lost /\ r.event = dl.event
      /\ r.isdu = dl.isdu /\ r.rw = dl.rw /\ SameCmd(r, dl)
  BY <1>1, ReceivedType, ReceivedFields, IhCommand
<1> HIDE DEF r
<1>4. /\ dl'.mdh = dl.mdh /\ dl'.mode = dl.mode /\ dl'.isdu = dl.isdu /\ dl'.rw = dl.rw
      /\ dl'.odh = "ISDU" /\ dl'.code = r.code
  BY <1>2, <1>3, DlShape
<1>5. Up(dl) /\ dl.mdh # "STARTUP"
  <2>1. dl.mdh \in Mdhs
    BY <1>1, DlFacts
  <2> QED BY <1>2, <2>1 DEF PortInv, DlSound, Up, Mdhs
<1>6. ~Unsent(dl) /\ Unsent(dl')
  BY <1>2, <1>3, <1>4 DEF Unsent, Fresh, CommandSettled, SameCmd
<1>7. s \in Given /\ ~Among({"ISDU_CNF"}, s)
  <2>1. s = <<>> \/ \E y \in PortJob : s = <<y>> /\ Kind(y) = "DEVMODE_CNF"
    BY <1>1, SettledFacts
  <2>2. CASE s = <<>>
    BY <2>2, GivenFacts, AmongFew
  <2>3. CASE \E y \in PortJob : s = <<y>> /\ Kind(y) = "DEVMODE_CNF"
    <3>1. PICK y \in PortJob : s = <<y>> /\ Kind(y) = "DEVMODE_CNF"
      BY <2>3
    <3>2. Among({"ISDU_CNF"}, <<y>>) <=> Kind(y) \in {"ISDU_CNF"}
      BY AmongFew
    <3> QED BY <3>1, <3>2, GivenFacts DEF LinkKinds
  <2> QED BY <2>1, <2>2, <2>3
<1> HIDE DEF s
<1>8. Token => Token'
  BY <1>1, <1>2, <1>4, <1>7, TokenKept
<1>9. IsduEnds(s) /\ CmdGoes(s) /\ ~Serene
  BY <1>4, <1>5, <1>6, <1>7 DEF IsduEnds, CmdGoes, Serene
<1> QED BY <1>2, <1>4, <1>7, <1>8, <1>9 DEF LinkGoes

(* Messages that were not answered. *)
LEMMA LostGoes ==
  ASSUME TypeInv, PortInv, MessageLost(smAux.addr) PROVE LinkGoes
<1>1. MboxTyped /\ dl \in DlRecord /\ smAux.addr \in Blocks
  BY SmFacts
<1>2. ~linked /\ ~Serene
  BY DEF MessageLost, Serene
<1>3. /\ SameCmd(GaveUp, dl) /\ GaveUp.mode = dl.mode /\ GaveUp.isdu = dl.isdu /\ GaveUp.mdh = dl.mdh
      /\ SameCmd([GaveUp EXCEPT !.cmd = "NONE"], dl) /\ [GaveUp EXCEPT !.cmd = "NONE"].mode = dl.mode
      /\ [GaveUp EXCEPT !.cmd = "NONE"].isdu = dl.isdu /\ [GaveUp EXCEPT !.cmd = "NONE"].mdh = dl.mdh
  BY <1>1, DlShape DEF SameCmd, GaveUp
<1>4. CASE StartupLost(smAux.addr)
  <2> DEFINE x == BlockCnf(dl.rw, smAux.addr, "ERR", NoSnap)
  <2>1. /\ dl' = GaveUp /\ mbox' = mbox \o <<x>> /\ dl.rw \in {"read", "write"} /\ dl.mh = "STARTUP"
    BY <1>4 DEF StartupLost, DlPost
  <2>2. smAux.addr # "WURQ" /\ dl.mdh = "STARTUP"
    BY <2>1 DEF PortInv, Asking, BlockOut, Ready
  <2>3. x \in PortJob /\ Kind(x) \in Asked
    <3>1. <<x>> \in Seq(PortJob)
      BY <1>1, <2>1, DlAnswers, WildFacts, ResultNames
    <3>2. x \in PortJob
      BY <3>1
    <3>3. Kind(x) = IF dl.rw = "read" THEN "NOT_READ" ELSE "NOT_WRITTEN"
      BY <2>1, <2>2, CnfKind
    <3> QED BY <3>2, <3>3 DEF Asked
  <2> HIDE DEF x
  <2>4. Kind(x) \in LinkKinds /\ x \notin CmdOk /\ Kind(x) # "ISDU_CNF"
    BY <2>3 DEF LinkKinds, CmdOk, Asked
  <2> QED BY <1>1, <1>2, <1>3, <2>1, <2>2, <2>3, <2>4, OneGoes
<1>5. CASE CycleLost
  <2>1. dl' = GaveUp /\ mbox' = mbox /\ dl.mh = "OPERATE"
    BY <1>1, <1>5 DEF CycleLost, DlPost, MboxTyped
  <2>2. ~BlockOut
    BY <2>1 DEF PortInv, Asking, Ready
  <2> QED BY <1>1, <1>2, <1>3, <2>1, <2>2, QuietGoes
<1>6. CASE ExchangeLost
  <2> DEFINE a == IF dl.cmd # "NONE" THEN <<DevmodeCnf("ERR")>> ELSE <<>>
             b == IF dl.rw = "param" THEN <<ParamCnf("ERR")>> ELSE <<>>
             s == a \o b
  <2>1. /\ dl' = [GaveUp EXCEPT !.cmd = "NONE"] /\ mbox' = mbox \o s
        /\ dl.mh \in {"PREOPERATE", "STRAY"} \/ (dl.mh = "OPERATE" /\ dl.rw = "param")
    BY <1>6 DEF ExchangeLost, DlPost
  <2>2. /\ a \in Given /\ ~Among({"ISDU_CNF"}, a) /\ Lacks(CmdOk, a)
        /\ b \in Given /\ ~Among({"ISDU_CNF"}, b) /\ Lacks(CmdOk, b)
    <3> DEFINE x == DevmodeCnf("ERR")
               y == ParamCnf("ERR")
    <3>1. x \in PortJob /\ Kind(x) = "DEVMODE_CNF" /\ y \in PortJob /\ Kind(y) = "PARAM_CNF"
      BY ModeKinds, ResultNames
    <3>2. x \notin CmdOk /\ y \notin CmdOk
      <4>1. x.res = "ERR"
        BY DEF DevmodeCnf, Cnf
      <4> QED BY <3>1, <4>1 DEF CmdOk
    <3>3. a \in {<<>>, <<x>>} /\ b \in {<<>>, <<y>>}
      OBVIOUS
    <3> HIDE DEF x, y, a, b
    <3>4. /\ Among({"ISDU_CNF"}, <<x>>) <=> Kind(x) \in {"ISDU_CNF"}
          /\ Among({"ISDU_CNF"}, <<y>>) <=> Kind(y) \in {"ISDU_CNF"}
          /\ ~Among({"ISDU_CNF"}, <<>>)
      BY AmongFew
    <3>5. Lacks(CmdOk, <<x>>) /\ Lacks(CmdOk, <<y>>) /\ Lacks(CmdOk, <<>>)
      BY <3>2, LacksFew
    <3>6. <<x>> \in Given /\ <<y>> \in Given /\ <<>> \in Given
      BY <3>1, GivenFacts DEF LinkKinds
    <3> QED BY <3>1, <3>3, <3>4, <3>5, <3>6
  <2> HIDE DEF a, b
  <2>3. s \in Given /\ a \in Seq(PortJob) /\ b \in Seq(PortJob)
    BY <2>2, GivenFacts DEF Given
  <2>4. ~Among({"ISDU_CNF"}, s) /\ Lacks(CmdOk, s)
    BY <2>2, <2>3, AmongJoined, LacksJoined
  <2> HIDE DEF s
  <2>5. ~BlockOut
    BY <2>1 DEF PortInv, Asking, Ready, BlockOut
  <2>6. ~(dl.mdh = "OPERATE" /\ Still)
    BY <2>1 DEF PortInv, DlSound, Still
  <2>7. Token => Token'
    BY <1>1, <2>1, <2>3, <2>5, TokenKept
  <2>8. IsduEnds(s) /\ CmdGoes(s)
    BY <1>3, <2>1, <2>4, <2>6 DEF IsduEnds, CmdGoes
  <2> QED BY <1>2, <1>3, <2>1, <2>3, <2>7, <2>8 DEF LinkGoes
<1> QED BY <1>4, <1>5, <1>6 DEF MessageLost

(* The wake-up, and the blocks of the startup. *)
LEMMA WakeUpGoes ==
  ASSUME TypeInv, PortInv, CommandSound, WakeUp(smAux.addr) PROVE LinkGoes
<1> DEFINE r == [Received(dl) EXCEPT !.wurq = FALSE, !.mdh = "STARTUP", !.mh = "STARTUP"]
           e == CH_Conf(r, TRUE)
           x == BlockCnf("read", smAux.addr, "OK", NoSnap)
           y == Signal("MODE_STARTUP")
           s == <<x, y>>
<1>1. MboxTyped /\ dl \in DlRecord
  BY SmFacts
<1>2. dl' = e /\ mbox' = mbox \o s /\ dl.wurq
  BY DEF WakeUp, DlPost
<1>3. dl.mdh = "ESTCOM" /\ dl.mode = "STARTUP" /\ smAux.addr = "WURQ" /\ Dormant(dl)
  BY <1>2 DEF PortInv, DlSound, Woken, CommandSound
<1>4. /\ r \in DlRecord /\ SameCmd(r, dl) /\ r.mdh = "STARTUP" /\ r.mode = dl.mode /\ r.isdu = dl.isdu
      /\ r.rw = dl.rw
  <2>1. Received(dl) \in DlRecord /\ SameCmd(Received(dl), dl) /\ Received(dl).mode = dl.mode
        /\ Received(dl).isdu = dl.isdu /\ Received(dl).rw = dl.rw
    BY <1>1, ReceivedType, IhCommand, ReceivedFields
  <2> DEFINE q == Received(dl)
  <2>2. q \in DlRecord
    BY <2>1
  <2>3. r = [q EXCEPT !.wurq = FALSE, !.mdh = "STARTUP", !.mh = "STARTUP"]
    OBVIOUS
  <2> HIDE DEF q, r
  <2>4. r \in DlRecord
    BY <2>2, <2>3, DlShape DEF Mdhs, Mhs
  <2>5. SameCmd(r, q) /\ r.mdh = "STARTUP" /\ r.mode = q.mode /\ r.isdu = q.isdu /\ r.rw = q.rw
    BY <2>2, <2>3, DlShape DEF SameCmd
  <2> QED BY <2>1, <2>4, <2>5 DEF SameCmd, q
<1> HIDE DEF r
<1>5. Dormant(r)
  BY <1>3, <1>4, SameSent
<1>6. /\ dl'.mdh = "STARTUP" /\ dl'.mode = dl.mode /\ dl'.isdu = dl.isdu /\ dl'.rw = dl.rw
  BY <1>2, <1>4, CH_ConfFields, DlNames
<1>7. Fresh(dl')
  <2>1. Fresh(CH_Conf(r, TRUE))
    BY <1>4, <1>5, ActiveFresh
  <2> QED BY <1>2, <2>1
<1>8. x \in PortJob /\ Kind(x) = "WURQ" /\ y \in PortJob /\ Kind(y) = "MODE_STARTUP"
  <2>1. <<x>> \in Seq(PortJob)
    BY <1>3, DlAnswers, WildFacts, ResultNames, BlockNames, DlNames
  <2>2. Kind(x) = "WURQ"
    BY <1>3, CnfKind
  <2> QED BY <2>1, <2>2, ModeKinds DEF Modes4
<1> HIDE DEF x, y, e
<1>9. s \in Given /\ s = <<x>> \o <<y>>
  <2>1. <<x>> \in Given /\ <<y>> \in Given
    BY <1>8, GivenFacts DEF LinkKinds, Modes4
  <2> QED BY <2>1, GivenFacts, PairJoined
<1>10. ~Among({"ISDU_CNF"}, s)
  <2>1. Among({"ISDU_CNF"}, <<x, y>>) <=> Kind(x) \in {"ISDU_CNF"} \/ Kind(y) \in {"ISDU_CNF"}
    BY AmongFew
  <2> QED BY <1>8, <2>1
<1>11. Lacks(CmdOk, s)
  <2>1. x \notin CmdOk /\ y \notin CmdOk
    BY <1>8 DEF CmdOk
  <2> QED BY <2>1, LacksFew
<1> HIDE DEF s
<1>12. Token => Token'
  BY <1>1, <1>2, <1>6, <1>9, TokenKept
<1>13. IsduEnds(s) /\ CmdGoes(s) /\ ~Serene
  BY <1>3, <1>6, <1>7, <1>10, <1>11 DEF IsduEnds, CmdGoes, Serene, Up
<1> QED BY <1>2, <1>6, <1>9, <1>12, <1>13 DEF LinkGoes

LEMMA WakeUpFailedGoes ==
  ASSUME TypeInv, PortInv, WakeUpFailed PROVE LinkGoes
<1> DEFINE x == Signal("MODE_INACTIVE")
<1>1. MboxTyped /\ dl \in DlRecord
  BY SmFacts
<1>2. /\ dl' = [Received(dl) EXCEPT !.wurq = FALSE, !.mdh = "IDLE", !.lost = FALSE]
      /\ mbox' = mbox \o <<x>> /\ dl.wurq
  BY DEF WakeUpFailed, DlPost
<1>3. dl.mdh = "ESTCOM" /\ ~Serene
  BY <1>2 DEF PortInv, DlSound, Serene, Up
<1>4. x \in PortJob /\ Kind(x) = "MODE_INACTIVE"
  BY ModeKinds DEF Modes4
<1> HIDE DEF x
<1>5. /\ SameCmd(dl', dl) /\ dl'.mode = dl.mode /\ dl'.isdu = dl.isdu /\ dl'.mdh = "IDLE"
      /\ dl'.rw = dl.rw
  BY <1>1, <1>2, DlShape DEF SameCmd, Received
<1>6. x \notin CmdOk /\ Kind(x) \in LinkKinds
  BY <1>4 DEF CmdOk, LinkKinds, Modes4
<1> QED BY <1>1, <1>2, <1>3, <1>4, <1>5, <1>6, OneGoes

LEMMA BlockDoneGoes ==
  ASSUME TypeInv, PortInv, NEW snap \in Snapshot, BlockDone(smAux.addr, snap) PROVE LinkGoes
<1> DEFINE x == BlockCnf(dl.rw, smAux.addr, "OK", snap)
<1>1. MboxTyped /\ dl \in DlRecord /\ smAux.addr \in Blocks
  BY SmFacts
<1>2. /\ dl' = [Received(dl) EXCEPT !.rw = "none"] /\ mbox' = mbox \o <<x>>
      /\ dl.rw \in {"read", "write"} /\ UNCHANGED linked
  BY DEF BlockDone, DlPost
<1>3. smAux.addr # "WURQ" /\ dl.mdh = "STARTUP"
  BY <1>2 DEF PortInv, Asking, BlockOut, Ready
<1>4. x \in PortJob /\ Kind(x) \in Asked
  <2>1. <<x>> \in Seq(PortJob)
    BY <1>1, <1>2, DlAnswers, ResultNames
  <2>2. x \in PortJob
    BY <2>1
  <2>3. Kind(x) = IF dl.rw = "read" THEN "READ" ELSE "WRITTEN"
    BY <1>2, <1>3, CnfKind
  <2> QED BY <2>2, <2>3 DEF Asked
<1> HIDE DEF x
<1>5. /\ SameCmd(dl', dl) /\ dl'.mode = dl.mode /\ dl'.isdu = dl.isdu /\ dl'.mdh = dl.mdh
      /\ dl'.lost = dl.lost /\ dl'.event = dl.event
  BY <1>1, <1>2, DlShape DEF SameCmd, Received
<1>6. /\ x \notin CmdOk /\ x \notin Failed /\ Kind(x) \in LinkKinds /\ Kind(x) \notin Upsets
      /\ Kind(x) # "ISDU_CNF"
  BY <1>4 DEF CmdOk, Failed, LinkKinds, Upsets, Asked
<1> QED BY <1>1, <1>2, <1>3, <1>4, <1>5, <1>6, OneGoes DEF Serene

(* The device answers. *)
LEMMA AnswerGoes ==
  ASSUME ~Parallel, TypeInv, PortInv, IsduExchange, NEW res \in Results, NEW snap \in Snapshot, Answer(res, snap),
         UNCHANGED linked, svc.index = "SERNUM" => res = "OK"
  PROVE  LinkGoes
<1> DEFINE x == IsduCnf(res, snap)
<1>1. MboxTyped /\ dl \in DlRecord
  BY SmFacts
<1>2. x \in PortJob /\ Kind(x) = "ISDU_CNF" /\ x.res = res
  <2>1. x.res = res
    BY DEF IsduCnf, Cnf
  <2> QED BY <2>1, ModeKinds
<1> DEFINE free == [Received(dl) EXCEPT !.isdu = FALSE]
<1>3. /\ dl' = [free EXCEPT !.rw = "none"] /\ dl.isdu /\ dl.rw = "isdu" /\ mbox' = Append(mbox, x)
  BY DEF Answer, Confirmed, Post, IsduExchange
<1> HIDE DEF x
<1>4. mbox' = mbox \o <<x>>
  BY <1>1, <1>2, <1>3, Appended DEF MboxTyped
<1>5. /\ SameCmd(dl', dl) /\ dl'.mode = dl.mode /\ ~dl'.isdu /\ dl'.mdh = dl.mdh
      /\ dl'.lost = dl.lost /\ dl'.event = dl.event
  <2>1. /\ free \in DlRecord /\ SameCmd(free, dl) /\ free.mode = dl.mode /\ ~free.isdu
        /\ free.mdh = dl.mdh /\ free.lost = dl.lost /\ free.event = dl.event
    BY <1>1, DlShape DEF SameCmd, Received
  <2> HIDE DEF free
  <2> QED BY <1>3, <2>1, DlShape DEF SameCmd
<1>8. ~BlockOut
  BY <1>3 DEF BlockOut
<1>6. /\ x \notin CmdOk /\ (svc.index = "SERNUM" => x \notin Failed) /\ Kind(x) \in LinkKinds
      /\ Kind(x) \notin Upsets
  BY <1>2 DEF CmdOk, Failed, LinkKinds, Upsets
<1>7. Kind(x) = "ISDU_CNF"
  BY <1>2
<1> HIDE DEF free
<1> QED BY <1>1, <1>2, <1>3, <1>4, <1>5, <1>6, <1>7, <1>8, OneGoes DEF Serene

(* The thread of the DL, and the device. *)
LEMMA LinkSteps ==
  ASSUME ~Parallel, ~Refuses, TypeInv, PortInv, CommandSound,
         DlStep \/ DlWakeUp \/ DlWakeUpFailed \/ DlBlockDone \/ DevAnswers \/ DevRefuses
  PROVE  LinkGoes /\ LinkStill
<1>1. CASE DlStep
  <2>1. LinkStill
    BY <1>1 DEF DlStep, LinkStill, cmVars, dsVars, smVars
  <2>2. ~Leave /\ ~DlClear
    <3>1. dl.left = "none"
      BY SmFacts, DlFacts
    <3> QED BY <3>1 DEF Leave, DlClear, Leaves, Clears
  <2> QED BY <1>1, <2>1, <2>2, ModeHandlerGoes, ParamGoes, SentGoes, DoneGoes, LostGoes DEF DlStep
<1>2. CASE DlWakeUp
  <2>1. LinkStill
    BY <1>2 DEF DlWakeUp, LinkStill, cmVars, dsVars, smVars
  <2> QED BY <1>2, <2>1, WakeUpGoes DEF DlWakeUp
<1>3. CASE DlWakeUpFailed
  <2>1. LinkStill
    BY <1>3 DEF DlWakeUpFailed, LinkStill, cmVars, dsVars, smVars
  <2> QED BY <1>3, <2>1, WakeUpFailedGoes DEF DlWakeUpFailed
<1>4. CASE DlBlockDone
  <2>1. LinkStill
    BY <1>4 DEF DlBlockDone, LinkStill, cmVars, dsVars, smVars
  <2>2. Direct \in Snapshot /\ NoSnap \in Snapshot
    BY DevFacts, WildFacts DEF Direct, Snapshot
  <2> QED BY <1>4, <2>1, <2>2, BlockDoneGoes DEF DlBlockDone
<1>5. CASE DevAnswers
  <2>1. LinkStill /\ UNCHANGED linked /\ IsduExchange
    BY <1>5 DEF DevAnswers, LinkStill, cmVars, dsVars, smVars
  <2>2. [NoSnap EXCEPT !.id = dev.id] \in Snapshot /\ NoSnap \in Snapshot /\ Shown \in Snapshot
    BY DevFacts, WildFacts DEF Shown, Snapshot, Revs
  <2>3. \E snap \in Snapshot : Answer("OK", snap)
    BY <1>5, <2>2 DEF DevAnswers, DevRead, DevWrite
  <2> QED BY <2>1, <2>3, AnswerGoes, ResultNames
<1>6. CASE DevRefuses
  <2>1. LinkStill /\ UNCHANGED linked /\ IsduExchange
    BY <1>6 DEF DevRefuses, LinkStill, cmVars, dsVars, smVars
  <2>2. svc.index # "SERNUM" /\ Answer("ERR", NoSnap)
    BY <1>6 DEF DevRefuses, Refuses
  <2> QED BY <2>1, <2>2, AnswerGoes, ResultNames, WildFacts
<1> QED BY <1>1, <1>2, <1>3, <1>4, <1>5, <1>6

(* They keep the invariant. *)
LEMMA GivenAmong ==
  ASSUME MboxTyped, NEW s \in Given, mbox' = mbox \o s
  PROVE  /\ s \in Seq(PortJob)
         /\ \A K : Among(K, mbox') <=> Among(K, mbox) \/ Among(K, s)
         /\ \A K : K \cap LinkKinds = {} => ~Among(K, s)
         /\ \A X : Lacks(X, mbox') <=> Lacks(X, mbox) /\ Lacks(X, s)
         /\ Lacks(Misnamed, s)
<1>1. s \in Seq(PortJob) /\ mbox \in Seq(PortJob)
  BY DEF Given, MboxTyped
<1>2. \A i \in DOMAIN s : Kind(s[i]) \in LinkKinds
  BY DEF Given
<1>3. Lacks(Misnamed, s)
  BY <1>2 DEF Lacks, Misnamed, LinkKinds, Modes4, Asked
<1>4. \A K : K \cap LinkKinds = {} => ~Among(K, s)
  BY <1>2 DEF Among
<1>5. \A X : Lacks(X, mbox') <=> Lacks(X, mbox) /\ Lacks(X, s)
  BY <1>1, LacksJoined
<1>6. \A K : Among(K, mbox') <=> Among(K, mbox) \/ Among(K, s)
  BY <1>1, AmongJoined
<1> QED BY <1>1, <1>3, <1>4, <1>5, <1>6

LEMMA LinkUndisturbed ==
  ASSUME MboxTyped, Undisturbed, LinkGoes, LinkStill PROVE Undisturbed'
<1>1. PICK s \in Given : mbox' = mbox \o s
  BY DEF LinkGoes
<1>2. s \in Seq(PortJob)
  BY <1>1, GivenAmong
<1>3. RestJobs \cap LinkKinds = {} /\ {"COMREADY"} \cap LinkKinds = {}
  BY DEF RestJobs, LinkKinds, Modes4, Asked
<1>4. ~Among(RestJobs, s) /\ ~Among({"COMREADY"}, s)
  BY <1>1, <1>3, GivenAmong
<1>5. /\ Among(RestJobs, mbox') <=> Among(RestJobs, mbox)
      /\ Among({"COMREADY"}, mbox') <=> Among({"COMREADY"}, mbox)
  BY <1>1, <1>4, GivenAmong
<1>6. Single({"COMREADY"}, mbox) => Single({"COMREADY"}, mbox')
  BY <1>1, <1>2, <1>4, SingleJoined DEF MboxTyped
<1>7. dl'.mode = dl.mode
  BY DEF LinkGoes
<1>8. Early' <=> Early
  BY <1>7 DEF LinkStill, Early, Starting
<1>9. Resting' <=> Resting
  BY <1>5 DEF LinkStill, Resting
<1>10. Waiting("COMREADY")' <=> Waiting("COMREADY")
  BY <1>5 DEF Waiting
<1> QED BY <1>6, <1>8, <1>9, <1>10 DEF Undisturbed, LinkStill

LEMMA LinkReplied ==
  ASSUME MboxTyped, Replied, LinkGoes, LinkStill PROVE Replied'
<1>1. PICK s \in Given : mbox' = mbox \o s /\ IsduEnds(s)
  BY DEF LinkGoes
<1>2. s \in Seq(PortJob) /\ mbox \in Seq(PortJob)
  BY <1>1, GivenAmong DEF MboxTyped
<1>3. Among({"ISDU_CNF"}, mbox') <=> Among({"ISDU_CNF"}, mbox) \/ Among({"ISDU_CNF"}, s)
  BY <1>1, GivenAmong
<1>4. Single({"ISDU_CNF"}, mbox')
  BY <1>1, <1>2, SingleJoined DEF Replied, IsduEnds, Waiting
<1> QED BY <1>1, <1>3, <1>4 DEF Replied, IsduEnds, LinkStill, Waiting

LEMMA LinkCommand ==
  ASSUME TypeInv, PortInv, CommandSound, LinkGoes, LinkStill, dl' \in DlRecord PROVE CommandSound'
<1>1. PICK s \in Given : mbox' = mbox \o s /\ CmdGoes(s)
  BY DEF LinkGoes
<1>2. MboxTyped /\ dl \in DlRecord
  BY SmFacts
<1>3. dl'.mode = dl.mode /\ UNCHANGED sm
  BY DEF LinkGoes, LinkStill
<1>4. dl.mdh \in Mdhs /\ dl'.mdh \in Mdhs
  BY <1>2, DlFacts
<1>5. Lacks(CmdOk, mbox') <=> Lacks(CmdOk, mbox) /\ Lacks(CmdOk, s)
  BY <1>1, <1>2, GivenAmong
<1>6. /\ Waiting("SMI_CFG")' \/ Waiting("SM_CFG")' <=> Waiting("SMI_CFG") \/ Waiting("SM_CFG")
      /\ Among(Upsets, mbox') <=> Among(Upsets, mbox) \/ Among(Upsets, s)
  <2>1. {"SMI_CFG"} \cap LinkKinds = {} /\ {"SM_CFG"} \cap LinkKinds = {}
    BY DEF LinkKinds, Modes4, Asked
  <2>2. ~Among({"SMI_CFG"}, s) /\ ~Among({"SM_CFG"}, s)
    BY <1>1, <1>2, <2>1, GivenAmong
  <2>3. /\ Among({"SMI_CFG"}, mbox') <=> Among({"SMI_CFG"}, mbox) \/ Among({"SMI_CFG"}, s)
        /\ Among({"SM_CFG"}, mbox') <=> Among({"SM_CFG"}, mbox) \/ Among({"SM_CFG"}, s)
        /\ Among(Upsets, mbox') <=> Among(Upsets, mbox) \/ Among(Upsets, s)
    BY <1>1, <1>2, GivenAmong
  <2> QED BY <2>2, <2>3 DEF Waiting
<1>7. ~Among(Upsets, <<>>) /\ Lacks(CmdOk, <<>>)
  BY AmongFew, LacksFew
<1>8. /\ SameCmd(dl', dl) => (Fresh(dl') <=> Fresh(dl)) /\ (Unsent(dl') <=> Unsent(dl)) /\ (Dormant(dl') <=> Dormant(dl))
  BY SameSent
<1>9. (dl'.mdh = "STARTUP" => Fresh(dl')) /\ (dl'.mdh \in {"IDLE", "ESTCOM"} => Dormant(dl'))
  BY <1>1, <1>8 DEF CmdGoes, CommandSound, Up
<1>10. dl'.mode = "STARTUP" /\ dl'.mdh = "OPERATE" => Unsent(dl')
  BY <1>1, <1>3, <1>8 DEF CmdGoes, CommandSound
<1>11. sm \in Confirming \cup {"wait_devmode_cnf", "SMOperate"} => dl'.mdh \in {"PREOPERATE", "OPERATE", "IDLE"}
  <2>1. sm \in Confirming \cup {"wait_devmode_cnf", "SMOperate"} => dl.mode # "STARTUP"
    BY DEF PortInv, Moded, Confirming
  <2> QED BY <1>1, <2>1 DEF CmdGoes, CommandSound, Up
<1>12. sm \in Confirming => Lacks(CmdOk, mbox')
  <2>1. sm \in Confirming => dl.mdh # "STARTUP" /\ (Up(dl) => Unsent(dl)) /\ Lacks(CmdOk, mbox)
    BY DEF CommandSound, Confirming, Uncommanding
  <2> QED BY <1>1, <1>5, <1>7, <2>1 DEF CmdGoes
<1>13. Up(dl') /\ sm \in Uncommanding => Unsent(dl')
  BY <1>1, <1>8 DEF CmdGoes, CommandSound, Up
<1>14. Up(dl') /\ sm = "wait_devmode_cnf" /\ ~Lacks(CmdOk, mbox') => Unsent(dl')
  BY <1>1, <1>5, <1>7, <1>8 DEF CmdGoes, CommandSound, Up
<1>15. (Waiting("SMI_CFG")' \/ Waiting("SM_CFG")') /\ dl'.mdh = "OPERATE" =>
          sm \notin {"PortInactive", "DIDO"} /\ ~Among(Upsets, mbox')
  <2> SUFFICES ASSUME Waiting("SMI_CFG") \/ Waiting("SM_CFG"), dl'.mdh = "OPERATE"
               PROVE  sm \notin {"PortInactive", "DIDO"} /\ ~Among(Upsets, mbox')
    BY <1>6
  <2>1. /\ Still /\ sm \in SmRest /\ dl.mdh # "STARTUP"
        /\ dl.mode = "OPERATE" => dl.mdh # "PREOPERATE"
    BY DEF PortInv, Configuring
  <2>2. dl.mdh = "OPERATE" => /\ sm \notin {"PortInactive", "DIDO"} /\ ~Among(Upsets, mbox)
                              /\ Unsent(dl)
    BY <2>1 DEF CommandSound, Uncommanding, Confirming, Up, SmRest
  <2> QED BY <1>1, <1>6, <1>7, <2>1, <2>2 DEF CmdGoes
<1> QED BY <1>3, <1>9, <1>10, <1>11, <1>12, <1>13, <1>14, <1>15 DEF CommandSound, Up

(* The way to the mode the SM waits for. *)
LEMMA ReachingGoes ==
  ASSUME TypeInv, CommandSound, LinkGoes, LinkStill, NEW state \in {"waitonDLPreoperate", "waitonDLOperate"},
         NEW mode \in {"PREOPERATE", "OPERATE"}, NEW job, job = ModeJob(mode), Reaching(state, mode, job)
  PROVE  Reaching(state, mode, job)'
<1>1. PICK s \in Given : mbox' = mbox \o s /\ (Token => Token') /\ (Serene => Calmly(s) \/ Arrives(s))
  BY DEF LinkGoes
<1>2. MboxTyped /\ s \in Seq(PortJob)
  BY <1>1, SmFacts DEF Given
<1>3. dl'.mode = dl.mode /\ UNCHANGED sm
  BY DEF LinkGoes, LinkStill
<1>4. job \in {"MODE_PREOPERATE", "MODE_OPERATE"}
  BY DEF ModeJob
<1> SUFFICES ASSUME sm = state, ~Token
             PROVE  /\ linked' /\ ~dl'.lost /\ dl'.mode = mode
                    /\ \/ dl'.event /\ dl'.mdh = "STARTUP" /\ ~Among(Modes4, mbox')
                       \/ /\ ~dl'.event /\ dl'.mdh = mode
                          /\ Waiting(job)' /\ ~Among(Modes4 \ {job}, mbox')
                          /\ NoneAfter(job, Upsets, mbox')
  BY <1>1, <1>3 DEF Reaching
<1>5. /\ linked /\ ~dl.lost /\ dl.mode = mode
      /\ \/ dl.event /\ dl.mdh = "STARTUP" /\ ~Among(Modes4, mbox)
         \/ /\ ~dl.event /\ dl.mdh = mode
            /\ Waiting(job) /\ ~Among(Modes4 \ {job}, mbox)
            /\ NoneAfter(job, Upsets, mbox)
  BY DEF Reaching
<1>6. Serene
  <2>1. Up(dl) => Unsent(dl)
    BY DEF CommandSound, Uncommanding
  <2> QED BY <1>5, <2>1 DEF Serene, Up
<1>7. \A K : Among(K, mbox') <=> Among(K, mbox) \/ Among(K, s)
  BY <1>1, <1>2, GivenAmong
<1>8. CASE Calmly(s)
  <2>1. ~Among(Modes4, s) /\ ~Among(Modes4 \ {job}, s) /\ ~Among(Upsets, s)
    BY <1>8 DEF Calmly, Among, Modes4, Upsets
  <2>2. NoneAfter(job, Upsets, mbox) => NoneAfter(job, Upsets, mbox')
    BY <1>1, <1>2, <1>4, <2>1, AfterJoined DEF MboxTyped, Upsets
  <2>3. /\ Among(Modes4, mbox') <=> Among(Modes4, mbox)
        /\ Among(Modes4 \ {job}, mbox') <=> Among(Modes4 \ {job}, mbox)
        /\ Waiting(job) => Waiting(job)'
    BY <1>7, <2>1 DEF Waiting
  <2> QED BY <1>3, <1>5, <1>8, <2>2, <2>3 DEF Calmly
<1>9. CASE Arrives(s)
  <2>1. PICK t \in Seq(PortJob) : s = t \o <<Signal(job)>> /\ ~Among(Modes4, t)
    BY <1>5, <1>9 DEF Arrives
  <2> DEFINE x == Signal(job)
  <2>2. x \in PortJob /\ Kind(x) = job
    BY <1>4, ModeKinds DEF Modes4
  <2> HIDE DEF x
  <2>3. dl.event /\ linked' /\ ~dl'.lost /\ ~dl'.event /\ dl'.mdh = mode /\ ~Among(Modes4, mbox)
    BY <1>5, <1>9 DEF Arrives
  <2>4. <<x>> \in Seq(PortJob) /\ mbox \in Seq(PortJob) /\ s = t \o <<x>>
    BY <1>2, <2>1, <2>2 DEF MboxTyped, x
  <2>5. /\ Among({job}, <<x>>) <=> Kind(x) \in {job}
        /\ Among(Modes4 \ {job}, <<x>>) <=> Kind(x) \in Modes4 \ {job}
    BY AmongFew
  <2>6. \A K : Among(K, s) <=> Among(K, t) \/ Among(K, <<x>>)
    BY <2>4, AmongJoined
  <2>7. ~Among({job}, t) /\ ~Among(Modes4 \ {job}, t) /\ ~Among({job}, mbox) /\ ~Among(Modes4 \ {job}, mbox)
    BY <1>4, <2>1, <2>3 DEF Among, Modes4
  <2>8. Waiting(job)' /\ ~Among(Modes4 \ {job}, mbox')
    BY <1>7, <2>2, <2>5, <2>6, <2>7 DEF Waiting
  <2>9. NoneAfter(job, Upsets, <<x>>)
    BY DEF NoneAfter
  <2>10. NoneAfter(job, Upsets, t) /\ NoneAfter(job, Upsets, mbox)
    BY <2>7, NoneAfterNone
  <2>11. NoneAfter(job, Upsets, s)
    BY <2>4, <2>7, <2>9, <2>10, AfterJoined
  <2>12. NoneAfter(job, Upsets, mbox')
    BY <1>1, <1>2, <2>4, <2>7, <2>10, <2>11, AfterJoined
  <2> QED BY <1>3, <1>5, <2>3, <2>8, <2>12
<1> QED BY <1>1, <1>6, <1>8, <1>9

LEMMA LinkAwaited ==
  ASSUME TypeInv, PortInv, ReplyInv, LinkGoes, LinkStill PROVE Awaited'
<1>1. PICK s \in Given : /\ mbox' = mbox \o s /\ (Token => Token') /\ IsduEnds(s)
                         /\ Serene => Calmly(s) \/ Arrives(s)
  BY DEF LinkGoes
<1>2. MboxTyped /\ s \in Seq(PortJob)
  BY <1>1, SmFacts DEF Given
<1>3. dl'.mode = dl.mode /\ UNCHANGED <<sm, smAux, svc>> /\ Awaited /\ CommandSound
  BY DEF LinkGoes, LinkStill, ReplyInv
<1>4. /\ Reaching("waitonDLPreoperate", "PREOPERATE", "MODE_PREOPERATE")'
      /\ Reaching("waitonDLOperate", "OPERATE", "MODE_OPERATE")'
  <2>1. ModeJob("PREOPERATE") = "MODE_PREOPERATE" /\ ModeJob("OPERATE") = "MODE_OPERATE"
    BY DEF ModeJob
  <2> QED BY <1>3, <2>1, ReachingGoes DEF Awaited
<1>5. /\ \A K : Among(K, mbox') <=> Among(K, mbox) \/ Among(K, s)
      /\ \A X : Lacks(X, mbox') <=> Lacks(X, mbox) /\ Lacks(X, s)
      /\ Lacks(Misnamed, s)
  BY <1>1, <1>2, GivenAmong
<1>6. Serviced("SERNUM") => Serviced("SERNUM")'
  BY <1>3, <1>5 DEF Serviced, Waiting
<1>7. Serviced("CYCL") => Serviced("CYCL")'
  BY <1>3, <1>5 DEF Serviced, Waiting
<1>8. ASSUME sm = "checkSerNum" PROVE Held' /\ Lacks(Failed, mbox')
  <2>1. Held /\ Lacks(Failed, mbox)
    BY <1>3, <1>8 DEF Awaited
  <2>2. Serene
    BY <1>3, <1>8, <2>1 DEF Held, Serene, CommandSound, Uncommanding, Confirming
  <2>3. Calmly(s)
    BY <1>1, <2>1, <2>2 DEF Held, Arrives
  <2>4. Held'
    BY <1>3, <1>5, <2>1, <2>3 DEF Held, Calmly, Up
  <2>5. Lacks(Failed, s)
    <3>1. CASE svc.index = "SERNUM"
      BY <2>3, <3>1 DEF Calmly
    <3>2. CASE svc.index # "SERNUM"
      <4>1. svc = NoSvc
        BY <1>8, <3>2 DEF ReplyInv, Undisturbed
      <4>2. ~dl.isdu
        BY <4>1 DEF ReplyInv, Replied
      <4>3. ~Among({"ISDU_CNF"}, s)
        BY <1>1, <4>2 DEF IsduEnds
      <4>4. \A i \in DOMAIN s : Kind(s[i]) \in LinkKinds
        BY DEF Given
      <4> QED BY <4>3, <4>4 DEF Lacks, Failed, Among, LinkKinds, Modes4, Asked
    <3> QED BY <3>1, <3>2
  <2> QED BY <1>5, <2>1, <2>4, <2>5
<1> QED BY <1>1, <1>3, <1>4, <1>5, <1>6, <1>7, <1>8 DEF Awaited

LEMMA LinkReply ==
  ASSUME ~Parallel, ~Refuses, TypeInv, PortInv, ReplyInv, dl' \in DlRecord,
         DlStep \/ DlWakeUp \/ DlWakeUpFailed \/ DlBlockDone \/ DevAnswers \/ DevRefuses
  PROVE  ReplyInv'
<1>1. LinkGoes /\ LinkStill
  BY LinkSteps DEF ReplyInv
<1>2. MboxTyped
  BY SmFacts
<1> QED BY <1>1, <1>2, LinkUndisturbed, LinkReplied, LinkCommand, LinkAwaited DEF ReplyInv

-----------------------------------------------------------------------------
(* The main thread takes the job at the head, and posts the jobs s. *)
LEMMA MainQueue ==
  ASSUME MboxTyped, mbox # <<>>, NEW s \in Seq(PortJob), TakeAndPost(s)
  PROVE  /\ \A K : Among(K, mbox) <=> Kind(Head(mbox)) \in K \/ Among(K, Tail(mbox))
         /\ \A K : Among(K, mbox') <=> Among(K, Tail(mbox)) \/ Among(K, s)
         /\ \A X : Lacks(X, mbox) <=> Lacks(X, Tail(mbox)) /\ Head(mbox) \notin X
         /\ \A X : Lacks(X, mbox') <=> Lacks(X, Tail(mbox)) /\ Lacks(X, s)
         /\ \A K : Single(K, mbox) /\ Kind(Head(mbox)) \in K => ~Among(K, Tail(mbox))
         /\ \A K : Single(K, mbox) /\ ~Among(K, s) => Single(K, mbox')
         /\ \A K : ~Among(K, Tail(mbox)) /\ Single(K, s) => Single(K, mbox')
         /\ \A k, K : NoneAfter(k, K, mbox) /\ k \in K /\ ~Among(K, s) => NoneAfter(k, K, mbox')
         /\ \A k, K : NoneAfter(k, K, mbox) /\ Kind(Head(mbox)) = k => ~Among(K, Tail(mbox))
<1> DEFINE q == Tail(mbox)
<1>1. mbox \in Seq(PortJob) /\ q \in Seq(PortJob) /\ mbox' = q \o s
  BY HeadFacts DEF MboxTyped, TakeAndPost
<1>2. \A K : Among(K, mbox) <=> Kind(Head(mbox)) \in K \/ Among(K, q)
  BY <1>1, AmongTail
<1>3. \A X : Lacks(X, mbox) <=> Lacks(X, q) /\ Head(mbox) \notin X
  BY <1>1, LacksTail
<1>4. \A K : Single(K, mbox) => Single(K, q) /\ (Kind(Head(mbox)) \in K => ~Among(K, q))
  BY <1>1, SingleTail
<1>5. \A k, K : NoneAfter(k, K, mbox) => NoneAfter(k, K, q) /\ (Kind(Head(mbox)) = k => ~Among(K, q))
  BY <1>1, AfterTail
<1> HIDE DEF q
<1>6. \A K : Among(K, mbox') <=> Among(K, q) \/ Among(K, s)
  BY <1>1, AmongJoined
<1>7. \A X : Lacks(X, mbox') <=> Lacks(X, q) /\ Lacks(X, s)
  BY <1>1, LacksJoined
<1>8. \A K : (Single(K, q) /\ ~Among(K, s) => Single(K, mbox')) /\ (~Among(K, q) /\ Single(K, s) => Single(K, mbox'))
  BY <1>1, SingleJoined
<1>9. \A k, K : NoneAfter(k, K, q) /\ k \in K /\ ~Among(K, s) => NoneAfter(k, K, mbox')
  BY <1>1, AfterJoined
<1> QED BY <1>2, <1>3, <1>4, <1>5, <1>6, <1>7, <1>8, <1>9 DEF q

(* It gives the AL no answer of the DL, and starts no service. *)
LEMMA MainReplied ==
  ASSUME MboxTyped, mbox # <<>>, NEW s \in Seq(PortJob), TakeAndPost(s), Replied,
         dl'.isdu = dl.isdu, UNCHANGED svc, ~Among({"ISDU_CNF"}, s)
  PROVE  Replied'
<1>1. /\ Single({"ISDU_CNF"}, mbox')
      /\ Among({"ISDU_CNF"}, mbox') => Among({"ISDU_CNF"}, mbox)
  BY MainQueue DEF Replied
<1> QED BY <1>1 DEF Replied, Waiting

(* The command and the modes stay, and so does the state of the SM. *)
LEMMA MainCommand ==
  ASSUME MboxTyped, mbox # <<>>, NEW s \in Seq(PortJob), TakeAndPost(s), CommandSound,
         SameCmd(dl', dl), dl'.mdh = dl.mdh, dl'.mode = dl.mode, UNCHANGED sm,
         ~Among(Upsets, s), ~Among({"SMI_CFG"}, s),
         Among({"SM_CFG"}, s) => Kind(Head(mbox)) = "SMI_CFG"
  PROVE  CommandSound'
<1>1. (Fresh(dl') <=> Fresh(dl)) /\ (Unsent(dl') <=> Unsent(dl)) /\ (Dormant(dl') <=> Dormant(dl))
  BY SameSent
<1>2. Lacks(CmdOk, s)
  BY DEF Lacks, CmdOk, Among, Upsets
<1>3. Lacks(CmdOk, mbox) => Lacks(CmdOk, mbox')
  BY <1>2, MainQueue
<1>4. /\ Among({"SMI_CFG"}, mbox') => Among({"SMI_CFG"}, mbox)
      /\ Among({"SM_CFG"}, mbox') => Among({"SM_CFG"}, mbox) \/ Among({"SMI_CFG"}, mbox)
      /\ Among(Upsets, mbox') => Among(Upsets, mbox)
  BY MainQueue
<1>5. Up(dl') <=> Up(dl)
  BY DEF Up
<1> QED BY <1>1, <1>3, <1>4, <1>5 DEF CommandSound, Waiting

(* The data storage stays at rest, or a job was taken that shows that      *)
(* nothing is being started.                                               *)
LEMMA MainUndisturbed ==
  ASSUME MboxTyped, mbox # <<>>, NEW s \in Seq(PortJob), TakeAndPost(s), Undisturbed,
         dl'.mode = dl.mode, UNCHANGED <<sm, svc>>, ~Among({"COMREADY"}, s),
         \/ Kind(Head(mbox)) \in RestJobs \cup {"COMREADY"}
         \/ ~Among(RestJobs, s) /\ (dsState \in RestStates => dsState' \in RestStates)
  PROVE  Undisturbed'
<1>1. Early' <=> Early
  BY DEF Early, Starting
<1>2. Waiting("COMREADY")' => Waiting("COMREADY") /\ Kind(Head(mbox)) # "COMREADY" /\ Single({"COMREADY"}, mbox')
  BY MainQueue DEF Waiting, Undisturbed
<1>3. CASE Kind(Head(mbox)) \in RestJobs \cup {"COMREADY"}
  <2>1. ~Early /\ sm # "checkSerNum"
    BY <1>3, MainQueue DEF Undisturbed, Resting, Waiting
  <2>2. ~Waiting("COMREADY")'
    BY <1>2, <1>3, MainQueue DEF Undisturbed, Resting
  <2> QED BY <1>1, <2>1, <2>2 DEF Undisturbed
<1>4. CASE ~Among(RestJobs, s) /\ (dsState \in RestStates => dsState' \in RestStates)
  <2>1. Resting => Resting'
    BY <1>4, MainQueue DEF Resting
  <2> QED BY <1>1, <1>2, <2>1 DEF Undisturbed
<1> QED BY <1>3, <1>4

(* What the SM waits for is not taken, but for the cycle time that is      *)
(* answered.                                                               *)
LEMMA MainAwaited ==
  ASSUME MboxTyped, mbox # <<>>, NEW s \in Seq(PortJob), TakeAndPost(s), Awaited,
         UNCHANGED <<dl, linked, sm, svc>>, smAux'.retry = smAux.retry,
         ~Among(Upsets, s), Lacks(Failed, s), Lacks(Misnamed, s),
         Kind(Head(mbox)) \in Asked => sm \notin CompatStates \cup {"waitonDLPreoperate", "waitonDLOperate"},
         ~(sm = "waitonDLPreoperate" /\ Kind(Head(mbox)) = "MODE_PREOPERATE"),
         ~(sm = "waitonDLOperate" /\ Kind(Head(mbox)) = "MODE_OPERATE"),
         Kind(Head(mbox)) = "SERNUM" => sm # "checkSerNum",
         Kind(Head(mbox)) = "CYCL" => sm # "write_master_cycl" \/ Among({"CYCL"}, s)
  PROVE  Awaited'
<1>1. Token /\ sm \in CompatStates \cup {"waitonDLPreoperate", "waitonDLOperate"} => Token'
  BY MainQueue DEF Token, BlockOut
<1>2. ASSUME NEW state \in {"waitonDLPreoperate", "waitonDLOperate"}, NEW mode, NEW job \in Modes4,
             sm = state => Kind(Head(mbox)) # job, Reaching(state, mode, job)
      PROVE  Reaching(state, mode, job)'
  <2>1. ~Among(Modes4, s) /\ ~Among(Modes4 \ {job}, s)
    BY DEF Among, Modes4, Upsets
  <2>2. /\ Among(Modes4, mbox') => Among(Modes4, mbox)
        /\ Among(Modes4 \ {job}, mbox') => Among(Modes4 \ {job}, mbox)
    BY <2>1, MainQueue
  <2>3. sm = state /\ Among({job}, mbox) => Among({job}, mbox')
    BY <1>2, MainQueue
  <2>4. job \in Upsets
    BY DEF Modes4, Upsets
  <2>5. NoneAfter(job, Upsets, mbox) => NoneAfter(job, Upsets, mbox')
    BY <2>4, MainQueue
  <2> QED BY <1>1, <1>2, <2>2, <2>3, <2>5 DEF Reaching, Waiting
<1>3. /\ Reaching("waitonDLPreoperate", "PREOPERATE", "MODE_PREOPERATE")'
      /\ Reaching("waitonDLOperate", "OPERATE", "MODE_OPERATE")'
  BY <1>2 DEF Awaited, Modes4
<1>4. sm = "checkSerNum" => Held' /\ Lacks(Failed, mbox') /\ Serviced("SERNUM")'
  BY MainQueue DEF Awaited, Held, Serviced, Waiting, Up
<1>5. sm = "write_master_cycl" => Serviced("CYCL")'
  BY MainQueue DEF Awaited, Serviced, Waiting
<1>6. Lacks(Misnamed, mbox')
  BY MainQueue DEF Awaited
<1> QED BY <1>1, <1>3, <1>4, <1>5, <1>6 DEF Awaited

(* All of them. *)
LEMMA MainKeeps ==
  ASSUME MboxTyped, mbox # <<>>, NEW s \in Seq(PortJob), TakeAndPost(s), ReplyInv,
         UNCHANGED <<dl, linked, sm, svc>>, smAux'.retry = smAux.retry,
         NEW may, \A i \in DOMAIN s : Kind(s[i]) \in may, Lacks(Misnamed, s),
         may \cap (Upsets \cup {"ISDU_CNF", "COMREADY", "SMI_CFG", "SERNUM"}) = {},
         "SM_CFG" \in may => Kind(Head(mbox)) = "SMI_CFG",
         \/ Kind(Head(mbox)) \in RestJobs \cup {"COMREADY"}
         \/ may \cap RestJobs = {} /\ (dsState \in RestStates => dsState' \in RestStates),
         Kind(Head(mbox)) \in Asked => sm \notin CompatStates \cup {"waitonDLPreoperate", "waitonDLOperate"},
         ~(sm = "waitonDLPreoperate" /\ Kind(Head(mbox)) = "MODE_PREOPERATE"),
         ~(sm = "waitonDLOperate" /\ Kind(Head(mbox)) = "MODE_OPERATE"),
         Kind(Head(mbox)) = "SERNUM" => sm # "checkSerNum",
         Kind(Head(mbox)) = "CYCL" => sm # "write_master_cycl" \/ Among({"CYCL"}, s)
  PROVE  ReplyInv'
<1>1. \A K : K \cap may = {} => ~Among(K, s)
  BY DEF Among
<1>2. /\ ~Among(Upsets, s) /\ ~Among({"ISDU_CNF"}, s) /\ ~Among({"COMREADY"}, s) /\ ~Among({"SMI_CFG"}, s)
      /\ "SM_CFG" \notin may => ~Among({"SM_CFG"}, s)
      /\ may \cap RestJobs = {} => ~Among(RestJobs, s)
  BY <1>1
<1>3. Lacks(Failed, s)
  BY LacksOther
<1>4. SameCmd(dl', dl)
  BY DEF SameCmd
<1>5. Undisturbed'
  BY <1>2, MainUndisturbed DEF ReplyInv
<1>6. Replied'
  BY <1>2, MainReplied DEF ReplyInv
<1>7. CommandSound'
  BY <1>2, <1>4, MainCommand DEF ReplyInv
<1>8. Awaited'
  BY <1>2, <1>3, MainAwaited DEF ReplyInv
<1> QED BY <1>5, <1>6, <1>7, <1>8 DEF ReplyInv

-----------------------------------------------------------------------------
(* The CM. It hands a configuration on, or has the data storage or the SM  *)
(* go on when they have reported the device.                               *)
LEMMA CmMay ==
  ASSUME TypeInv, ReplyInv, mbox # <<>>, UNCHANGED <<dl, linked, sm, smAux, svc, dsState>>,
         NEW s \in Seq(PortJob), TakeAndPost(s), NEW may, \A i \in DOMAIN s : Kind(s[i]) \in may,
         Kind(Head(mbox)) \in {"SMI_CFG", "COMREADY", "FAULT", "OPERATE", "COMLOST", "DS_READY", "DS_FAULT"},
         \/ may = {}
         \/ may = {"DS_DELETE", "DS_INIT", "SM_CFG"} /\ Kind(Head(mbox)) = "SMI_CFG"
         \/ may \in {{"DS_STARTUP"}, {"SM_OPERATE"}} /\ Kind(Head(mbox)) \in {"COMREADY", "DS_READY"}
  PROVE  ReplyInv'
<1>1. MboxTyped /\ smAux'.retry = smAux.retry
  BY SmFacts
<1>2. Lacks(Misnamed, s)
  BY LacksOther
<1>3. may \cap (Upsets \cup {"ISDU_CNF", "COMREADY", "SMI_CFG", "SERNUM"}) = {}
  BY DEF Upsets
<1>4. \/ Kind(Head(mbox)) \in RestJobs \cup {"COMREADY"}
      \/ may \cap RestJobs = {} /\ dsState' = dsState
  BY DEF RestJobs
<1> QED BY <1>1, <1>2, <1>3, <1>4, MainKeeps DEF Asked

LEMMA CfgMay ==
  ASSUME TypeInv, NEW keep, CmCfgChange(keep)
  PROVE  \E s \in Seq(PortJob) : /\ TakeAndPost(s)
                                 /\ \A i \in DOMAIN s : Kind(s[i]) \in {"DS_DELETE", "DS_INIT", "SM_CFG"}
<1> DEFINE cfg == Head(mbox).cfg
           del == Signal("DS_DELETE")
           ini == CfgJob("DS_INIT", cfg)
           go  == CfgJob("SM_CFG", cfg)
           off == CfgJob("SM_CFG", NoCfg)
           no  == CfgJob("SM_CFG", [NoCfg EXCEPT !.mode = cmCfg.mode])
<1>1. MboxTyped /\ mbox # <<>>
  BY SmFacts DEF CmCfgChange, Take
<1>2. cfg \in Cfg /\ cmCfg \in Cfg
  BY <1>1, HeadFacts DEF TypeInv, CmTyped
<1>3. NoCfg \in Cfg /\ [NoCfg EXCEPT !.mode = cmCfg.mode] \in Cfg
  BY <1>2, WildFacts DEF Cfg
<1>4. /\ del \in PortJob /\ Kind(del) = "DS_DELETE" /\ ini \in PortJob /\ Kind(ini) = "DS_INIT"
      /\ go \in PortJob /\ Kind(go) = "SM_CFG" /\ off \in PortJob /\ Kind(off) = "SM_CFG"
      /\ no \in PortJob /\ Kind(no) = "SM_CFG"
  BY <1>2, <1>3, SignalJob, SignalKind, CfgIsJob, CfgKind DEF JobTypes
<1>5. \/ TakeAndPost(<<>> \o <<ini, go>>) \/ TakeAndPost(<<del>> \o <<ini, go>>)
      \/ TakeAndPost(<<del, ini, go>>) \/ TakeAndPost(<<off>>) \/ TakeAndPost(<<del, no>>)
  BY DEF CmCfgChange, StartPort, StartDiDo, Deactivate, RefuseCfg, CmEnter
<1> HIDE DEF del, ini, go, off, no
<1>61. /\ <<ini, go>> \in Seq(PortJob) /\ <<del>> \in Seq(PortJob) /\ <<del, ini, go>> \in Seq(PortJob)
       /\ <<off>> \in Seq(PortJob) /\ <<del, no>> \in Seq(PortJob)
  BY <1>4
<1>62. <<>> \o <<ini, go>> = <<ini, go>>
  BY <1>61
<1>7. PICK s \in {<<ini, go>>, <<del>> \o <<ini, go>>, <<del, ini, go>>, <<off>>, <<del, no>>} : TakeAndPost(s)
  BY <1>5, <1>62
<1>81. <<del>> \o <<ini, go>> \in Seq(PortJob)
  BY <1>61, Joined
<1>8. s \in Seq(PortJob)
  BY <1>61, <1>81
<1>9. ASSUME NEW i \in DOMAIN s PROVE Kind(s[i]) \in {"DS_DELETE", "DS_INIT", "SM_CFG"}
  <2>1. CASE s = <<del>> \o <<ini, go>>
    <3>1. CASE i <= 1
      <4>1. i \in DOMAIN <<del>> /\ s[i] = <<del>>[i]
        BY <1>61, <2>1, <3>1, Joined
      <4> QED BY <1>4, <4>1
    <3>2. CASE ~(i <= 1)
      <4>1. i - 1 \in DOMAIN <<ini, go>> /\ s[i] = <<ini, go>>[i - 1]
        BY <1>61, <2>1, <3>2, Joined
      <4> QED BY <1>4, <4>1
    <3> QED BY <3>1, <3>2
  <2> QED BY <1>4, <2>1
<1> QED BY <1>7, <1>8, <1>9

LEMMA CmReply ==
  ASSUME TypeInv, ReplyInv, CmStep PROVE ReplyInv'
<1> DEFINE id == smReal.id
           keep == mbox # <<>> /\ DS_Chk_Cfg(Head(mbox).cfg)
<1>1. CmJob(id, keep) /\ UNCHANGED <<dl, linked, sm, smAux, svc, dsState>>
  BY DEF CmStep, dsVars, smVars, dlVars
<1> HIDE DEF id, keep
<1>2. mbox # <<>>
  BY <1>1 DEF CmJob, CmCfgIgnored, CmCfgChange, CmComready, CmSmFault, CmOperate, CmComlost, CmDsReady,
              CmDsFault, Take
<1>3. Kind(Head(mbox)) = Head(mbox).type
      /\ Head(mbox).type \in {"SMI_CFG", "COMREADY", "FAULT", "OPERATE", "COMLOST", "DS_READY", "DS_FAULT"}
  BY <1>1, HeadKind DEF CmJob, CmCfgIgnored, CmCfgChange, CmComready, CmSmFault, CmOperate, CmComlost,
              CmDsReady, CmDsFault, Take, Plain, JobTypes
<1>4. ASSUME TakeAndPost(<<>>) PROVE ReplyInv'
  <2> DEFINE s == <<>>
  <2>1. s \in Seq(PortJob) /\ TakeAndPost(s) /\ DOMAIN s = {}
    BY <1>4, EmptyPost
  <2> HIDE DEF s
  <2>2. \A i \in DOMAIN s : Kind(s[i]) \in {}
    BY <2>1
  <2> QED BY <1>1, <1>2, <1>3, <2>1, <2>2, CmMay
<1>5. ASSUME NEW k \in {"DS_STARTUP", "SM_OPERATE"}, TakeAndPost(<<Signal(k)>>),
             Kind(Head(mbox)) \in {"COMREADY", "DS_READY"}
      PROVE  ReplyInv'
  <2> DEFINE x == Signal(k)
             s == <<x>>
  <2>1. x \in PortJob /\ Kind(x) = k
    BY SignalJob, SignalKind DEF JobTypes
  <2>2. TakeAndPost(s)
    BY <1>5
  <2> HIDE DEF x
  <2>3. s \in Seq(PortJob) /\ \A i \in DOMAIN s : Kind(s[i]) \in {k}
    BY <2>1
  <2> HIDE DEF s
  <2>4. {k} \in {{"DS_STARTUP"}, {"SM_OPERATE"}}
    OBVIOUS
  <2> QED BY <1>1, <1>2, <1>3, <1>5, <2>2, <2>3, <2>4, CmMay
<1>6. CASE CmCfgChange(keep)
  <2>1. PICK s \in Seq(PortJob) : /\ TakeAndPost(s)
                                  /\ \A i \in DOMAIN s : Kind(s[i]) \in {"DS_DELETE", "DS_INIT", "SM_CFG"}
    BY <1>6, CfgMay
  <2>2. Kind(Head(mbox)) = "SMI_CFG"
    BY <1>3, <1>6 DEF CmCfgChange, Take
  <2> QED BY <1>1, <1>2, <1>3, <2>1, <2>2, CmMay
<1>7. CASE CmComready(id)
  BY <1>3, <1>4, <1>5, <1>7 DEF CmComready, CmEnter, Take
<1>8. CASE CmDsReady
  BY <1>3, <1>4, <1>5, <1>8 DEF CmDsReady, CmEnter, Take
<1>9. CASE CmCfgIgnored \/ CmSmFault(id) \/ CmOperate(id) \/ CmComlost \/ CmDsFault(id)
  BY <1>4, <1>9 DEF CmCfgIgnored, CmSmFault, CmOperate, CmComlost, CmDsFault, CmEnter
<1> QED BY <1>1, <1>6, <1>7, <1>8, <1>9 DEF CmJob

-----------------------------------------------------------------------------
(* The DS. It works only when the device has been reported.                *)
LEMMA DsReply ==
  ASSUME TypeInv, ReplyInv, DsStep PROVE ReplyInv'
<1>1. MboxTyped /\ mbox # <<>>
  BY SmFacts DEF DsStep, DsJob, DsInitCb, DsDeleteCb, DsStartupCb, DsUploadCb, DsReadCnf, DsWriteCnf, Take
<1>2. UNCHANGED <<dl, linked, sm, svc>> /\ smAux'.retry = smAux.retry
  BY DEF DsStep, smVars, dlVars
<1>3. CASE DsInitCb \/ DsDeleteCb
  <2> DEFINE s == <<>>
  <2>1. TakeAndPost(s)
    BY <1>3 DEF DsInitCb, DsDeleteCb, Enter
  <2>2. s \in Seq(PortJob) /\ DOMAIN s = {}
    BY EmptyPost
  <2> HIDE DEF s
  <2>3. (\A i \in DOMAIN s : Kind(s[i]) \in {}) /\ Lacks(Misnamed, s)
    BY <2>2 DEF Lacks
  <2>4. Kind(Head(mbox)) \in {"DS_INIT", "DS_DELETE"}
    BY <1>3, HeadKind DEF DsInitCb, DsDeleteCb, Take, Plain, JobTypes
  <2>5. dsState \in RestStates => dsState' \in RestStates
    BY <1>3 DEF DsInitCb, DsDeleteCb, Enter, RestStates
  <2> QED BY <1>1, <1>2, <2>1, <2>2, <2>3, <2>4, <2>5, MainKeeps DEF Asked
<1>4. CASE DsStartupCb \/ DsUploadCb \/ DsReadCnf \/ DsWriteCnf
  <2>1. PICK s \in DsPosts : TakeAndPost(s)
    BY <1>4, DsPosted DEF DsTook
  <2>2. s \in Seq(PortJob) /\ \A i \in DOMAIN s : Kind(s[i]) \in DsKinds
    BY DEF DsPosts
  <2>20. "SERNUM" \notin DsKinds /\ "CYCL" \notin DsKinds
    BY DEF DsKinds
  <2>3. Lacks(Misnamed, s)
    BY <2>2, <2>20, LacksOther
  <2>4. Kind(Head(mbox)) \in {"DS_STARTUP", "DS_UPLOAD", "AL_READ_CNF", "AL_WRITE_CNF"}
    BY <1>4, HeadKind DEF DsStartupCb, DsUploadCb, DsReadCnf, DsWriteCnf, Take, Plain, JobTypes
  <2>5. DsKinds \cap (Upsets \cup {"ISDU_CNF", "COMREADY", "SMI_CFG", "SERNUM"}) = {} /\ "SM_CFG" \notin DsKinds
    BY DEF DsKinds, Upsets
  <2> QED BY <1>1, <1>2, <2>1, <2>2, <2>3, <2>4, <2>5, MainKeeps DEF Asked, RestJobs
<1> QED BY <1>3, <1>4 DEF DsStep, DsJob

-----------------------------------------------------------------------------
(* The AL. *)
LEMMA AlCnfFields ==
  ASSUME NEW dir, NEW index, NEW res, NEW snap
  PROVE  AlCnf(dir, index, res, snap).index = index /\ AlCnf(dir, index, res, snap).res = res
  BY DEF AlCnf, Cnf, Signal

LEMMA AlBusyReply ==
  ASSUME TypeInv, PortInv, ReplyInv, AlBusy PROVE ReplyInv'
<1> DEFINE index == Head(mbox).index
           cnf   == AlCnf(ReqDir, index, "BUSY", NoSnap)
           s     == <<cnf>>
<1>1. /\ MboxTyped /\ mbox # <<>> /\ index \in Indexes \cup {"CMD"}
      /\ Kind(Head(mbox)) = IF index \in {"SERNUM", "CYCL"} THEN index ELSE Head(mbox).type
      /\ Head(mbox).type \in {"AL_READ_REQ", "AL_WRITE_REQ"}
  BY AlHead, SmFacts DEF AlBusy
<1>21. cnf.index = index
  BY AlCnfFields
<1>22. /\ cnf \in PortJob
       /\ Kind(cnf) \in IF index \in {"SERNUM", "CYCL"} THEN {index} ELSE {"AL_READ_CNF", "AL_WRITE_CNF"}
  BY <1>1, AlCnfKind, ResultNames, WildFacts DEF ReqDir
<1>2. /\ cnf \in PortJob /\ cnf.index = index
      /\ Kind(cnf) \in IF index \in {"SERNUM", "CYCL"} THEN {index} ELSE {"AL_READ_CNF", "AL_WRITE_CNF"}
  BY <1>21, <1>22
<1>3. TakeAndPost(s) /\ UNCHANGED <<dl, linked, sm, smAux, svc, dsState>>
  BY DEF AlBusy, cmVars, dsVars, smVars, dlVars
<1>4. svc # NoSvc \/ sm = "SMOperate"
  BY DEF AlBusy
<1> HIDE DEF cnf, index
<1>50. Lacks(Misnamed, s) <=> cnf \notin Misnamed
  BY LacksFew
<1>5. s \in Seq(PortJob) /\ (Lacks(Misnamed, s) <=> cnf \notin Misnamed)
  BY <1>2, <1>50
<1>51. Among({"CYCL"}, s) <=> Kind(cnf) \in {"CYCL"}
  BY AmongFew
<1>52. \A i \in DOMAIN s : s[i] = cnf
  OBVIOUS
<1> HIDE DEF s
<1>6. index # "SERNUM"
  <2> SUFFICES ASSUME index = "SERNUM" PROVE FALSE
    OBVIOUS
  <2>1. Waiting("SERNUM")
    BY <1>1, AmongTail DEF Waiting, MboxTyped
  <2>2. sm = "checkSerNum" /\ (svc # NoSvc => svc.index # "SERNUM")
    BY <2>1 DEF PortInv, Serving
  <2> QED BY <1>4, <2>2 DEF ReplyInv, Undisturbed
<1>7. CASE index = "CYCL"
  <2>1. Kind(cnf) = "CYCL" /\ Kind(Head(mbox)) = "CYCL"
    BY <1>1, <1>2, <1>7
  <2>2. cnf \notin Misnamed
    BY <1>2, <1>7, <2>1 DEF Misnamed
  <2>3. \A i \in DOMAIN s : Kind(s[i]) \in {"CYCL"}
    BY <1>52, <2>1
  <2>4. {"CYCL"} \cap (Upsets \cup {"ISDU_CNF", "COMREADY", "SMI_CFG", "SERNUM"}) = {}
        /\ {"CYCL"} \cap RestJobs = {} /\ "SM_CFG" \notin {"CYCL"}
    BY DEF Upsets, RestJobs
  <2> QED BY <1>1, <1>3, <1>5, <1>51, <2>1, <2>2, <2>3, <2>4, MainKeeps DEF Asked
<1>8. CASE index \notin {"SERNUM", "CYCL"}
  <2> DEFINE may == {"AL_READ_CNF", "AL_WRITE_CNF"}
  <2>1. Kind(cnf) \in may /\ Kind(Head(mbox)) \in {"AL_READ_REQ", "AL_WRITE_REQ"}
    BY <1>1, <1>2, <1>8
  <2>2. cnf \notin Misnamed
    BY <2>1 DEF Misnamed
  <2>3. \A i \in DOMAIN s : Kind(s[i]) \in may
    BY <1>52, <2>1
  <2>4. may \cap (Upsets \cup {"ISDU_CNF", "COMREADY", "SMI_CFG", "SERNUM"}) = {} /\ "SM_CFG" \notin may
    BY DEF Upsets
  <2>5. Kind(Head(mbox)) \in RestJobs \cup {"COMREADY"}
    BY <2>1 DEF RestJobs
  <2> HIDE DEF may
  <2> QED BY <1>1, <1>3, <1>5, <2>1, <2>2, <2>3, <2>4, <2>5, MainKeeps DEF Asked
<1> QED BY <1>6, <1>7, <1>8

LEMMA AlConfirmReply ==
  ASSUME TypeInv, PortInv, ReplyInv, AlConfirm PROVE ReplyInv'
<1>1. MboxTyped /\ mbox # <<>> /\ Kind(Head(mbox)) = Head(mbox).type
      /\ Head(mbox).type \in {"ISDU_CNF", "PARAM_CNF"}
  BY SmFacts, HeadKind DEF AlConfirm, Take, Plain, JobTypes
<1>2. UNCHANGED <<dl, linked, sm, smAux, dsState>>
  BY DEF AlConfirm, cmVars, smVars, dsVars, dlVars
<1>3. CASE TakeAndPost(<<>>) /\ UNCHANGED svc
  <2> DEFINE s == <<>>
  <2>1. TakeAndPost(s) /\ s \in Seq(PortJob) /\ DOMAIN s = {}
    BY <1>3, EmptyPost
  <2> HIDE DEF s
  <2>3. (\A i \in DOMAIN s : Kind(s[i]) \in {}) /\ Lacks(Misnamed, s)
    BY <2>1 DEF Lacks
  <2> QED BY <1>1, <1>2, <1>3, <2>1, <2>3, MainKeeps DEF Asked
<1>4. CASE /\ svc # NoSvc /\ svc' = NoSvc /\ (svc.index = "CYCL") = (Head(mbox).type = "PARAM_CNF")
           /\ TakeAndPost(<<AlCnf(svc.dir, svc.index, Head(mbox).res, Head(mbox).snap)>>)
  <2> DEFINE cnf == AlCnf(svc.dir, svc.index, Head(mbox).res, Head(mbox).snap)
             s   == <<cnf>>
  <2>101. cnf.index = svc.index /\ cnf.res = Head(mbox).res
    BY AlCnfFields
  <2>102. /\ cnf \in PortJob
          /\ Kind(cnf) \in IF svc.index \in {"SERNUM", "CYCL"} THEN {svc.index}
                           ELSE {"AL_READ_CNF", "AL_WRITE_CNF"}
    BY <1>1, HeadFacts, SvcFacts, AlCnfKind
  <2>1. /\ cnf \in PortJob /\ cnf.index = svc.index /\ cnf.res = Head(mbox).res
        /\ Kind(cnf) \in IF svc.index \in {"SERNUM", "CYCL"} THEN {svc.index}
                         ELSE {"AL_READ_CNF", "AL_WRITE_CNF"}
    BY <2>101, <2>102
  <2>2. TakeAndPost(s)
    BY <1>4
  <2> HIDE DEF cnf
  <2>31. \A X : Lacks(X, s) <=> cnf \notin X
    BY LacksFew
  <2>3. s \in Seq(PortJob) /\ \A X : Lacks(X, s) <=> cnf \notin X
    BY <2>1, <2>31
  <2>4. \A K : Among(K, s) <=> Kind(cnf) \in K
    BY AmongFew
  <2> HIDE DEF s
  <2>5. ~Early /\ ~Waiting("COMREADY")
    BY <1>4 DEF ReplyInv, Undisturbed
  <2>6. sm = "checkSerNum" => svc.index = "SERNUM" /\ Kind(cnf) = "SERNUM" /\ Resting
    BY <1>4, <2>1 DEF ReplyInv, Undisturbed
  <2>7. Kind(cnf) \notin Upsets \cup {"SMI_CFG", "SM_CFG", "COMREADY", "ISDU_CNF"}
    BY <2>1 DEF Upsets
  <2>71. /\ ~Among(Upsets, s) /\ ~Among({"SMI_CFG"}, s) /\ ~Among({"SM_CFG"}, s)
         /\ ~Among({"COMREADY"}, s) /\ ~Among({"ISDU_CNF"}, s)
         /\ sm = "checkSerNum" => ~Among(RestJobs, s)
    BY <2>4, <2>6, <2>7 DEF RestJobs
  <2>8. Undisturbed'
    <3>1. ~Early' /\ ~Waiting("COMREADY")'
      <4>1. ~Early'
        BY <1>2, <2>5 DEF Early, Starting
      <4>2. ~Among({"COMREADY"}, mbox')
        BY <1>1, <2>2, <2>3, <2>5, <2>71, MainQueue DEF Waiting
      <4> QED BY <4>1, <4>2 DEF Waiting
    <3>2. sm = "checkSerNum" => Resting'
      <4>1. sm = "checkSerNum" => ~Among(RestJobs, mbox')
        BY <1>1, <2>2, <2>3, <2>6, <2>71, MainQueue DEF Resting
      <4> QED BY <1>2, <2>6, <4>1 DEF Resting
    <3> QED BY <1>2, <1>4, <3>1, <3>2 DEF Undisturbed
  <2>9. Replied'
    <3>1. ~dl.isdu
      <4>1. Head(mbox).type = "ISDU_CNF" => Waiting("ISDU_CNF")
        BY <1>1, <2>2, <2>3, MainQueue DEF Waiting
      <4> QED BY <1>1, <1>4, <4>1 DEF ReplyInv, Replied
    <3>2. ~Among({"ISDU_CNF"}, mbox')
      <4>1. ~Among({"ISDU_CNF"}, Tail(mbox))
        <5>1. CASE Kind(Head(mbox)) = "ISDU_CNF"
          BY <1>1, <2>2, <2>3, <5>1, MainQueue DEF ReplyInv, Replied
        <5>2. CASE Kind(Head(mbox)) # "ISDU_CNF"
          <6>1. ~Waiting("ISDU_CNF")
            BY <1>1, <1>4, <5>2 DEF ReplyInv, Replied
          <6> QED BY <1>1, <2>2, <2>3, <6>1, MainQueue DEF Waiting
        <5> QED BY <5>1, <5>2
      <4> QED BY <1>1, <2>2, <2>3, <2>71, <4>1, MainQueue
    <3>3. Single({"ISDU_CNF"}, mbox')
      BY <1>1, <2>2, <2>3, <2>71, MainQueue DEF ReplyInv, Replied
    <3> QED BY <1>2, <3>1, <3>2, <3>3 DEF Replied, Waiting
  <2>10. CommandSound'
    <3>1. SameCmd(dl', dl)
      BY <1>2 DEF SameCmd
    <3> QED BY <1>1, <1>2, <2>2, <2>3, <2>71, <3>1, MainCommand DEF ReplyInv
  <2>11. Awaited'
    <3>1. sm \notin CompatStates \cup {"waitonDLPreoperate", "waitonDLOperate"}
      BY <2>5 DEF Early, Starting, CompatStates, Reading
    <3>2. sm = "checkSerNum" => Held' /\ Lacks(Failed, mbox') /\ Serviced("SERNUM")'
      <4> SUFFICES ASSUME sm = "checkSerNum" PROVE Held' /\ Lacks(Failed, mbox') /\ Serviced("SERNUM")'
        OBVIOUS
      <4>1. Kind(Head(mbox)) = "ISDU_CNF" /\ Kind(cnf) = "SERNUM" /\ Held /\ Lacks(Failed, mbox)
        BY <1>1, <1>4, <2>6 DEF ReplyInv, Awaited
      <4>2. Head(mbox) \in PortJob /\ Head(mbox) \notin Failed
        BY <1>1, <2>2, <2>3, <4>1, MainQueue, HeadFacts
      <4>3. cnf.res = "OK"
        BY <2>1, <4>1, <4>2 DEF Failed
      <4>4. Lacks(Failed, mbox')
        <5>1. Lacks(Failed, s)
          BY <2>3, <4>3 DEF Failed
        <5> QED BY <1>1, <2>2, <2>3, <4>1, <5>1, MainQueue
      <4>5. Among({"SERNUM"}, mbox')
        BY <1>1, <2>2, <2>3, <2>4, <4>1, MainQueue
      <4>6. ~Among(Upsets, mbox')
        BY <1>1, <2>2, <2>3, <2>71, <4>1, MainQueue DEF Held
      <4> QED BY <1>2, <4>1, <4>4, <4>5, <4>6 DEF Held, Serviced, Waiting, Up
    <3>3. sm = "write_master_cycl" => Among({"CYCL"}, mbox')
      <4>1. svc.index = "CYCL" => Among({"CYCL"}, s)
        BY <2>1, <2>4
      <4> QED BY <1>1, <2>2, <2>3, <4>1, MainQueue DEF ReplyInv, Awaited, Serviced, Waiting
    <3>4. Lacks(Misnamed, mbox')
      <4>1. Lacks(Misnamed, s)
        BY <2>1, <2>3 DEF Misnamed
      <4> QED BY <1>1, <2>2, <2>3, <4>1, MainQueue DEF ReplyInv, Awaited
    <3> QED BY <1>2, <3>1, <3>2, <3>3, <3>4 DEF ReplyInv, Awaited, Reaching, Serviced, Waiting
  <2> QED BY <2>8, <2>9, <2>10, <2>11 DEF ReplyInv
<1> QED BY <1>3, <1>4 DEF AlConfirm, Take

(* The services: the cycle time, the serial number, and those of the DS.   *)
LEMMA AlServiceReply ==
  ASSUME ~Parallel, TypeInv, PortInv, ReplyInv, AlService PROVE ReplyInv'
<1> DEFINE index == Head(mbox).index
<1>1. /\ MboxTyped /\ mbox # <<>> /\ index \in Indexes \cup {"CMD"} /\ dl \in DlRecord
      /\ Kind(Head(mbox)) = IF index \in {"SERNUM", "CYCL"} THEN index ELSE Head(mbox).type
      /\ Head(mbox).type \in {"AL_READ_REQ", "AL_WRITE_REQ"}
  BY AlHead, SmFacts DEF AlService
<1>2. UNCHANGED <<linked, sm, smAux, dsState>> /\ svc = NoSvc /\ svc'.index = index
  BY DEF AlService, dsVars, smVars
<1>3. /\ index = "CYCL" => dl' = DL_WriteParam_req(dl) /\ (TakeAndPost(<<>>) \/ TakeAndPost(<<ParamCnf("ERR")>>))
      /\ index # "CYCL" => IF IsduAccepted(dl)
                           THEN dl' = DL_ISDUTransport_req(dl) /\ TakeAndPost(<<>>)
                           ELSE dl' = dl /\ TakeAndPost(<<IsduCnf("ERR", NoSnap)>>)
  <2>1. IsduAnswers(dl) = {IsduAccepted(dl)}
    <3>1. dl.left = "none"
      BY <1>1, DlFacts
    <3> QED BY <3>1 DEF IsduAnswers, Leaves
  <2>2. IsduAccepted(dl) \in BOOLEAN
    BY DEF IsduAccepted
  <2> QED BY <2>1, <2>2 DEF AlService
<1>4. svc' # NoSvc
  <2>1. svc'.dir \in {"read", "write"}
    BY DEF AlService, ReqDir
  <2> QED BY <2>1 DEF NoSvc
<1> HIDE DEF index
<1>5. ~dl.isdu /\ ~Among({"ISDU_CNF"}, mbox)
  BY <1>2 DEF ReplyInv, Replied, Waiting
<1>6. /\ SameCmd(dl', dl) /\ dl'.mdh = dl.mdh /\ dl'.mode = dl.mode /\ dl'.lost = dl.lost /\ dl'.event = dl.event
      /\ dl'.isdu = (index # "CYCL" /\ IsduAccepted(dl))
  <2>1. CASE index = "CYCL"
    BY <1>1, <1>3, <1>5, <2>1, DlShape DEF DL_WriteParam_req, SameCmd
  <2>2. CASE index # "CYCL"
    BY <1>1, <1>3, <1>5, <2>2, DlShape DEF DL_ISDUTransport_req, SameCmd
  <2> QED BY <2>1, <2>2
<1>7. /\ IsduCnf("ERR", NoSnap) \in PortJob /\ Kind(IsduCnf("ERR", NoSnap)) = "ISDU_CNF"
      /\ ParamCnf("ERR") \in PortJob /\ Kind(ParamCnf("ERR")) = "PARAM_CNF"
  BY ModeKinds, WildFacts, ResultNames
<1>8. PICK s \in Seq(PortJob) : /\ TakeAndPost(s) /\ Single({"ISDU_CNF"}, s)
                                /\ \A i \in DOMAIN s : Kind(s[i]) \in {"ISDU_CNF", "PARAM_CNF"}
                                /\ Among({"ISDU_CNF"}, s) => index # "CYCL" /\ ~IsduAccepted(dl)
  <2>1. CASE TakeAndPost(<<>>)
    <3> DEFINE s == <<>>
    <3>1. TakeAndPost(s) /\ s \in Seq(PortJob) /\ DOMAIN s = {}
      BY <2>1, EmptyPost
    <3> HIDE DEF s
    <3> QED BY <3>1 DEF Single, Among
  <2>2. CASE index = "CYCL" /\ TakeAndPost(<<ParamCnf("ERR")>>)
    <3> DEFINE x == ParamCnf("ERR")
               s == <<x>>
    <3>1. TakeAndPost(s)
      BY <2>2
    <3>2. x \in PortJob /\ Kind(x) = "PARAM_CNF"
      BY <1>7
    <3> HIDE DEF x
    <3>3. s \in Seq(PortJob) /\ \A i \in DOMAIN s : s[i] = x
      BY <3>2
    <3> HIDE DEF s
    <3> QED BY <3>1, <3>2, <3>3 DEF Single, Among
  <2>3. CASE index # "CYCL" /\ ~IsduAccepted(dl) /\ TakeAndPost(<<IsduCnf("ERR", NoSnap)>>)
    <3> DEFINE x == IsduCnf("ERR", NoSnap)
               s == <<x>>
    <3>1. TakeAndPost(s) /\ Single({"ISDU_CNF"}, s)
      BY <2>3, SingleFew
    <3>2. x \in PortJob /\ Kind(x) = "ISDU_CNF"
      BY <1>7
    <3> HIDE DEF x
    <3>3. s \in Seq(PortJob) /\ \A i \in DOMAIN s : s[i] = x
      BY <3>2
    <3> HIDE DEF s
    <3> QED BY <2>3, <3>1, <3>2, <3>3
  <2> QED BY <1>3, <2>1, <2>2, <2>3
<1>9. \A K : K \cap {"ISDU_CNF", "PARAM_CNF"} = {} => ~Among(K, s)
  BY <1>8 DEF Among
<1>10. /\ ~Among(Upsets, s) /\ ~Among({"SMI_CFG"}, s) /\ ~Among({"SM_CFG"}, s) /\ ~Among(RestJobs, s)
       /\ ~Among({"COMREADY"}, s)
  BY <1>9 DEF Upsets, RestJobs
<1>11. Lacks(Misnamed, s)
  BY <1>8 DEF Lacks, Misnamed
<1>12. /\ index = "SERNUM" => sm = "checkSerNum" /\ Kind(Head(mbox)) = "SERNUM"
       /\ index = "CYCL" => sm = "write_master_cycl" /\ Kind(Head(mbox)) = "CYCL"
       /\ index \notin {"SERNUM", "CYCL"} => Kind(Head(mbox)) \in {"AL_READ_REQ", "AL_WRITE_REQ"}
  <2>1. Kind(Head(mbox)) \in {"SERNUM", "CYCL"} => Waiting(Kind(Head(mbox)))
    BY <1>1, AmongTail DEF Waiting, MboxTyped
  <2> QED BY <1>1, <2>1 DEF PortInv, Serving
<1>13. CommandSound'
  BY <1>1, <1>2, <1>6, <1>8, <1>10, MainCommand DEF ReplyInv
<1>14. Replied'
  <2>1. Single({"ISDU_CNF"}, mbox') /\ (Among({"ISDU_CNF"}, mbox') => Among({"ISDU_CNF"}, s))
    BY <1>1, <1>5, <1>8, MainQueue
  <2> QED BY <1>2, <1>4, <1>6, <1>8, <2>1 DEF Replied, Waiting
<1>15. ~Early /\ ~Waiting("COMREADY") /\ (sm = "checkSerNum" => index = "SERNUM")
  <2>1. CASE index \notin {"SERNUM", "CYCL"}
    <3>1. Among(RestJobs, mbox)
      BY <1>1, <1>8, <1>12, <2>1, MainQueue DEF RestJobs
    <3> QED BY <3>1 DEF ReplyInv, Undisturbed, Resting
  <2>2. CASE index \in {"SERNUM", "CYCL"}
    <3>1. dl.mode # "STARTUP" /\ sm \in {"checkSerNum", "write_master_cycl"}
      BY <1>12, <2>2 DEF PortInv, Moded
    <3> QED BY <1>12, <2>2, <3>1 DEF Early, Starting, Reading, ReplyInv, Undisturbed
  <2> QED BY <2>1, <2>2
<1>16. Undisturbed'
  <2>1. ~Early' /\ ~Among({"COMREADY"}, mbox')
    <3>1. ~Early'
      BY <1>2, <1>6, <1>15 DEF Early, Starting
    <3>2. ~Among({"COMREADY"}, mbox')
      BY <1>1, <1>8, <1>10, <1>15, MainQueue DEF Waiting
    <3> QED BY <3>1, <3>2
  <2>2. sm = "checkSerNum" => ~Among(RestJobs, mbox') /\ dsState \in RestStates
    BY <1>1, <1>8, <1>10, MainQueue DEF ReplyInv, Undisturbed, Resting
  <2> QED BY <1>2, <1>15, <2>1, <2>2 DEF Undisturbed, Waiting, Resting
<1>17. Awaited'
  <2>1. sm \notin CompatStates \cup {"waitonDLPreoperate", "waitonDLOperate"}
    BY <1>15 DEF Early, Starting, CompatStates, Reading
  <2>2. sm = "checkSerNum" => Held' /\ Lacks(Failed, mbox') /\ Serviced("SERNUM")'
    <3> SUFFICES ASSUME sm = "checkSerNum" PROVE Held' /\ Lacks(Failed, mbox') /\ Serviced("SERNUM")'
      OBVIOUS
    <3>1. Held /\ Lacks(Failed, mbox) /\ index = "SERNUM"
      BY <1>15 DEF ReplyInv, Awaited
    <3>2. IsduAccepted(dl)
      <4>1. dl.left = "none"
        BY <1>1, DlFacts
      <4> QED BY <1>5, <3>1, <4>1 DEF Held, Up, IsduAccepted
    <3>3. Lacks(Failed, s)
      BY <1>8, <3>2, HeadKind DEF Lacks, Failed, Among
    <3>4. Lacks(Failed, mbox') /\ ~Among(Upsets, mbox')
      BY <1>1, <1>8, <1>10, <3>1, <3>3, MainQueue DEF Held
    <3> QED BY <1>2, <1>4, <1>6, <3>1, <3>4 DEF Held, Up, Serviced
  <2>3. sm = "write_master_cycl" => Serviced("CYCL")'
    <3> SUFFICES ASSUME sm = "write_master_cycl", index # "CYCL" PROVE Serviced("CYCL")'
      BY <1>2, <1>4 DEF Serviced
    <3>1. Waiting("CYCL") /\ Kind(Head(mbox)) # "CYCL"
      BY <1>2, <1>12 DEF ReplyInv, Awaited, Serviced
    <3>2. Among({"CYCL"}, mbox')
      BY <1>1, <1>8, <3>1, MainQueue DEF Waiting
    <3> QED BY <3>2 DEF Serviced, Waiting
  <2>4. Lacks(Misnamed, mbox')
    BY <1>1, <1>8, <1>11, MainQueue DEF ReplyInv, Awaited
  <2> QED BY <1>2, <2>1, <2>2, <2>3, <2>4 DEF ReplyInv, Awaited, Reaching
<1> QED BY <1>13, <1>14, <1>16, <1>17 DEF ReplyInv

-----------------------------------------------------------------------------
(* The device changes, the plug and the application. *)

(* What ReplyInv speaks of. *)
ReplyVars == <<mbox, sm, smAux, dsState, svc, dl, linked>>

LEMMA ReplyUnchanged ==
  ASSUME ReplyInv, UNCHANGED ReplyVars PROVE ReplyInv'
<1>1. /\ mbox' = mbox /\ sm' = sm /\ smAux' = smAux /\ dsState' = dsState /\ svc' = svc /\ dl' = dl
      /\ linked' = linked
  BY DEF ReplyVars
<1>2. /\ Early' = Early /\ Resting' = Resting /\ Token' = Token /\ Held' = Held
      /\ \A k : Waiting(k)' = Waiting(k)
  BY <1>1 DEF Early, Starting, Resting, Among, Token, BlockOut, Held, Up, Waiting
<1>3. Undisturbed'
  BY <1>1, <1>2 DEF ReplyInv, Undisturbed, Single
<1>4. Replied'
  BY <1>1, <1>2 DEF ReplyInv, Replied, Single
<1>5. CommandSound'
  BY <1>1, <1>2 DEF ReplyInv, CommandSound, Fresh, Unsent, Dormant, Lacks, Up, Among
<1>6. Awaited'
  BY <1>1, <1>2 DEF ReplyInv, Awaited, Reaching, Serviced, Lacks, Among, NoneAfter
<1> QED BY <1>3, <1>4, <1>5, <1>6 DEF ReplyInv

(* An upload is asked for in OPERATE, when the device has been reported.   *)
LEMMA LocalChangeReply ==
  ASSUME Orderly, TypeInv, PortInv, StoreInv, ReplyInv, LocalChange PROVE ReplyInv'
<1>1. UNCHANGED <<sm, smAux, dsState, svc, dl, linked>> /\ ~Reconfiguring
  BY DEF LocalChange, cmVars, dsVars, smVars, dlVars
<1>2. CASE UNCHANGED mbox
  BY <1>1, <1>2, ReplyUnchanged DEF ReplyVars
<1>3. CASE ~UNCHANGED mbox
  <2> DEFINE x == Signal("DS_UPLOAD")
  <2>1. linked /\ dl.mdh = "OPERATE" /\ dl.mh = "OPERATE" /\ dev.rev = "V11" /\ Post(x)
    BY <1>3 DEF LocalChange
  <2>2. x \in PortJob /\ Kind(x) = "DS_UPLOAD"
    BY SignalJob, SignalKind DEF JobTypes
  <2> HIDE DEF x
  <2>3. mbox \in Seq(PortJob) /\ <<x>> \in Seq(PortJob) /\ mbox' = mbox \o <<x>>
    <3>1. mbox \in Seq(PortJob)
      BY SmFacts DEF MboxTyped
    <3> QED BY <2>1, <2>2, <3>1, Appended DEF Post
  <2>4. ~Starting
    BY <1>1, <2>1, OperatingVetted
  <2>5. sm \notin {"waitonDLPreoperate", "waitonDLOperate", "checkSerNum", "wait", "PortInactive"}
    <3>1. dl.mode # "STARTUP"
      BY <2>4 DEF Starting
    <3>2. dl.mode = "INACTIVE" => dl.event
      BY <2>1 DEF PortInv, DlSound
    <3>3. dl.mode \in DlCmds
      BY SmFacts, DlShape
    <3> QED BY <1>1, <2>1, <3>1, <3>2, <3>3 DEF StoreInv, ModeSound, RevSound, Legacy, Reconfiguring, DlCmds
  <2>6. ~Early /\ sm \notin CompatStates \cup {"RestartDevice"}
    BY <2>4, <2>5 DEF Early, Starting, Reading, CompatStates
  <2>7. \A K : Among(K, mbox') <=> Among(K, mbox) \/ Among(K, <<x>>)
    BY <2>3, AmongJoined
  <2>8. /\ Among({"ISDU_CNF"}, <<x>>) <=> Kind(x) \in {"ISDU_CNF"}
        /\ Among({"COMREADY"}, <<x>>) <=> Kind(x) \in {"COMREADY"}
        /\ Among({"SMI_CFG"}, <<x>>) <=> Kind(x) \in {"SMI_CFG"}
        /\ Among({"SM_CFG"}, <<x>>) <=> Kind(x) \in {"SM_CFG"}
        /\ Among(Upsets, <<x>>) <=> Kind(x) \in Upsets
    BY AmongFew
  <2>9. /\ ~Among({"ISDU_CNF"}, <<x>>)
        /\ Among({"ISDU_CNF"}, mbox') <=> Among({"ISDU_CNF"}, mbox)
        /\ Among({"COMREADY"}, mbox') <=> Among({"COMREADY"}, mbox)
        /\ Among({"SMI_CFG"}, mbox') <=> Among({"SMI_CFG"}, mbox)
        /\ Among({"SM_CFG"}, mbox') <=> Among({"SM_CFG"}, mbox)
        /\ Among(Upsets, mbox') <=> Among(Upsets, mbox)
        /\ Among({"CYCL"}, mbox) => Among({"CYCL"}, mbox')
    BY <2>2, <2>7, <2>8 DEF Upsets
  <2>10. ~Waiting("COMREADY")
    BY <2>5 DEF ReplyInv, Undisturbed
  <2>11. x \notin CmdOk /\ x \notin Misnamed
    BY <2>2 DEF CmdOk, Misnamed
  <2>12. (Lacks(CmdOk, <<x>>) <=> x \notin CmdOk) /\ (Lacks(Misnamed, <<x>>) <=> x \notin Misnamed)
    BY LacksFew
  <2>13. (Lacks(CmdOk, mbox') <=> Lacks(CmdOk, mbox)) /\ (Lacks(Misnamed, mbox') <=> Lacks(Misnamed, mbox))
    BY <2>3, <2>11, <2>12, LacksJoined
  <2>14. Undisturbed'
    BY <1>1, <2>5, <2>6, <2>9, <2>10 DEF Undisturbed, Early, Starting, Waiting
  <2>15. Replied'
    <3>1. Single({"ISDU_CNF"}, mbox')
      BY <2>3, <2>9, SingleJoined DEF ReplyInv, Replied
    <3> QED BY <1>1, <2>9, <3>1 DEF ReplyInv, Replied, Waiting
  <2>16. CommandSound'
    <3>1. /\ Fresh(dl') = Fresh(dl) /\ Unsent(dl') = Unsent(dl) /\ Dormant(dl') = Dormant(dl) /\ Up(dl') = Up(dl)
      BY <1>1
    <3> QED BY <1>1, <2>9, <2>13, <3>1 DEF ReplyInv, CommandSound, Waiting
  <2>17. Awaited'
    BY <1>1, <2>5, <2>6, <2>9, <2>13 DEF ReplyInv, Awaited, Reaching, Serviced, Waiting
  <2> QED BY <2>14, <2>15, <2>16, <2>17 DEF ReplyInv
<1> QED BY <1>2, <1>3

(* The port at rest waits for nothing. *)
LEMMA RestReplyKeeps ==
  ASSUME TypeInv, PortInv, StoreInv, ReplyInv, AtRest,
         UNCHANGED <<sm, smAux, dsState, svc, dl>>,
         mbox' = <<>> \/ \E cfg \in Cfgs : mbox' = <<CfgJob("SMI_CFG", cfg)>>
  PROVE  ReplyInv'
<1>1. svc = NoSvc /\ dsState \in RestStates /\ sm \in SmRest /\ ~dl.event /\ ~dl.isdu
  BY DEF AtRest
<1>2. \A i \in DOMAIN mbox' : Kind(mbox'[i]) = "SMI_CFG"
  <2>1. CASE mbox' = <<>>
    BY <2>1
  <2>2. CASE \E cfg \in Cfgs : mbox' = <<CfgJob("SMI_CFG", cfg)>>
    <3>1. PICK cfg \in Cfgs : mbox' = <<CfgJob("SMI_CFG", cfg)>>
      BY <2>2
    <3> DEFINE x == CfgJob("SMI_CFG", cfg)
    <3>2. Kind(x) = "SMI_CFG" /\ mbox' = <<x>>
      BY <3>1, CfgKind
    <3> HIDE DEF x
    <3> QED BY <3>2
  <2> QED BY <2>1, <2>2
<1>3. /\ ~Among(RestJobs, mbox') /\ ~Among({"COMREADY"}, mbox') /\ ~Among({"ISDU_CNF"}, mbox')
      /\ ~Among(Upsets, mbox')
  BY <1>2 DEF Among, RestJobs, Upsets
<1>4. Lacks(CmdOk, mbox') /\ Lacks(Misnamed, mbox')
  BY <1>2 DEF Lacks, CmdOk, Misnamed
<1>5. Undisturbed'
  BY <1>1, <1>3 DEF Undisturbed, Early, Starting, Resting, Waiting, SmRest
<1>6. Replied'
  <2>1. Single({"ISDU_CNF"}, mbox')
    BY <1>2 DEF Single
  <2> QED BY <1>1, <1>3, <2>1 DEF Replied, Waiting
<1>7. CommandSound'
  <2>1. /\ Fresh(dl') = Fresh(dl) /\ Unsent(dl') = Unsent(dl) /\ Dormant(dl') = Dormant(dl) /\ Up(dl') = Up(dl)
    OBVIOUS
  <2>2. dl.mdh = "OPERATE" => sm \notin {"PortInactive", "DIDO"}
    BY <1>1 DEF StoreInv, ModeSound, PortInv, DlSound
  <2> QED BY <1>1, <1>3, <1>4, <2>1, <2>2 DEF ReplyInv, CommandSound, SmRest
<1>8. Awaited'
  BY <1>1, <1>4 DEF Awaited, Reaching, SmRest, CompatStates
<1> QED BY <1>5, <1>6, <1>7, <1>8 DEF ReplyInv

LEMMA RestReply ==
  ASSUME Orderly, TypeInv, PortInv, StoreInv, ReplyInv,
         LinkLost \/ NewDevice \/ SMI_PortConfiguration_req \/ SMI_ParServToDS_req
  PROVE  ReplyInv'
<1>1. AtRest /\ UNCHANGED <<sm, smAux, dsState, svc, dl>>
  <2>1. ASSUME SMI_ParServToDS_req PROVE AtRest /\ UNCHANGED <<sm, smAux, dsState, svc, dl>>
    <3>1. UNCHANGED dsState
      <4>1. PICK z \in ServedSets : ParServToDS(z.id, z.set)
        BY <2>1 DEF SMI_ParServToDS_req
      <4> QED BY <4>1 DEF ParServToDS
    <3> QED BY <2>1, <3>1 DEF SMI_ParServToDS_req, Admitted, smVars, dlVars
  <2>2. ASSUME LinkLost \/ NewDevice \/ SMI_PortConfiguration_req
        PROVE  AtRest /\ UNCHANGED <<sm, smAux, dsState, svc, dl>>
    BY <2>2 DEF LinkLost, NewDevice, SMI_PortConfiguration_req, Admitted, dsVars, smVars, dlVars
  <2> QED BY <2>1, <2>2
<1>4. SMI_ParServToDS_req => mbox' = mbox
  <2>1. ASSUME SMI_ParServToDS_req PROVE mbox' = mbox
    <3>1. PICK z \in ServedSets : ParServToDS(z.id, z.set)
      BY <2>1 DEF SMI_ParServToDS_req
    <3> QED BY <3>1 DEF ParServToDS
  <2> QED BY <2>1
<1>2. mbox = <<>>
  BY <1>1 DEF AtRest
<1>3. mbox' = <<>> \/ \E cfg \in Cfgs : mbox' = <<CfgJob("SMI_CFG", cfg)>>
  <2>1. CASE SMI_PortConfiguration_req
    <3>1. PICK cfg \in Cfgs : Post(CfgJob("SMI_CFG", cfg))
      BY <2>1 DEF SMI_PortConfiguration_req
    <3> DEFINE x == CfgJob("SMI_CFG", cfg)
    <3> HIDE DEF x
    <3>2. mbox' = Append(<<>>, x)
      BY <1>2, <3>1 DEF Post, x
    <3>3. mbox' = <<x>>
      BY <3>2
    <3> QED BY <3>3 DEF x
  <2>2. CASE ~SMI_PortConfiguration_req
    BY <1>2, <1>4, <2>2 DEF LinkLost, NewDevice
  <2> QED BY <2>1, <2>2
<1> QED BY <1>1, <1>3, RestReplyKeeps

LEMMA ReplyStart == Init => ReplyInv
<1> SUFFICES ASSUME Init PROVE ReplyInv
  OBVIOUS
<1>1. /\ mbox = <<>> /\ sm = "PortInactive" /\ svc = NoSvc
      /\ dl.mdh = "IDLE" /\ dl.mode = "INACTIVE" /\ dsState = "CheckActivationState" /\ ~dl.isdu
      /\ ~dl.chActive /\ dl.cmdh = "INACTIVE" /\ ~dl.code
  BY DEF Init, JobsInit, CmInit, SmInit, DlInit, DsInit
<1>2. DOMAIN mbox = {}
  BY <1>1
<1>3. (\A K : ~Among(K, mbox)) /\ (\A K : Single(K, mbox)) /\ \A X : Lacks(X, mbox)
  BY <1>2 DEF Among, Single, Lacks
<1>4. Undisturbed /\ Replied
  BY <1>1, <1>3 DEF Undisturbed, Replied, Early, Starting, Resting, Waiting, RestStates, Reading
<1>5. CommandSound
  BY <1>1, <1>3 DEF CommandSound, Dormant, Waiting, Up, Confirming, Uncommanding
<1>6. Awaited
  BY <1>1, <1>3 DEF Awaited, Reaching, CompatStates
<1> QED BY <1>4, <1>5, <1>6 DEF ReplyInv

-----------------------------------------------------------------------------
(* The SM. *)

(* No service runs and the DS is at rest. *)
AtEase == svc = NoSvc /\ Resting /\ ~Waiting("COMREADY")

LEMMA SmUndisturbed ==
  ASSUME MboxTyped, mbox # <<>>, NEW s \in Seq(PortJob), TakeAndPost(s), Undisturbed,
         UNCHANGED <<svc, dsState>>, ~Among(RestJobs, s), ~Among({"COMREADY"}, s),
         Early' => Early \/ AtEase,
         sm' = "checkSerNum" => Early,
         Waiting("COMREADY") => sm' \in {"wait", "PortInactive"}
  PROVE  Undisturbed'
<1>1. AtEase => AtEase'
  BY MainQueue DEF AtEase, Resting, Waiting
<1>2. Early => AtEase
  BY DEF Undisturbed, AtEase
<1>3. Waiting("COMREADY")' => Waiting("COMREADY") /\ Single({"COMREADY"}, mbox')
  BY MainQueue DEF Waiting, Undisturbed
<1>4. Waiting("COMREADY") /\ Resting => Resting'
  BY MainQueue DEF Resting
<1> QED BY <1>1, <1>2, <1>3, <1>4 DEF Undisturbed, AtEase

LEMMA SmCommand ==
  ASSUME MboxTyped, mbox # <<>>, NEW s \in Seq(PortJob), TakeAndPost(s), CommandSound,
         SameCmd(dl', dl), dl'.mdh = dl.mdh, ~Among(Upsets, s),
         dl'.mode = "STARTUP" /\ dl.mdh = "OPERATE" => dl.mode = "STARTUP" \/ Unsent(dl),
         sm' \in Confirming \cup {"wait_devmode_cnf", "SMOperate"} =>
            Up(dl) \/ sm \in Confirming \cup {"wait_devmode_cnf", "SMOperate"},
         sm' \in Confirming => sm \in Confirming \/ Lacks(CmdOk, Tail(mbox)),
         sm' \in Uncommanding /\ Up(dl) => sm \in Uncommanding \/ Unsent(dl),
         sm' # "wait_devmode_cnf",
         (Waiting("SMI_CFG")' \/ Waiting("SM_CFG")') /\ dl.mdh = "OPERATE" =>
            sm' \notin {"PortInactive", "DIDO"} /\ ~Among(Upsets, mbox)
  PROVE  CommandSound'
<1>1. (Fresh(dl') <=> Fresh(dl)) /\ (Unsent(dl') <=> Unsent(dl)) /\ (Dormant(dl') <=> Dormant(dl))
  BY SameSent
<1>2. Lacks(CmdOk, s)
  BY DEF Lacks, CmdOk, Among, Upsets
<1>3. Lacks(CmdOk, Tail(mbox)) <=> Lacks(CmdOk, mbox')
  BY <1>2, MainQueue
<1>4. Lacks(CmdOk, mbox) => Lacks(CmdOk, Tail(mbox))
  BY MainQueue
<1>5. Among(Upsets, mbox') => Among(Upsets, mbox)
  BY MainQueue
<1>6. Up(dl') <=> Up(dl)
  BY DEF Up
<1>7. sm' \in Confirming \cup {"wait_devmode_cnf", "SMOperate"} => dl'.mdh \in {"PREOPERATE", "OPERATE", "IDLE"}
  BY DEF CommandSound, Up
<1>8. sm' \in Confirming => Lacks(CmdOk, mbox')
  BY <1>3, <1>4 DEF CommandSound
<1>9. Up(dl') /\ sm' \in Uncommanding => Unsent(dl')
  BY <1>1, <1>6 DEF CommandSound
<1>10. dl'.mode = "STARTUP" /\ dl'.mdh = "OPERATE" => Unsent(dl')
  BY <1>1 DEF CommandSound
<1>11. (dl'.mdh = "STARTUP" => Fresh(dl')) /\ (dl'.mdh \in {"IDLE", "ESTCOM"} => Dormant(dl'))
  BY <1>1 DEF CommandSound
<1> QED BY <1>5, <1>7, <1>8, <1>9, <1>10, <1>11 DEF CommandSound

(* The SM waits for nothing in its new state. *)
SmIdle == sm' \notin CompatStates \cup {"RestartDevice", "waitonDLPreoperate", "waitonDLOperate",
                                         "checkSerNum", "write_master_cycl"}

LEMMA SmAwaitsNone ==
  ASSUME MboxTyped, mbox # <<>>, NEW s \in Seq(PortJob), TakeAndPost(s), Awaited, Lacks(Misnamed, s), SmIdle
  PROVE  Awaited'
<1>1. Lacks(Misnamed, mbox')
  BY MainQueue DEF Awaited
<1> QED BY <1>1 DEF SmIdle, Awaited, Reaching

(* What the SM posts without waiting for it. *)
SmSays == {"FAULT", "OPERATE", "COMLOST"}
Says(s) == s \in Seq(PortJob) /\ \A i \in DOMAIN s : Kind(s[i]) \in SmSays

LEMMA SaysFacts ==
  /\ Says(<<>>) /\ \A k \in SmSays : Says(<<Signal(k)>>)
  /\ \A s : Says(s) => /\ \A K : K \cap SmSays = {} => ~Among(K, s)
                       /\ Lacks(Misnamed, s)
<1>1. Says(<<>>)
  <2> DEFINE s == <<>>
  <2>1. s \in Seq(PortJob) /\ DOMAIN s = {}
    BY EmptyPost
  <2> HIDE DEF s
  <2>2. Says(s)
    BY <2>1 DEF Says
  <2> QED BY <2>2 DEF s
<1>2. ASSUME NEW k \in SmSays PROVE Says(<<Signal(k)>>)
  <2> DEFINE x == Signal(k)
             s == <<x>>
  <2>1. x \in PortJob /\ Kind(x) = k
    BY SignalJob, SignalKind DEF SmSays, JobTypes
  <2> HIDE DEF x
  <2>2. s \in Seq(PortJob) /\ \A i \in DOMAIN s : s[i] = x
    BY <2>1
  <2> HIDE DEF s
  <2>3. Says(s)
    BY <2>1, <2>2 DEF Says
  <2> QED BY <2>3 DEF s, x
<1>3. ASSUME NEW s, Says(s), NEW K, K \cap SmSays = {} PROVE ~Among(K, s)
  BY <1>3 DEF Says, Among
<1>4. ASSUME NEW s, Says(s) PROVE Lacks(Misnamed, s)
  BY <1>4 DEF Says, SmSays, Lacks, Misnamed
<1> QED BY <1>1, <1>2, <1>3, <1>4

LEMMA SaysNone ==
  ASSUME NEW s, Says(s)
  PROVE  /\ s \in Seq(PortJob) /\ ~Among(Upsets, s) /\ ~Among(RestJobs, s) /\ ~Among({"COMREADY"}, s)
         /\ ~Among({"ISDU_CNF"}, s) /\ ~Among({"SMI_CFG"}, s) /\ ~Among({"SM_CFG"}, s)
         /\ ~Among(Asked, s) /\ ~Among(Modes4, s) /\ Lacks(Misnamed, s)
<1>1. /\ Upsets \cap SmSays = {} /\ RestJobs \cap SmSays = {} /\ {"COMREADY"} \cap SmSays = {}
      /\ {"ISDU_CNF"} \cap SmSays = {} /\ {"SMI_CFG"} \cap SmSays = {} /\ {"SM_CFG"} \cap SmSays = {}
      /\ Asked \cap SmSays = {} /\ Modes4 \cap SmSays = {}
  BY DEF Upsets, RestJobs, SmSays, Asked, Modes4
<1> QED BY <1>1, SaysFacts DEF Says

(* The SM stays where it is, and did not wait for the job. *)
LEMMA SmStaysReply ==
  ASSUME TypeInv, ReplyInv, mbox # <<>>, SmStill, NEW s, Says(s), SmEnter(sm, dl, s),
         smAux'.retry = smAux.retry,
         Kind(Head(mbox)) \in Asked => sm \notin CompatStates \cup {"waitonDLPreoperate", "waitonDLOperate"},
         ~(sm = "waitonDLPreoperate" /\ Kind(Head(mbox)) = "MODE_PREOPERATE"),
         ~(sm = "waitonDLOperate" /\ Kind(Head(mbox)) = "MODE_OPERATE"),
         Kind(Head(mbox)) = "SERNUM" => sm # "checkSerNum",
         Kind(Head(mbox)) = "CYCL" => sm # "write_master_cycl"
  PROVE  ReplyInv'
<1>1. MboxTyped /\ TakeAndPost(s) /\ UNCHANGED <<dl, linked, sm, svc, dsState>>
  BY SmFacts DEF SmEnter, SmStill
<1>2. s \in Seq(PortJob) /\ Lacks(Misnamed, s) /\ \A i \in DOMAIN s : Kind(s[i]) \in SmSays
  BY SaysNone DEF Says
<1>3. SmSays \cap (Upsets \cup {"ISDU_CNF", "COMREADY", "SMI_CFG", "SERNUM"}) = {}
      /\ SmSays \cap RestJobs = {} /\ "SM_CFG" \notin SmSays
  BY DEF Upsets, RestJobs, SmSays
<1> QED BY <1>1, <1>2, <1>3, MainKeeps

(* No configuration is on its way behind a job of the DL or of the AL, in  *)
(* OPERATE.                                                                *)
LEMMA NoneConfigured ==
  ASSUME TypeInv, PortInv, ReplyInv, mbox # <<>>, Kind(Head(mbox)) \in Upsets \cup Loud, dl.mdh = "OPERATE"
  PROVE  ~Waiting("SMI_CFG") /\ ~Waiting("SM_CFG")
<1>1. Kind(Head(mbox)) \in Upsets => Among(Upsets, mbox)
  BY SmFacts, AmongTail DEF MboxTyped
<1>2. Kind(Head(mbox)) \in Loud => Among(Loud, mbox)
  BY SmFacts, AmongTail DEF MboxTyped
<1> QED BY <1>1, <1>2 DEF ReplyInv, CommandSound, PortInv, Configuring, Still

(* The SM gives the port up, or is configured. *)
LEMMA PortDown ==
  ASSUME TypeInv, PortInv, StoreInv, ReplyInv, mbox # <<>>, SmStill, NEW s, Says(s), TakeAndPost(s),
         sm' \in {"PortInactive", "DIDO"}, dl'.mode \in {"INACTIVE", "STARTUP"},
         SameCmd(dl', dl), dl'.mdh = dl.mdh, dl'.isdu = dl.isdu,
         \/ Kind(Head(mbox)) = "SM_CFG"
         \/ Kind(Head(mbox)) \in Upsets \cup Loud /\ sm' = "PortInactive" /\ dl'.mode = "INACTIVE"
  PROVE  ReplyInv'
<1>1. MboxTyped /\ s \in Seq(PortJob) /\ UNCHANGED <<svc, dsState, linked>>
  BY SmFacts DEF SmStill, Says
<1>2. /\ ~Among(Upsets, s) /\ ~Among(RestJobs, s) /\ ~Among({"COMREADY"}, s) /\ ~Among({"ISDU_CNF"}, s)
      /\ ~Among({"SMI_CFG"}, s) /\ ~Among({"SM_CFG"}, s) /\ Lacks(Misnamed, s)
  BY SaysNone
<1>3. CASE Kind(Head(mbox)) = "SM_CFG"
  <2>1. Waiting("SM_CFG") /\ sm \in SmRest /\ ~Among(Loud, mbox)
    BY <1>1, <1>3, MainQueue DEF Waiting, PortInv, Configuring, Still
  <2>2. ~Among(RestJobs, mbox) /\ ~Among({"COMREADY"}, mbox)
    BY <2>1 DEF Among, Loud, Calm, JobTypes, RestJobs
  <2>3. AtEase
    BY <2>1, <2>2 DEF AtEase, Resting, Waiting, StoreInv, PartsSound
  <2>4. Undisturbed'
    BY <1>1, <1>2, <2>3, SmUndisturbed DEF ReplyInv, AtEase
  <2>5. ~Waiting("SMI_CFG")' /\ ~Waiting("SM_CFG")'
    <3>1. Single({"SMI_CFG", "SM_CFG"}, mbox) /\ Kind(Head(mbox)) \in {"SMI_CFG", "SM_CFG"}
      BY <1>3 DEF PortInv, Configuring
    <3>2. ~Among({"SMI_CFG", "SM_CFG"}, Tail(mbox))
      BY <1>1, <3>1, MainQueue
    <3>3. ~Among({"SMI_CFG"}, Tail(mbox)) /\ ~Among({"SM_CFG"}, Tail(mbox))
      BY <3>2 DEF Among
    <3> QED BY <1>1, <1>2, <3>3, MainQueue DEF Waiting
  <2>6. dl.mdh = "OPERATE" => Unsent(dl)
    BY <2>1 DEF ReplyInv, CommandSound, Uncommanding, Confirming, Up, SmRest
  <2>7. CommandSound'
    BY <1>1, <1>2, <2>5, <2>6, SmCommand DEF ReplyInv, Confirming, Uncommanding
  <2> QED BY <1>1, <1>2, <2>4, <2>7, MainReplied, SmAwaitsNone DEF ReplyInv, SmIdle, CompatStates
<1>4. CASE Kind(Head(mbox)) \in Upsets \cup Loud /\ sm' = "PortInactive" /\ dl'.mode = "INACTIVE"
  <2>1. ~Early'
    BY <1>4 DEF Early, Starting, Reading
  <2>2. Undisturbed'
    BY <1>1, <1>2, <1>4, <2>1, SmUndisturbed DEF ReplyInv
  <2>3. dl.mdh = "OPERATE" => ~Waiting("SMI_CFG")' /\ ~Waiting("SM_CFG")'
    <3>1. dl.mdh = "OPERATE" => ~Among({"SMI_CFG"}, mbox) /\ ~Among({"SM_CFG"}, mbox)
      BY <1>4, NoneConfigured DEF Waiting
    <3> QED BY <1>1, <1>2, <3>1, MainQueue DEF Waiting
  <2>4. CommandSound'
    BY <1>1, <1>2, <1>4, <2>3, SmCommand DEF ReplyInv, Confirming, Uncommanding
  <2> QED BY <1>1, <1>2, <1>4, <2>2, <2>4, MainReplied, SmAwaitsNone DEF ReplyInv, SmIdle, CompatStates
<1> QED BY <1>3, <1>4

LEMMA SmIgnoreReply ==
  ASSUME TypeInv, ReplyInv, mbox # <<>>, SmStill, SmIgnore,
         Kind(Head(mbox)) \in Asked => sm \notin CompatStates \cup {"waitonDLPreoperate", "waitonDLOperate"},
         ~(sm = "waitonDLPreoperate" /\ Kind(Head(mbox)) = "MODE_PREOPERATE"),
         ~(sm = "waitonDLOperate" /\ Kind(Head(mbox)) = "MODE_OPERATE"),
         Kind(Head(mbox)) = "SERNUM" => sm # "checkSerNum",
         Kind(Head(mbox)) = "CYCL" => sm # "write_master_cycl"
  PROVE  ReplyInv'
<1> DEFINE s == <<>>
<1>1. Says(s) /\ SmEnter(sm, dl, s) /\ smAux'.retry = smAux.retry
  BY SaysFacts DEF SmIgnore
<1> HIDE DEF s
<1> QED BY <1>1, SmStaysReply

LEMMA ComlostReply ==
  ASSUME TypeInv, PortInv, StoreInv, ReplyInv, mbox # <<>>, SmStill, SmComlost("PortInactive"),
         Kind(Head(mbox)) \in Upsets \cup Loud
  PROVE  ReplyInv'
<1> DEFINE s == <<Signal("COMLOST")>>
<1>1. Says(s) /\ TakeAndPost(s) /\ sm' = "PortInactive" /\ dl' = DL_SetMode_req(dl, "INACTIVE")
  BY SaysFacts DEF SmComlost, SmEnter, SmSays
<1>2. dl \in DlRecord
  BY SmFacts
<1>3. dl'.mode = "INACTIVE" /\ SameCmd(dl', dl) /\ dl'.mdh = dl.mdh /\ dl'.isdu = dl.isdu
  BY <1>1, <1>2, DlShape DEF SameCmd, DL_SetMode_req
<1> HIDE DEF s
<1> QED BY <1>1, <1>3, PortDown

(* After the restart the device is looked at again, whatever it shows. *)
LEMMA RecheckReply ==
  ASSUME TypeInv, PortInv, ReplyInv, mbox # <<>>, SmStill, sm = "RestartDevice",
         SmEnter("CheckComp", dl, <<>>), UNCHANGED smAux, Kind(Head(mbox)) \in Upsets \cup Loud
  PROVE  ReplyInv'
<1> DEFINE s == <<>>
<1>1. Says(s) /\ TakeAndPost(s) /\ sm' = "CheckComp" /\ dl' = dl
  BY SaysFacts DEF SmEnter
<1> HIDE DEF s
<1>2. MboxTyped /\ s \in Seq(PortJob) /\ UNCHANGED <<svc, dsState, linked>>
  BY <1>1, SmFacts DEF SmStill, Says
<1>3. /\ ~Among(Upsets, s) /\ ~Among(RestJobs, s) /\ ~Among({"COMREADY"}, s) /\ ~Among({"ISDU_CNF"}, s)
      /\ ~Among({"SMI_CFG"}, s) /\ ~Among({"SM_CFG"}, s) /\ Lacks(Misnamed, s)
  BY <1>1, SaysNone
<1>4. Early
  BY DEF Early, Starting, Reading
<1>5. Undisturbed'
  BY <1>1, <1>2, <1>3, <1>4, SmUndisturbed DEF ReplyInv, Undisturbed
<1>6. Replied'
  BY <1>1, <1>2, <1>3, MainReplied DEF ReplyInv
<1>7. dl.mdh = "OPERATE" => ~Waiting("SMI_CFG")' /\ ~Waiting("SM_CFG")'
  <2>1. dl.mdh = "OPERATE" => ~Among({"SMI_CFG"}, mbox) /\ ~Among({"SM_CFG"}, mbox)
    BY NoneConfigured DEF Waiting
  <2> QED BY <1>1, <1>2, <1>3, <2>1, MainQueue DEF Waiting
<1>8. CommandSound'
  <2>1. SameCmd(dl', dl) /\ dl'.mdh = dl.mdh /\ (dl'.mode = "STARTUP" /\ dl.mdh = "OPERATE" => dl.mode = "STARTUP")
    BY <1>1 DEF SameCmd
  <2> QED BY <1>1, <1>2, <1>3, <1>7, <2>1, SmCommand DEF ReplyInv, Confirming, Uncommanding
<1>9. Awaited'
  <2>1. Lacks(Misnamed, mbox')
    BY <1>1, <1>2, <1>3, MainQueue DEF ReplyInv, Awaited
  <2>2. smAux'.retry
    BY DEF ReplyInv, Awaited
  <2> QED BY <1>1, <2>1, <2>2 DEF Awaited, Reaching
<1> QED BY <1>5, <1>6, <1>8, <1>9 DEF ReplyInv

LEMMA EventModeReply ==
  ASSUME TypeInv, PortInv, StoreInv, ReplyInv, mbox # <<>>, SmStill, EventModeComlost,
         Kind(Head(mbox)) \in Upsets, ~(sm = "waitonDLPreoperate" /\ Kind(Head(mbox)) = "MODE_PREOPERATE")
  PROVE  ReplyInv'
<1>1. CASE SmComlost("PortInactive")
  BY <1>1, ComlostReply
<1>2. CASE sm = "RestartDevice" /\ SmEnter("CheckComp", dl, <<>>) /\ UNCHANGED smAux
  BY <1>2, RecheckReply
<1>3. CASE sm # "waitonDLOperate" /\ SmIgnore
  BY <1>3, SmIgnoreReply DEF Upsets, Asked
<1> QED BY <1>1, <1>2, <1>3 DEF EventModeComlost

LEMMA EventCnfReply ==
  ASSUME TypeInv, PortInv, StoreInv, ReplyInv, mbox # <<>>, SmStill, EventCnfComlost,
         sm # "RestartDevice", Kind(Head(mbox)) \in Upsets \cup Loud
  PROVE  ReplyInv'
<1>1. CASE SmComlost("PortInactive")
  BY <1>1, ComlostReply
<1>2. CASE /\ sm \in {"PortInactive", "wait", "SMOperate", "InspectionFault", "DIDO", "waitForFallback"}
           /\ SmIgnore
  BY <1>2, SmIgnoreReply DEF CompatStates
<1> QED BY <1>1, <1>2 DEF EventCnfComlost

(* The device is still in STARTUP when the answer to a block is taken, and *)
(* nothing but the SM is at work.                                          *)
LEMMA EarlyKeeps ==
  ASSUME TypeInv, PortInv, ReplyInv, mbox # <<>>, SmStill, Kind(Head(mbox)) \in Granted \cup {"MODE_STARTUP"},
         SameCmd(dl', dl), dl'.mdh = dl.mdh, dl'.isdu = dl.isdu, sm' \in Reading \cup Writing,
         NEW s \in Seq(PortJob), TakeAndPost(s),
         \A i \in DOMAIN s : Kind(s[i]) \in {"NOT_READ", "NOT_WRITTEN", "FAULT"}, Awaited'
  PROVE  ReplyInv'
<1>1. MboxTyped /\ UNCHANGED <<svc, dsState>>
  BY SmFacts DEF SmStill
<1>2. dl.mode = "STARTUP" /\ dl.mdh = "STARTUP"
  BY AskedAlone
<1>3. \A K : K \cap {"NOT_READ", "NOT_WRITTEN", "FAULT"} = {} => ~Among(K, s)
  BY DEF Among
<1>4. /\ ~Among(Upsets, s) /\ ~Among(RestJobs, s) /\ ~Among({"COMREADY"}, s) /\ ~Among({"ISDU_CNF"}, s)
  BY <1>3 DEF Upsets, RestJobs
<1>5. Early
  BY <1>2 DEF Early, Starting
<1>6. sm' \notin Confirming \cup {"wait_devmode_cnf", "SMOperate"} /\ sm' # "checkSerNum"
  BY DEF Reading, Writing, Confirming
<1>7. Undisturbed'
  BY <1>1, <1>4, <1>5, <1>6, SmUndisturbed DEF ReplyInv, Undisturbed
<1>8. Replied'
  BY <1>1, <1>4, MainReplied DEF ReplyInv
<1>9. CommandSound'
  BY <1>1, <1>2, <1>4, <1>6, SmCommand DEF ReplyInv, Up
<1> QED BY <1>7, <1>8, <1>9 DEF ReplyInv

LEMMA BlockReply ==
  ASSUME TypeInv, PortInv, ReplyInv, mbox # <<>>, SmStill, Kind(Head(mbox)) \in Granted \cup {"MODE_STARTUP"},
         NEW state \in Reading \cup Writing, NEW rw \in {"read", "write"}, NEW block \in Blocks \ {"WURQ"},
         NEW aux \in Aux, SmBlock(state, rw, block, aux), state = "RestartDevice" => aux.retry
  PROVE  ReplyInv'
<1> DEFINE x == BlockCnf(rw, block, "ERR", NoSnap)
           s == IF BlockAccepted(dl) THEN <<>> ELSE <<x>>
<1>1. /\ sm' = state /\ dl' = DL_ReadWrite_req(dl, rw) /\ TakeAndPost(s) /\ smAux' = [aux EXCEPT !.addr = block]
  BY DEF SmBlock, SmEnter
<1>2. x \in PortJob /\ Kind(x) \in {"NOT_READ", "NOT_WRITTEN"}
  <2>1. x \in PortJob
    BY CnfIsJob, WildFacts, ResultNames DEF BlockCnf, Answers, Results
  <2> QED BY <2>1, CnfKind
<1> HIDE DEF x
<1>3. MboxTyped /\ dl \in DlRecord
  BY SmFacts
<1>4. SameCmd(dl', dl) /\ dl'.mdh = dl.mdh /\ dl'.isdu = dl.isdu /\ (BlockAccepted(dl) => dl'.rw = rw)
  BY <1>1, <1>3, DlShape DEF DL_ReadWrite_req, SameCmd
<1>5. s \in Seq(PortJob) /\ \A i \in DOMAIN s : Kind(s[i]) \in {"NOT_READ", "NOT_WRITTEN", "FAULT"}
  <2>1. CASE BlockAccepted(dl)
    BY <2>1, EmptyPost
  <2>2. CASE ~BlockAccepted(dl)
    <3>1. s = <<x>>
      BY <2>2
    <3> QED BY <1>2, <3>1
  <2> QED BY <2>1, <2>2
<1>6. ~BlockAccepted(dl) => Among(Asked, s)
  <2>1. Among(Asked, <<x>>) <=> Kind(x) \in Asked
    BY AmongFew
  <2> QED BY <1>2, <2>1 DEF Asked
<1> HIDE DEF s
<1>7. Token'
  <2>1. Among(Asked, s) => Among(Asked, mbox')
    BY <1>1, <1>3, <1>5, MainQueue
  <2> QED BY <1>4, <1>6, <2>1 DEF Token, BlockOut
<1>8. Lacks(Misnamed, mbox')
  <2>1. Lacks(Misnamed, s)
    BY <1>5 DEF Lacks, Misnamed
  <2> QED BY <1>1, <1>3, <1>5, <2>1, MainQueue DEF ReplyInv, Awaited
<1>9. Awaited'
  <2>1. sm' = "RestartDevice" => smAux'.retry
    BY <1>1 DEF Aux
  <2>2. sm' \notin {"checkSerNum", "write_master_cycl"}
    BY <1>1 DEF Reading, Writing
  <2> QED BY <1>7, <1>8, <2>1, <2>2 DEF Awaited, Reaching
<1> QED BY <1>1, <1>4, <1>5, <1>9, EarlyKeeps

(* The last block is answered: the DL is on its way to the mode it is told. *)
LEMMA LeaveReply ==
  ASSUME TypeInv, PortInv, ReplyInv, mbox # <<>>, SmStill, Kind(Head(mbox)) \in Granted,
         NEW mode \in {"INACTIVE", "PREOPERATE", "OPERATE"}, dl' = DL_SetMode_req(dl, mode),
         NEW s, Says(s), s = <<>> \/ s = <<Signal("FAULT")>>, TakeAndPost(s),
         \/ sm' = "InspectionFault"
         \/ sm' = sm /\ sm = "waitonDLPreoperate" /\ mode = "PREOPERATE"
         \/ sm' = sm /\ sm = "waitonDLOperate" /\ mode = "OPERATE"
  PROVE  ReplyInv'
<1>1. MboxTyped /\ dl \in DlRecord /\ s \in Seq(PortJob) /\ linked' = linked
  BY SmFacts DEF SmStill, Says
<1>2. Ready /\ linked
  <2>1. Among(Granted, mbox)
    BY <1>1, AmongTail DEF MboxTyped
  <2> QED BY <2>1 DEF PortInv, Asking
<1>3. /\ SameCmd(dl', dl) /\ dl'.mdh = dl.mdh /\ dl'.isdu = dl.isdu /\ dl'.mode = mode /\ dl'.event /\ dl'.lost = dl.lost
  BY <1>1, DlShape DEF DL_SetMode_req, SameCmd
<1>4. \A i \in DOMAIN s : Kind(s[i]) \in {"NOT_READ", "NOT_WRITTEN", "FAULT"}
  <2>1. Kind(Signal("FAULT")) = "FAULT"
    BY SignalKind DEF JobTypes
  <2> QED BY <2>1
<1>5. ~Among(Modes4, mbox')
  <2>1. ~Among(Modes4, mbox)
    BY <1>2 DEF Ready, Among, Modes4, Upsets
  <2>2. ~Among(Modes4, s)
    BY SaysNone
  <2> QED BY <1>1, <2>1, <2>2, MainQueue
<1>6. Awaited'
  <2>1. Lacks(Misnamed, s)
    BY SaysNone
  <2>2. CASE sm' = "InspectionFault"
    BY <1>1, <2>1, <2>2, SmAwaitsNone DEF SmIdle, ReplyInv, CompatStates
  <2>3. CASE sm' = sm /\ sm = "waitonDLPreoperate" /\ mode = "PREOPERATE"
    BY <1>1, <1>2, <1>3, <1>5, <2>1, <2>3, MainQueue DEF ReplyInv, Awaited, Reaching, Ready, CompatStates
  <2>4. CASE sm' = sm /\ sm = "waitonDLOperate" /\ mode = "OPERATE"
    BY <1>1, <1>2, <1>3, <1>5, <2>1, <2>4, MainQueue DEF ReplyInv, Awaited, Reaching, Ready, CompatStates
  <2> QED BY <2>2, <2>3, <2>4
<1>7. sm' \in Reading \cup Writing
  BY DEF Writing
<1> QED BY <1>1, <1>3, <1>4, <1>6, <1>7, EarlyKeeps

(* The job at the head is in the queue. *)
LEMMA MainHead ==
  ASSUME TypeInv, mbox # <<>> PROVE \A K : Kind(Head(mbox)) \in K => Among(K, mbox)
  BY SmFacts, AmongTail DEF MboxTyped

LEMMA HeadWaits ==
  ASSUME TypeInv, mbox # <<>>, NEW k, Kind(Head(mbox)) = k PROVE Waiting(k)
  BY MainHead DEF Waiting

LEMMA FaultSaid ==
    /\ Says(<<>>) /\ Says(<<Signal("FAULT")>>) /\ Says(<<Signal("OPERATE")>>) /\ Says(<<Signal("COMLOST")>>)
  BY SaysFacts DEF SmSays

LEMMA RetrySet == ASSUME TypeInv PROVE [smAux EXCEPT !.retry = TRUE].retry
  BY SmFacts DEF Aux

LEMMA IdentReply ==
  ASSUME TypeInv, PortInv, ReplyInv, mbox # <<>>, SmStill, Kind(Head(mbox)) = "READ", IdentRead
  PROVE  ReplyInv'
<1>1. smAux \in Aux /\ Kind(Head(mbox)) \in Granted
  BY SmFacts DEF Granted
<1>2. {"IDENT", "PREOP", "OPERATE", "RESTART"} \subseteq Blocks \ {"WURQ"}
  BY DEF Blocks
<1>3. CASE sm \in {"CheckComp", "CheckCompV10"} /\ ReadBlock(sm, "IDENT")
  BY <1>1, <1>2, <1>3, BlockReply DEF ReadBlock, Reading
<1>4. CASE sm = "CheckComp" /\ CheckCompDone
  <2>1. CASE WriteBlock("waitonDLPreoperate", "PREOP")
    BY <1>1, <1>2, <2>1, BlockReply DEF WriteBlock, Writing
  <2>2. CASE SmBlock("RestartDevice", "write", "RESTART", [smAux EXCEPT !.retry = TRUE])
    BY <1>1, <1>2, <2>2, AuxSet, RetrySet, BlockReply DEF Reading
  <2>3. CASE SmBlock("InspectionFault", "write", "PREOP", [smAux EXCEPT !.error = TRUE])
    <3>1. "InspectionFault" \in Reading \cup Writing /\ [smAux EXCEPT !.error = TRUE] \in Aux
      BY AuxSet DEF Writing
    <3> QED BY <1>1, <1>2, <2>3, <3>1, BlockReply
  <2> QED BY <1>4, <2>1, <2>2, <2>3 DEF CheckCompDone
<1>5. CASE sm = "CheckCompV10" /\ CheckCompV10Done
  <2>1. CASE WriteBlock("waitonDLOperate", "OPERATE")
    BY <1>1, <1>2, <2>1, BlockReply DEF WriteBlock, Writing
  <2>2. CASE SmEnter("InspectionFault", DL_SetMode_req(dl, "INACTIVE"), <<Signal("FAULT")>>)
    BY <1>1, <2>2, FaultSaid, LeaveReply DEF SmEnter
  <2>3. CASE SmSetOperate("InspectionFault", smReal'.id, <<Signal("FAULT")>>)
    BY <1>1, <2>3, FaultSaid, LeaveReply DEF SmSetOperate
  <2> QED BY <1>5, <2>1, <2>2, <2>3 DEF CheckCompV10Done
<1> QED BY <1>3, <1>4, <1>5 DEF IdentRead

LEMMA ReadCnfReply ==
  ASSUME TypeInv, PortInv, StoreInv, ReplyInv, SmStill, SmReadCnf PROVE ReplyInv'
<1>1. mbox # <<>> /\ Head(mbox).type = "DL_READ_CNF"
  BY DEF SmReadCnf, Take
<1>2. Kind(Head(mbox)) \in {"WURQ", "READ", "NOT_READ"} /\ Kind(Head(mbox)) \in Loud
  BY <1>1, AnswerHead DEF Loud, Asked, Calm
<1>3. CASE Head(mbox).res # "OK" /\ EventCnfComlost
  <2>1. Kind(Head(mbox)) = "NOT_READ"
    BY <1>1, <1>3, AnswerHead
  <2>2. Waiting("NOT_READ")
    BY <1>1, <2>1, HeadWaits
  <2>3. sm = "ReadComParameter"
    BY <2>2 DEF PortInv, Asking
  <2> QED BY <1>1, <1>2, <1>3, <2>3, EventCnfReply
<1>4. CASE ReadIgnored
  <2>1. Kind(Head(mbox)) \in {"WURQ", "STRAY"}
    BY <1>1, <1>4, HeadKind DEF ReadIgnored
  <2> QED BY <1>1, <1>4, <2>1, SmIgnoreReply DEF ReadIgnored, Asked
<1>5. CASE Head(mbox).res = "OK" /\ Head(mbox).index # "WURQ" /\ (ComParameterRead \/ IdentRead \/ Restarted)
  <2>1. Kind(Head(mbox)) = "READ"
    BY <1>1, <1>5, AnswerHead
  <2>2. smAux \in Aux /\ Kind(Head(mbox)) \in Granted
    BY <2>1, SmFacts DEF Granted
  <2>3. {"IDENT", "MASTER_IDENT", "COMM"} \subseteq Blocks \ {"WURQ"}
    BY DEF Blocks
  <2>4. CASE ComParameterRead
    <3>1. CASE ReadBlock("CheckCompV10", "IDENT")
      BY <1>1, <2>2, <2>3, <3>1, BlockReply DEF ReadBlock, Reading
    <3>2. CASE WriteBlock("CheckVxy", "MASTER_IDENT")
      BY <1>1, <2>2, <2>3, <3>2, BlockReply DEF WriteBlock, Writing
    <3> QED BY <2>4, <3>1, <3>2 DEF ComParameterRead
  <2>5. CASE IdentRead
    BY <1>1, <2>1, <2>5, IdentReply
  <2>6. CASE Restarted
    BY <1>1, <2>2, <2>3, <2>6, BlockReply DEF Restarted, ReadBlock, Reading
  <2> QED BY <1>5, <2>4, <2>5, <2>6
<1> QED BY <1>3, <1>4, <1>5 DEF SmReadCnf

LEMMA WriteCnfReply ==
  ASSUME TypeInv, PortInv, StoreInv, ReplyInv, SmStill, SmWriteCnf PROVE ReplyInv'
<1>1. mbox # <<>> /\ Head(mbox).type = "DL_WRITE_CNF"
  BY DEF SmWriteCnf, Take
<1>2. Kind(Head(mbox)) = "WRITTEN" /\ Head(mbox).res = "OK"
  BY <1>1, AnswerHead
<1>3. smAux \in Aux /\ Kind(Head(mbox)) \in Granted
  BY <1>2, SmFacts DEF Granted
<1>4. {"IDENT", "PREOP", "RESTART", "MIN"} \subseteq Blocks \ {"WURQ"}
  BY DEF Blocks
<1>5. CASE VxyWritten
  <2>1. CASE ReadBlock("CheckComp", "IDENT")
    BY <1>1, <1>3, <1>4, <2>1, BlockReply DEF ReadBlock, Reading
  <2>2. CASE SmBlock("RestartDevice", "write", "RESTART", [smAux EXCEPT !.retry = TRUE])
    BY <1>1, <1>3, <1>4, <2>2, AuxSet, RetrySet, BlockReply DEF Reading
  <2>3. CASE SmBlock("InspectionFault", "write", "PREOP", [smAux EXCEPT !.error = TRUE])
    <3>1. "InspectionFault" \in Reading \cup Writing /\ [smAux EXCEPT !.error = TRUE] \in Aux
      BY AuxSet DEF Writing
    <3> QED BY <1>1, <1>3, <1>4, <2>3, <3>1, BlockReply
  <2> QED BY <1>5, <2>1, <2>2, <2>3 DEF VxyWritten
<1>6. CASE RestartWritten
  <2>1. sm = "RestartDevice" /\ smAux.retry
    BY <1>6 DEF RestartWritten, ReplyInv, Awaited
  <2> QED BY <1>1, <1>3, <1>4, <1>6, <2>1, BlockReply DEF RestartWritten, ReadBlock, Reading
<1>7. CASE FaultWritten
  <2>1. CASE SmEnter(sm, DL_SetMode_req(dl, "PREOPERATE"), <<Signal("FAULT")>>)
    BY <1>1, <1>3, <1>7, <2>1, FaultSaid, LeaveReply DEF FaultWritten, SmEnter
  <2>2. CASE SmEnter(sm, dl, <<>>)
    <3>1. SmIgnore /\ sm = "InspectionFault"
      BY <1>2, <1>7, <2>2 DEF FaultWritten, SmIgnore, SmWriteCnf
    <3> QED BY <1>1, <3>1, SmIgnoreReply DEF CompatStates
  <2> QED BY <1>7, <2>1, <2>2 DEF FaultWritten
<1>8. CASE PreopWritten
  BY <1>1, <1>3, <1>8, FaultSaid, LeaveReply DEF PreopWritten, SmEnter
<1>9. CASE OperateWritten
  BY <1>1, <1>3, <1>9, FaultSaid, LeaveReply DEF OperateWritten, SmSetOperate
<1> QED BY <1>2, <1>5, <1>6, <1>7, <1>8, <1>9 DEF SmWriteCnf

(* The wake-up ended, while the SM is inactive. *)
LEMMA WhenInactiveReply ==
  ASSUME TypeInv, PortInv, ReplyInv, mbox # <<>>, SmStill, ModeWhenInactive, Kind(Head(mbox)) = Head(mbox).type
  PROVE  ReplyInv'
<1>1. sm = "PortInactive"
  BY DEF ModeWhenInactive
<1>2. CASE Take("MODE_STARTUP") /\ SmBlock("ReadComParameter", "read", "COMM", [smAux EXCEPT !.retry = FALSE])
  <2>1. [smAux EXCEPT !.retry = FALSE] \in Aux
    BY SmFacts DEF Aux
  <2>2. "ReadComParameter" \in Reading \cup Writing /\ "COMM" \in Blocks \ {"WURQ"}
    BY DEF Reading, Blocks
  <2>3. Kind(Head(mbox)) \in Granted \cup {"MODE_STARTUP"}
    BY <1>2 DEF Take
  <2> QED BY <1>2, <2>1, <2>2, <2>3, BlockReply
<1>3. ASSUME NEW s, Says(s), SmEnter(sm, dl, s), UNCHANGED smAux PROVE ReplyInv'
  BY <1>1, <1>3, SmStaysReply DEF CompatStates
<1> QED BY <1>2, <1>3, FaultSaid DEF ModeWhenInactive

(* No configuration is on its way behind a job of the DL or of the AL, in  *)
(* OPERATE, and none is when that job is taken.                            *)
LEMMA NoneWaiting ==
  ASSUME TypeInv, PortInv, ReplyInv, mbox # <<>>, Kind(Head(mbox)) \in Upsets \cup Loud,
         NEW s \in Seq(PortJob), TakeAndPost(s), ~Among({"SMI_CFG"}, s), ~Among({"SM_CFG"}, s)
  PROVE  dl.mdh = "OPERATE" => ~Waiting("SMI_CFG")' /\ ~Waiting("SM_CFG")'
<1>1. dl.mdh = "OPERATE" => ~Among({"SMI_CFG"}, mbox) /\ ~Among({"SM_CFG"}, mbox)
  BY NoneConfigured DEF Waiting
<1>2. MboxTyped
  BY SmFacts
<1> QED BY <1>1, <1>2, MainQueue DEF Waiting

(* The device is in the mode it is checked in: the SM asks for its serial  *)
(* number.                                                                 *)
LEMMA ArrivedReply ==
  ASSUME TypeInv, PortInv, ReplyInv, mbox # <<>>, SmStill,
         NEW state \in {"waitonDLPreoperate", "waitonDLOperate"}, NEW mode \in {"PREOPERATE", "OPERATE"},
         sm = state, Reaching(state, mode, Kind(Head(mbox))), Kind(Head(mbox)) \in Modes4,
         SmEnter("checkSerNum", dl, <<ReadReq("SERNUM")>>)
  PROVE  ReplyInv'
<1> DEFINE x == ReadReq("SERNUM")
           s == <<x>>
<1>1. sm' = "checkSerNum" /\ dl' = dl /\ TakeAndPost(s) /\ UNCHANGED <<svc, dsState, linked>> /\ MboxTyped
  BY SmFacts DEF SmEnter, SmStill
<1>2. x \in PortJob /\ Kind(x) = "SERNUM"
  BY ReadIsJob, RequestKind DEF Indexes
<1>3. x.index = "SERNUM" /\ x.res = "OK"
  BY DEF ReadReq, Signal
<1> HIDE DEF x
<1>4. /\ Among(Upsets, s) <=> Kind(x) \in Upsets
      /\ Among(RestJobs, s) <=> Kind(x) \in RestJobs
      /\ Among({"COMREADY"}, s) <=> Kind(x) \in {"COMREADY"}
      /\ Among({"ISDU_CNF"}, s) <=> Kind(x) \in {"ISDU_CNF"}
      /\ Among({"SMI_CFG"}, s) <=> Kind(x) \in {"SMI_CFG"}
      /\ Among({"SM_CFG"}, s) <=> Kind(x) \in {"SM_CFG"}
      /\ Among({"SERNUM"}, s) <=> Kind(x) \in {"SERNUM"}
  BY AmongFew
<1>5. x \notin Failed /\ x \notin Misnamed
  BY <1>2, <1>3 DEF Failed, Misnamed
<1>6. (Lacks(Failed, s) <=> x \notin Failed) /\ (Lacks(Misnamed, s) <=> x \notin Misnamed)
  BY LacksFew
<1>7. s \in Seq(PortJob)
  BY <1>2
<1>8. /\ ~Among(Upsets, s) /\ ~Among(RestJobs, s) /\ ~Among({"COMREADY"}, s) /\ ~Among({"ISDU_CNF"}, s)
      /\ ~Among({"SMI_CFG"}, s) /\ ~Among({"SM_CFG"}, s) /\ Among({"SERNUM"}, s)
      /\ Lacks(Failed, s) /\ Lacks(Misnamed, s)
  BY <1>2, <1>4, <1>5, <1>6 DEF Upsets, RestJobs
<1> HIDE DEF s
<1>9. Kind(Head(mbox)) \in Upsets /\ Among(Upsets, mbox) /\ Among(Modes4, mbox)
  BY MainHead DEF Modes4, Upsets
<1>10. ~Token
  <2>1. ~BlockOut /\ ~Among(Granted, mbox)
    BY <1>9 DEF PortInv, Asking, Ready
  <2>2. ~Among({"NOT_READ"}, mbox) /\ ~Among({"NOT_WRITTEN", "STRAY"}, mbox)
    BY DEF PortInv, Asking, Waiting
  <2>3. ~Among(Asked, mbox)
    BY <2>1, <2>2 DEF Among, Asked, Granted
  <2> QED BY <2>1, <2>3 DEF Token
<1>11. linked /\ ~dl.lost /\ ~dl.event /\ dl.mode = mode /\ dl.mdh = mode /\ ~Among(Upsets, Tail(mbox))
  <2>1. /\ linked /\ ~dl.lost /\ dl.mode = mode
        /\ ~dl.event /\ dl.mdh = mode /\ NoneAfter(Kind(Head(mbox)), Upsets, mbox)
    BY <1>9, <1>10 DEF Reaching
  <2> QED BY <1>1, <1>7, <2>1, MainQueue
<1>12. Up(dl)
  BY <1>11 DEF Up
<1>13. Early /\ AtEase
  BY DEF Early, ReplyInv, Undisturbed, AtEase
<1>14. Lacks(Failed, mbox)
  <2>1. ~Waiting("SERNUM")
    BY DEF PortInv, Serving
  <2>2. ~Waiting("ISDU_CNF")
    BY <1>13 DEF AtEase, ReplyInv, Replied
  <2> QED BY <2>1, <2>2 DEF Waiting, Among, Lacks, Failed
<1>15. /\ ~Among(Upsets, mbox') /\ Lacks(Failed, mbox') /\ Lacks(Misnamed, mbox') /\ Among({"SERNUM"}, mbox')
  BY <1>1, <1>7, <1>8, <1>11, <1>14, MainQueue DEF ReplyInv, Awaited
<1>16. Awaited'
  BY <1>1, <1>11, <1>12, <1>15 DEF Awaited, CompatStates, Reaching, Held, Serviced, Waiting, Up
<1>17. Undisturbed'
  BY <1>1, <1>7, <1>8, <1>13, SmUndisturbed DEF ReplyInv, AtEase
<1>18. Replied'
  BY <1>1, <1>7, <1>8, MainReplied DEF ReplyInv
<1>19. Lacks(CmdOk, Tail(mbox))
  BY <1>11 DEF Lacks, CmdOk, Among, Upsets
<1>20. CommandSound'
  <2>1. SameCmd(dl', dl) /\ dl'.mdh = dl.mdh /\ (dl'.mode = "STARTUP" /\ dl.mdh = "OPERATE" => dl.mode = "STARTUP")
    BY <1>1 DEF SameCmd
  <2>2. dl.mdh = "OPERATE" => ~Waiting("SMI_CFG")' /\ ~Waiting("SM_CFG")'
    BY <1>1, <1>7, <1>8, <1>9, NoneWaiting
  <2> QED BY <1>1, <1>7, <1>8, <1>12, <1>19, <2>1, <2>2, SmCommand DEF ReplyInv, Uncommanding
<1> QED BY <1>16, <1>17, <1>18, <1>20 DEF ReplyInv

LEMMA AwaitedReply ==
  ASSUME TypeInv, PortInv, ReplyInv, mbox # <<>>, SmStill, ModeAwaited, Kind(Head(mbox)) = Head(mbox).type
  PROVE  ReplyInv'
<1>1. CASE sm = "waitonDLPreoperate" /\ Take("MODE_PREOPERATE") /\ SmEnter("checkSerNum", dl, <<ReadReq("SERNUM")>>)
  <2>1. Kind(Head(mbox)) = "MODE_PREOPERATE"
    BY <1>1 DEF Take
  <2>2. Reaching("waitonDLPreoperate", "PREOPERATE", Kind(Head(mbox))) /\ Kind(Head(mbox)) \in Modes4
    BY <2>1 DEF ReplyInv, Awaited, Modes4
  <2> QED BY <1>1, <2>2, ArrivedReply
<1>2. CASE sm = "waitonDLOperate" /\ Take("MODE_OPERATE") /\ SmEnter("checkSerNum", dl, <<ReadReq("SERNUM")>>)
  <2>1. Kind(Head(mbox)) = "MODE_OPERATE"
    BY <1>2 DEF Take
  <2>2. Reaching("waitonDLOperate", "OPERATE", Kind(Head(mbox))) /\ Kind(Head(mbox)) \in Modes4
    BY <2>1 DEF ReplyInv, Awaited, Modes4
  <2> QED BY <1>2, <2>2, ArrivedReply
<1>3. CASE sm = "SMOperate" /\ SmEnter(sm, dl, <<Signal("OPERATE")>>)
  <2> DEFINE s == <<Signal("OPERATE")>>
  <2>1. Says(s) /\ SmEnter(sm, dl, s) /\ smAux'.retry = smAux.retry
    BY <1>3, FaultSaid DEF ModeAwaited
  <2> HIDE DEF s
  <2> QED BY <1>3, <2>1, SmStaysReply DEF CompatStates
<1> QED BY <1>1, <1>2, <1>3 DEF ModeAwaited

LEMMA ModeIndReply ==
  ASSUME TypeInv, PortInv, StoreInv, ReplyInv, SmStill, SmModeInd PROVE ReplyInv'
<1>1. mbox # <<>>
  BY DEF SmModeInd
<1>2. ASSUME Head(mbox).type \in ModeJobs \cup {"MODE_COMLOST"}
      PROVE  Kind(Head(mbox)) = Head(mbox).type /\ Kind(Head(mbox)) \in Upsets
  BY <1>1, <1>2, ModeHead
<1>3. CASE Head(mbox).type \in ModeJobs /\ ModeWhenInactive
  BY <1>1, <1>2, <1>3, WhenInactiveReply
<1>4. CASE Head(mbox).type \in ModeJobs /\ ModeAwaited
  BY <1>1, <1>2, <1>4, AwaitedReply
<1>5. CASE Head(mbox).type \in ModeJobs /\ ModeUnexpected
  <2>1. Kind(Head(mbox)) = Head(mbox).type /\ Kind(Head(mbox)) \in Upsets
    BY <1>2, <1>5
  <2>2. CASE /\ SmIgnore
             /\ ~(sm = "waitonDLPreoperate" /\ Take("MODE_PREOPERATE"))
             /\ ~(sm \in {"SMOperate", "waitonDLOperate"} /\ Take("MODE_OPERATE"))
    BY <1>1, <2>1, <2>2, SmIgnoreReply DEF Take, Upsets, Asked
  <2>3. CASE sm # "waitonDLPreoperate" /\ EventModeComlost
    BY <1>1, <2>1, <2>3, EventModeReply
  <2> QED BY <1>5, <2>2, <2>3 DEF ModeUnexpected
<1>6. CASE Take("MODE_COMLOST") /\ (SmIgnore \/ EventModeComlost)
  <2>1. Kind(Head(mbox)) = "MODE_COMLOST" /\ Kind(Head(mbox)) \in Upsets
    BY <1>2, <1>6 DEF Take
  <2> QED BY <1>1, <1>6, <2>1, SmIgnoreReply, EventModeReply DEF Asked
<1> QED BY <1>3, <1>4, <1>5, <1>6 DEF SmModeInd

LEMMA SernumReply ==
  ASSUME TypeInv, PortInv, ReplyInv, SmStill, SmSernumCnf PROVE ReplyInv'
<1>1. mbox # <<>> /\ Head(mbox).type = "SERNUM_CNF" /\ Kind(Head(mbox)) = "SERNUM" /\ MboxTyped
  BY SmFacts, HeadKind DEF SmSernumCnf, Take
<1>2. Waiting("SERNUM") /\ Kind(Head(mbox)) \in Loud
  BY <1>1, HeadWaits DEF Loud, Calm
<1>3. sm = "checkSerNum"
  BY <1>2 DEF PortInv, Serving
<1>4. Held /\ Lacks(Failed, mbox)
  BY <1>3 DEF ReplyInv, Awaited
<1>5. Head(mbox).res = "OK"
  <2>1. Head(mbox) \notin Failed /\ Head(mbox) \in PortJob
    BY <1>1, <1>4, HeadFacts, LacksTail DEF MboxTyped
  <2> QED BY <1>1, <2>1 DEF Failed
<1>6. PICK state, k : /\ <<state, k>> \in {<<"InspectionFault", "FAULT">>, <<"wait", "COMREADY">>}
                      /\ SmEnter(state, dl, <<Signal(k)>>)
  BY <1>3, <1>5 DEF SmSernumCnf
<1> DEFINE x == Signal(k)
           s == <<x>>
<1>7. sm' = state /\ dl' = dl /\ TakeAndPost(s) /\ UNCHANGED <<svc, dsState, linked>>
  BY <1>6 DEF SmEnter, SmStill
<1>8. x \in PortJob /\ Kind(x) = k
  BY <1>6, SignalJob, SignalKind DEF JobTypes
<1> HIDE DEF x
<1>9. /\ Among(Upsets, s) <=> Kind(x) \in Upsets
      /\ Among(RestJobs, s) <=> Kind(x) \in RestJobs
      /\ Among({"COMREADY"}, s) <=> Kind(x) \in {"COMREADY"}
      /\ Among({"ISDU_CNF"}, s) <=> Kind(x) \in {"ISDU_CNF"}
      /\ Among({"SMI_CFG"}, s) <=> Kind(x) \in {"SMI_CFG"}
      /\ Among({"SM_CFG"}, s) <=> Kind(x) \in {"SM_CFG"}
      /\ Lacks(Misnamed, s) <=> x \notin Misnamed
      /\ Single({"COMREADY"}, s)
  BY AmongFew, LacksFew, SingleFew
<1>10. s \in Seq(PortJob)
  BY <1>8
<1>11. /\ ~Among(Upsets, s) /\ ~Among(RestJobs, s) /\ ~Among({"ISDU_CNF"}, s)
       /\ ~Among({"SMI_CFG"}, s) /\ ~Among({"SM_CFG"}, s) /\ Lacks(Misnamed, s) /\ Single({"COMREADY"}, s)
       /\ Among({"COMREADY"}, s) => state = "wait"
  BY <1>6, <1>8, <1>9 DEF Upsets, RestJobs, Misnamed
<1> HIDE DEF s
<1>12. svc = NoSvc /\ Resting /\ ~Among({"COMREADY"}, mbox)
  BY <1>2, <1>3 DEF ReplyInv, Undisturbed, PortInv, Serving, Waiting
<1>13. Undisturbed'
  <2>1. ~Early' /\ sm' # "checkSerNum"
    BY <1>3, <1>6, <1>7 DEF PortInv, Moded, Early, Starting, Reading
  <2>2. Resting'
    BY <1>1, <1>7, <1>10, <1>11, <1>12, MainQueue DEF Resting
  <2>3. ~Among({"COMREADY"}, Tail(mbox))
    BY <1>1, <1>7, <1>10, <1>12, MainQueue
  <2>4. Single({"COMREADY"}, mbox') /\ (Among({"COMREADY"}, mbox') => state = "wait")
    BY <1>1, <1>7, <1>10, <1>11, <2>3, MainQueue
  <2> QED BY <1>7, <1>12, <2>1, <2>2, <2>4 DEF Undisturbed, Waiting
<1>14. Replied'
  BY <1>1, <1>7, <1>10, <1>11, MainReplied DEF ReplyInv
<1>15. CommandSound'
  <2>1. SameCmd(dl', dl) /\ dl'.mdh = dl.mdh /\ (dl'.mode = "STARTUP" /\ dl.mdh = "OPERATE" => dl.mode = "STARTUP")
    BY <1>7 DEF SameCmd
  <2>2. dl.mdh = "OPERATE" => ~Waiting("SMI_CFG")' /\ ~Waiting("SM_CFG")'
    BY <1>1, <1>2, <1>7, <1>10, <1>11, NoneWaiting
  <2>3. Up(dl)
    BY <1>4 DEF Held
  <2> QED BY <1>1, <1>3, <1>6, <1>7, <1>10, <1>11, <2>1, <2>2, <2>3, SmCommand DEF ReplyInv, Confirming, Uncommanding
<1>16. Awaited'
  BY <1>1, <1>6, <1>7, <1>10, <1>11, SmAwaitsNone DEF ReplyInv, SmIdle, CompatStates
<1> QED BY <1>13, <1>14, <1>15, <1>16 DEF ReplyInv

(* The device was reported, and the CM and the DS have done with it. *)
LEMMA OperateReply ==
  ASSUME TypeInv, PortInv, ReplyInv, SmStill, SmOperate PROVE ReplyInv'
<1>1. mbox # <<>> /\ Head(mbox).type = "SM_OPERATE" /\ Kind(Head(mbox)) = "SM_OPERATE" /\ MboxTyped
  BY SmFacts, HeadKind DEF SmOperate, Take, Plain, JobTypes
<1>2. Kind(Head(mbox)) \in Loud \cap RestJobs /\ Among(RestJobs, mbox)
  BY <1>1, MainHead DEF Loud, Calm, JobTypes, RestJobs
<1>3. CASE SmIgnore
  BY <1>1, <1>3, SmIgnoreReply DEF Asked
<1>4. ASSUME sm = "wait", NEW s \in Seq(PortJob), TakeAndPost(s), dl' = dl,
             sm' \in {"SMOperate", "write_master_cycl"},
             ~Among(Upsets, s), ~Among(RestJobs, s), ~Among({"COMREADY"}, s), ~Among({"ISDU_CNF"}, s),
             ~Among({"SMI_CFG"}, s), ~Among({"SM_CFG"}, s)
      PROVE  Undisturbed' /\ Replied' /\ CommandSound'
  <2>1. UNCHANGED <<svc, dsState, linked>>
    BY DEF SmStill
  <2>2. ~Early' /\ sm' # "checkSerNum"
    BY <1>4 DEF PortInv, Moded, Early, Starting, Reading
  <2>3. ~Waiting("COMREADY")
    BY <1>2 DEF ReplyInv, Undisturbed, Resting
  <2>4. Undisturbed'
    BY <1>1, <1>4, <2>1, <2>2, <2>3, SmUndisturbed DEF ReplyInv
  <2>5. Replied'
    BY <1>1, <1>4, <2>1, MainReplied DEF ReplyInv
  <2>6. SameCmd(dl', dl) /\ dl'.mdh = dl.mdh /\ (dl'.mode = "STARTUP" /\ dl.mdh = "OPERATE" => dl.mode = "STARTUP")
    BY <1>4 DEF SameCmd
  <2>7. dl.mdh = "OPERATE" => ~Waiting("SMI_CFG")' /\ ~Waiting("SM_CFG")'
    BY <1>1, <1>2, <1>4, NoneWaiting
  <2>8. CommandSound'
    BY <1>1, <1>4, <2>6, <2>7, SmCommand DEF ReplyInv, Confirming, Uncommanding
  <2> QED BY <2>4, <2>5, <2>8
<1>5. CASE sm = "wait" /\ SmEnter("SMOperate", dl, <<Signal("OPERATE")>>)
  <2> DEFINE s == <<Signal("OPERATE")>>
  <2>1. Says(s) /\ sm' = "SMOperate" /\ dl' = dl /\ TakeAndPost(s)
    BY <1>5, FaultSaid DEF SmEnter
  <2> HIDE DEF s
  <2>2. /\ s \in Seq(PortJob)
        /\ ~Among(Upsets, s) /\ ~Among(RestJobs, s) /\ ~Among({"COMREADY"}, s) /\ ~Among({"ISDU_CNF"}, s)
        /\ ~Among({"SMI_CFG"}, s) /\ ~Among({"SM_CFG"}, s) /\ Lacks(Misnamed, s)
    BY <2>1, SaysNone
  <2>3. Undisturbed' /\ Replied' /\ CommandSound'
    BY <1>4, <1>5, <2>1, <2>2
  <2>4. Awaited'
    BY <1>1, <2>1, <2>2, SmAwaitsNone DEF ReplyInv, SmIdle, CompatStates
  <2> QED BY <2>3, <2>4 DEF ReplyInv
<1>6. CASE sm = "wait" /\ SmEnter("write_master_cycl", dl, <<WriteReq("CYCL", 0)>>)
  <2> DEFINE x == WriteReq("CYCL", 0)
             s == <<x>>
  <2>1. sm' = "write_master_cycl" /\ dl' = dl /\ TakeAndPost(s)
    BY <1>6 DEF SmEnter
  <2>2. x \in PortJob /\ Kind(x) = "CYCL"
    <3>1. "CYCL" \in Indexes \cup {"CMD"} /\ 0 \in 0 .. N
      BY ListFacts DEF Indexes
    <3> QED BY <3>1, WriteIsJob, RequestKind
  <2>3. x.index = "CYCL"
    BY DEF WriteReq, Signal
  <2> HIDE DEF x
  <2>4. /\ Among(Upsets, s) <=> Kind(x) \in Upsets
        /\ Among(RestJobs, s) <=> Kind(x) \in RestJobs
        /\ Among({"COMREADY"}, s) <=> Kind(x) \in {"COMREADY"}
        /\ Among({"ISDU_CNF"}, s) <=> Kind(x) \in {"ISDU_CNF"}
        /\ Among({"SMI_CFG"}, s) <=> Kind(x) \in {"SMI_CFG"}
        /\ Among({"SM_CFG"}, s) <=> Kind(x) \in {"SM_CFG"}
        /\ Among({"CYCL"}, s) <=> Kind(x) \in {"CYCL"}
        /\ Lacks(Misnamed, s) <=> x \notin Misnamed
    BY AmongFew, LacksFew
  <2>5. s \in Seq(PortJob)
    BY <2>2
  <2>6. /\ ~Among(Upsets, s) /\ ~Among(RestJobs, s) /\ ~Among({"COMREADY"}, s) /\ ~Among({"ISDU_CNF"}, s)
        /\ ~Among({"SMI_CFG"}, s) /\ ~Among({"SM_CFG"}, s) /\ Among({"CYCL"}, s) /\ Lacks(Misnamed, s)
    BY <2>2, <2>3, <2>4 DEF Upsets, RestJobs, Misnamed
  <2> HIDE DEF s
  <2>7. Undisturbed' /\ Replied' /\ CommandSound'
    BY <1>4, <1>6, <2>1, <2>5, <2>6
  <2>8. Among({"CYCL"}, mbox') /\ Lacks(Misnamed, mbox')
    BY <1>1, <2>1, <2>5, <2>6, MainQueue DEF ReplyInv, Awaited
  <2>9. Awaited'
    BY <2>1, <2>8 DEF Awaited, CompatStates, Reaching, Serviced, Waiting
  <2> QED BY <2>7, <2>9 DEF ReplyInv
<1> QED BY <1>3, <1>5, <1>6 DEF SmOperate

(* What the DL does with a command of the SM. *)
LEMMA CommandTaken ==
  ASSUME NEW d \in DlRecord, NEW cmd \in Cmds, d.mdh # "STARTUP"
  PROVE  LET e == DL_Write_Devicemode_req(d, cmd)
         IN  /\ e.mdh = d.mdh /\ e.mode = d.mode /\ e.isdu = d.isdu
             /\ Dormant(d) => Dormant(e)
             /\ cmd = "OPERATE" => DevmodeAnswer(d, cmd) = <<>>
             /\ DevmodeAnswer(d, cmd) \in {<<>>, <<DevmodeCnf("OK")>>}
<1> DEFINE f == [d EXCEPT !.cmd = cmd, !.code = TRUE]
<1>1. DL_Write_Devicemode_req(d, cmd) = CmdHandler(f)
  BY DEF DL_Write_Devicemode_req
<1>2. f \in DlRecord /\ f.mdh = d.mdh /\ f.mode = d.mode /\ f.isdu = d.isdu
  BY DlShape
<1>3. Dormant(d) => Dormant(CmdHandler(f))
  BY DlShape DEF CmdHandler, Dormant, Cmdhs
<1> HIDE DEF f
<1>4. CmdHandler(f).mdh = f.mdh /\ CmdHandler(f).mode = f.mode /\ CmdHandler(f).isdu = f.isdu
  BY <1>2, CmdHandlerFields
<1>5. /\ cmd = "OPERATE" => DevmodeAnswer(d, cmd) = <<>>
      /\ DevmodeAnswer(d, cmd) \in {<<>>, <<DevmodeCnf("OK")>>}
  BY DEF DevmodeAnswer
<1> QED BY <1>1, <1>2, <1>3, <1>4, <1>5

(* The cycle time is written: the device is sent the command OPERATE. *)
LEMMA CyclReply ==
  ASSUME TypeInv, PortInv, StoreInv, ReplyInv, SmStill, SmCyclCnf PROVE ReplyInv'
<1>1. mbox # <<>> /\ Head(mbox).type = "CYCL_CNF" /\ Kind(Head(mbox)) = "CYCL" /\ MboxTyped /\ dl \in DlRecord
  BY SmFacts, HeadKind DEF SmCyclCnf, Take
<1>2. Waiting("CYCL") /\ Kind(Head(mbox)) \in Loud
  BY <1>1, HeadWaits DEF Loud, Calm
<1>3. sm = "write_master_cycl"
  BY <1>2 DEF PortInv, Serving
<1>4. CASE EventCnfComlost
  BY <1>1, <1>2, <1>3, <1>4, EventCnfReply
<1>5. CASE SmEnter("wait_devmode_cnf", DL_Write_Devicemode_req(dl, "OPERATE"), DevmodeAnswer(dl, "OPERATE"))
  <2>1. dl.mdh \in {"PREOPERATE", "OPERATE", "IDLE"} /\ Lacks(CmdOk, mbox)
    BY <1>3 DEF ReplyInv, CommandSound, Confirming
  <2> DEFINE s == DevmodeAnswer(dl, "OPERATE")
  <2>2. sm' = "wait_devmode_cnf" /\ dl' = DL_Write_Devicemode_req(dl, "OPERATE") /\ TakeAndPost(s)
    BY <1>5 DEF SmEnter
  <2>3. "OPERATE" \in Cmds
    BY DEF Cmds
  <2>4. /\ dl'.mdh = dl.mdh /\ dl'.mode = dl.mode /\ dl'.isdu = dl.isdu
        /\ Dormant(dl) => Dormant(dl')
        /\ s = <<>>
    BY <1>1, <2>1, <2>2, <2>3, CommandTaken
  <2> HIDE DEF s
  <2>5. s \in Seq(PortJob) /\ DOMAIN s = {}
    <3>1. <<>> \in Seq(PortJob) /\ DOMAIN <<>> = {}
      BY EmptyPost
    <3> QED BY <2>4, <3>1
  <2>6. (\A K : ~Among(K, s)) /\ (\A X : Lacks(X, s))
    BY <2>5 DEF Among, Lacks
  <2>7. UNCHANGED <<svc, dsState, linked>>
    BY DEF SmStill
  <2>8. Undisturbed'
    <3>1. ~Early' /\ sm' # "checkSerNum"
      BY <1>3, <2>2, <2>4 DEF PortInv, Moded, Early, Starting, Reading
    <3>2. ~Waiting("COMREADY")
      BY <1>3 DEF ReplyInv, Undisturbed
    <3> QED BY <1>1, <2>2, <2>5, <2>6, <2>7, <3>1, <3>2, SmUndisturbed DEF ReplyInv
  <2>9. Replied'
    BY <1>1, <2>2, <2>4, <2>5, <2>6, <2>7, MainReplied DEF ReplyInv
  <2>10. CommandSound'
    <3>1. dl.mode # "STARTUP"
      BY <1>3 DEF PortInv, Moded
    <3>2. Lacks(CmdOk, mbox')
      BY <1>1, <2>1, <2>2, <2>5, <2>6, MainQueue
    <3>3. dl'.mdh = "OPERATE" => ~Waiting("SMI_CFG")' /\ ~Waiting("SM_CFG")'
      BY <1>1, <1>2, <2>2, <2>4, <2>5, <2>6, NoneWaiting
    <3>4. dl'.mdh = "IDLE" => Dormant(dl')
      BY <2>4 DEF ReplyInv, CommandSound
    <3> QED BY <2>1, <2>2, <2>4, <3>1, <3>2, <3>3, <3>4 DEF CommandSound, Confirming, Uncommanding
  <2>11. Awaited'
    BY <1>1, <2>2, <2>5, <2>6, SmAwaitsNone DEF ReplyInv, SmIdle, CompatStates
  <2> QED BY <2>8, <2>9, <2>10, <2>11 DEF ReplyInv
<1> QED BY <1>3, <1>4, <1>5 DEF SmCyclCnf

(* The device has confirmed a command: it goes to OPERATE, or to sleep. *)
LEMMA DevmodeReply ==
  ASSUME TypeInv, PortInv, StoreInv, ReplyInv, SmStill, SmDevmodeCnf PROVE ReplyInv'
<1>1. /\ mbox # <<>> /\ Head(mbox).type = "DEVMODE_CNF" /\ Kind(Head(mbox)) = "DEVMODE_CNF"
      /\ Kind(Head(mbox)) \in Upsets /\ MboxTyped /\ dl \in DlRecord
  BY SmFacts, ModeHead DEF SmDevmodeCnf, Take
<1>2. CASE Head(mbox).res = "OK" /\ sm = "wait_devmode_cnf" /\ SmSetOperate("SMOperate", smReal.id, <<>>)
  <2> DEFINE s == <<>>
  <2>1. sm' = "SMOperate" /\ dl' = DL_SetMode_req(dl, "OPERATE") /\ TakeAndPost(s) /\ Says(s)
    BY <1>2, FaultSaid DEF SmSetOperate
  <2> HIDE DEF s
  <2>2. /\ s \in Seq(PortJob)
        /\ ~Among(Upsets, s) /\ ~Among(RestJobs, s) /\ ~Among({"COMREADY"}, s) /\ ~Among({"ISDU_CNF"}, s)
        /\ ~Among({"SMI_CFG"}, s) /\ ~Among({"SM_CFG"}, s) /\ Lacks(Misnamed, s)
    BY <2>1, SaysNone
  <2>3. SameCmd(dl', dl) /\ dl'.mdh = dl.mdh /\ dl'.isdu = dl.isdu /\ dl'.mode = "OPERATE"
    BY <1>1, <2>1, DlShape DEF SameCmd, DL_SetMode_req
  <2>4. UNCHANGED <<svc, dsState, linked>>
    BY DEF SmStill
  <2>5. Undisturbed'
    <3>1. ~Early' /\ sm' # "checkSerNum"
      BY <2>1, <2>3 DEF Early, Starting, Reading
    <3>2. ~Waiting("COMREADY")
      BY <1>2 DEF ReplyInv, Undisturbed
    <3> QED BY <1>1, <2>1, <2>2, <2>4, <3>1, <3>2, SmUndisturbed DEF ReplyInv
  <2>6. Replied'
    BY <1>1, <2>1, <2>2, <2>3, <2>4, MainReplied DEF ReplyInv
  <2>7. CommandSound'
    <3>1. Head(mbox) \in CmdOk
      BY <1>1, <1>2, HeadFacts DEF CmdOk
    <3>2. ~Lacks(CmdOk, mbox)
      BY <1>1, <3>1, LacksTail DEF MboxTyped
    <3>3. Up(dl) => Unsent(dl)
      BY <1>2, <3>2 DEF ReplyInv, CommandSound
    <3>4. dl.mdh = "OPERATE" => ~Waiting("SMI_CFG")' /\ ~Waiting("SM_CFG")'
      BY <1>1, <2>1, <2>2, NoneWaiting
    <3> QED BY <1>1, <1>2, <2>1, <2>2, <2>3, <3>3, <3>4, SmCommand DEF ReplyInv, Confirming
  <2>8. Awaited'
    BY <1>1, <2>1, <2>2, SmAwaitsNone DEF ReplyInv, SmIdle, CompatStates
  <2> QED BY <2>5, <2>6, <2>7, <2>8 DEF ReplyInv
<1>3. CASE sm = "waitForFallback" /\ ToInactive(DL_SetMode_req(dl, "INACTIVE"))
  <2> DEFINE s == <<>>
  <2>1. sm' = "PortInactive" /\ dl' = DL_SetMode_req(dl, "INACTIVE") /\ TakeAndPost(s) /\ Says(s)
    BY <1>3, FaultSaid DEF ToInactive, SmEnter
  <2> HIDE DEF s
  <2>2. SameCmd(dl', dl) /\ dl'.mdh = dl.mdh /\ dl'.isdu = dl.isdu /\ dl'.mode = "INACTIVE"
    BY <1>1, <2>1, DlShape DEF SameCmd, DL_SetMode_req
  <2> QED BY <1>1, <2>1, <2>2, PortDown
<1>4. CASE sm = "wait_devmode_cnf" /\ EventCnfComlost
  BY <1>1, <1>4, EventCnfReply
<1>5. CASE EventModeComlost
  BY <1>1, <1>5, EventModeReply
<1> QED BY <1>2, <1>3, <1>4, <1>5 DEF SmDevmodeCnf

(* The SM is configured, or sends the device back first. *)
LEMMA SetPortConfigReply ==
  ASSUME TypeInv, PortInv, StoreInv, ReplyInv, SmStill, SmSetPortConfig PROVE ReplyInv'
<1> DEFINE cfg == Head(mbox).cfg
           quiet == [dl EXCEPT !.wurq = FALSE]
<1>1. mbox # <<>> /\ Take("SM_CFG") /\ (SmCfgCom(cfg) \/ SmCfgDiDo(cfg) \/ SmCfgInactive(cfg))
  BY DEF SmSetPortConfig, Take
<1>2. /\ Kind(Head(mbox)) = "SM_CFG" /\ Waiting("SM_CFG") /\ sm \in SmRest /\ ~Among(Loud, mbox)
      /\ dl.mdh \notin {"ESTCOM", "STARTUP"} /\ (dl.mode = "STARTUP" => dl.mdh = "IDLE")
  BY <1>1, CfgHead
<1>3. /\ dl \in DlRecord /\ quiet \in DlRecord /\ quiet.mdh = dl.mdh /\ quiet.isdu = dl.isdu
      /\ SameCmd(quiet, dl) /\ MboxTyped
  BY SmFacts, DlShape DEF SameCmd
<1>4. SameCmd(dl, dl)
  BY DEF SameCmd
<1> HIDE DEF cfg, quiet
<1>5. ASSUME NEW d \in {dl, quiet}, NEW mode \in {"STARTUP", "INACTIVE"}, dl' = DL_SetMode_req(d, mode),
             sm' \in {"PortInactive", "DIDO"}, TakeAndPost(<<>>)
      PROVE  ReplyInv'
  <2> DEFINE s == <<>>
  <2>1. TakeAndPost(s) /\ Says(s)
    BY <1>5, FaultSaid
  <2> HIDE DEF s
  <2>2. SameCmd(dl', dl) /\ dl'.mdh = dl.mdh /\ dl'.isdu = dl.isdu /\ dl'.mode = mode
    BY <1>3, <1>4, <1>5, DlShape DEF SameCmd, DL_SetMode_req
  <2> QED BY <1>1, <1>2, <1>5, <2>1, <2>2, PortDown
<1>6. CASE SmCfgCom(cfg)
  BY <1>5, <1>6 DEF SmCfgCom, ToInactive, SmEnter, quiet
<1>7. CASE SmCfgDiDo(cfg)
  BY <1>2, <1>5, <1>7 DEF SmCfgDiDo, SmEnter, SmRest, quiet
<1>8. CASE SmCfgInactive(cfg) /\ sm \in {"PortInactive", "DIDO"}
  BY <1>5, <1>8 DEF SmCfgInactive, ToInactive, SmEnter
<1>9. CASE SmCfgInactive(cfg) /\ sm \notin {"PortInactive", "DIDO"}
  <2> DEFINE s == DevmodeAnswer(dl, "FALLBACK")
             x == DevmodeCnf("OK")
  <2>1. sm' = "waitForFallback" /\ dl' = DL_Write_Devicemode_req(dl, "FALLBACK") /\ TakeAndPost(s)
    BY <1>9 DEF SmCfgInactive, SmEnter
  <2>2. "FALLBACK" \in Cmds
    BY DEF Cmds
  <2>3. /\ dl'.mdh = dl.mdh /\ dl'.mode = dl.mode /\ dl'.isdu = dl.isdu
        /\ Dormant(dl) => Dormant(dl')
        /\ s \in {<<>>, <<x>>}
    BY <1>2, <1>3, <2>1, <2>2, CommandTaken
  <2>4. x \in PortJob /\ Kind(x) = "DEVMODE_CNF"
    BY ModeKinds, ResultNames
  <2> HIDE DEF s, x
  <2>5. s \in Seq(PortJob) /\ \A i \in DOMAIN s : Kind(s[i]) = "DEVMODE_CNF"
    <3>1. CASE s = <<>>
      BY <3>1, EmptyPost
    <3>2. CASE s = <<x>>
      BY <2>4, <3>2
    <3> QED BY <2>3, <3>1, <3>2
  <2>6. \A K : "DEVMODE_CNF" \notin K => ~Among(K, s)
    BY <2>5 DEF Among
  <2>7. /\ ~Among(RestJobs, s) /\ ~Among({"COMREADY"}, s) /\ ~Among({"ISDU_CNF"}, s)
        /\ ~Among({"SMI_CFG"}, s) /\ ~Among({"SM_CFG"}, s)
    BY <2>6 DEF RestJobs
  <2>8. Lacks(Misnamed, s)
    BY <2>5 DEF Lacks, Misnamed
  <2>9. UNCHANGED <<svc, dsState, linked>>
    BY DEF SmStill
  <2>10. AtEase
    <3>1. ~Among(RestJobs, mbox) /\ ~Among({"COMREADY"}, mbox)
      BY <1>2 DEF Among, Loud, Calm, JobTypes, RestJobs
    <3> QED BY <1>2, <3>1 DEF AtEase, Resting, Waiting, StoreInv, PartsSound
  <2>11. Undisturbed'
    BY <1>1, <1>3, <2>1, <2>5, <2>7, <2>9, <2>10, SmUndisturbed DEF ReplyInv, AtEase
  <2>12. Replied'
    BY <1>1, <1>3, <2>1, <2>3, <2>5, <2>7, <2>9, MainReplied DEF ReplyInv
  <2>13. ~Waiting("SMI_CFG")' /\ ~Waiting("SM_CFG")'
    <3>1. Single({"SMI_CFG", "SM_CFG"}, mbox) /\ Kind(Head(mbox)) \in {"SMI_CFG", "SM_CFG"}
      BY <1>2 DEF PortInv, Configuring
    <3>2. ~Among({"SMI_CFG", "SM_CFG"}, Tail(mbox))
      BY <1>1, <1>3, <2>1, <2>5, <3>1, MainQueue
    <3>3. ~Among({"SMI_CFG"}, Tail(mbox)) /\ ~Among({"SM_CFG"}, Tail(mbox))
      BY <3>2 DEF Among
    <3> QED BY <1>1, <1>3, <2>1, <2>5, <2>7, <3>3, MainQueue DEF Waiting
  <2>14. CommandSound'
    <3>1. dl'.mdh = "IDLE" => Dormant(dl')
      BY <2>3 DEF ReplyInv, CommandSound
    <3> QED BY <1>2, <2>1, <2>3, <2>13, <3>1 DEF CommandSound, Confirming, Uncommanding
  <2>15. Awaited'
    BY <1>1, <1>3, <2>1, <2>5, <2>8, SmAwaitsNone DEF ReplyInv, SmIdle, CompatStates
  <2> QED BY <2>11, <2>12, <2>14, <2>15 DEF ReplyInv
<1> QED BY <1>1, <1>6, <1>7, <1>8, <1>9

LEMMA SmReply ==
  ASSUME TypeInv, PortInv, StoreInv, ReplyInv, SmStep PROVE ReplyInv'
<1>1. SmJob /\ SmStill
  BY DEF SmStep, SmStill, cmVars, envVars
<1>2. ~SmConfigDropped
  BY CfgHead DEF SmConfigDropped
<1> QED BY <1>1, <1>2, SetPortConfigReply, ModeIndReply, ReadCnfReply, WriteCnfReply, SernumReply,
           OperateReply, CyclReply, DevmodeReply DEF SmJob

-----------------------------------------------------------------------------
(* The invariant, and what it gives.                                       *)

LEMMA ReplyStep ==
  ASSUME Orderly, ~Parallel, OwnSets, ~Refuses
  PROVE  TypeInv /\ PortInv /\ StoreInv /\ ReplyInv /\ [Next]_vars => ReplyInv'
<1> SUFFICES ASSUME TypeInv, PortInv, StoreInv, ReplyInv, [Next]_vars PROVE ReplyInv'
  OBVIOUS
<1>1. dl' \in DlRecord
  <2>1. TypeInv'
    BY TypeStep
  <2> QED BY <2>1 DEF TypeInv, DlTypeOK
<1>2. CASE MainThread
  BY <1>2, CmReply, DsReply, SmReply, AlBusyReply, AlServiceReply, AlConfirmReply DEF MainThread
<1>3. CASE DlThread \/ DevAnswers \/ DlWakeUpFailed \/ DevRefuses
  BY <1>1, <1>3, LinkReply DEF DlThread
<1>4. CASE LocalChange \/ LinkLost \/ NewDevice \/ SMI_PortConfiguration_req \/ SMI_ParServToDS_req
  BY <1>4, LocalChangeReply, RestReply
<1>5. CASE UNCHANGED vars
  <2>1. UNCHANGED ReplyVars
    BY <1>5 DEF ReplyVars, vars, dsVars, smVars, dlVars
  <2> QED BY <2>1, ReplyUnchanged
<1> QED BY <1>2, <1>3, <1>4, <1>5 DEF Next, Environment

LEMMA ReplyAlways ==
  ASSUME Orderly, ~Parallel, OwnSets, ~Refuses PROVE Spec => [](TypeInv /\ PortInv /\ StoreInv /\ ReplyInv)
<1>1. Init => TypeInv /\ PortInv /\ StoreInv /\ ReplyInv
  BY TypeStart, PortStart, StoreStart, ReplyStart
<1>2. TypeInv /\ PortInv /\ StoreInv /\ ReplyInv /\ [Next]_vars => (TypeInv /\ PortInv /\ StoreInv /\ ReplyInv)'
  BY TypeStep, PortStep, StoreStep, ReplyStep
<1> QED BY <1>1, <1>2, PTL DEF Spec

(* A kind that waits stands for a job. *)
LEMMA KindJobs ==
  ASSUME MboxTyped, NEW K, Among(K, mbox)
  PROVE  \E j \in Jobs : /\ Kind(j) \in K /\ j.type \in JobTypes
                         /\ \A X : Lacks(X, mbox) => j \notin X
                         /\ j \in PortJob
<1>1. PICK i \in DOMAIN mbox : Kind(mbox[i]) \in K
  BY DEF Among
<1>2. mbox[i] \in PortJob
  BY <1>1 DEF MboxTyped
<1>3. mbox[i].type \in JobTypes
  BY <1>2 DEF PortJob, Job
<1>4. mbox[i] \in Jobs
  BY <1>1 DEF Jobs, Range
<1> QED BY <1>1, <1>2, <1>3, <1>4 DEF Lacks

LEMMA AnsweredSoFar ==
  ASSUME TypeInv, PortInv, ReplyInv PROVE SmAnswered
<1>1. MboxTyped
  BY SmFacts
<1>2. Token => BlockPending
  <2>1. BlockOut => BlockPending
    BY DEF BlockOut, PortInv, Asking, Ready, BlockPending
  <2>2. Among(Asked, mbox) => \E j \in Jobs : Kind(j) \in Asked /\ j.type \in JobTypes
    BY <1>1, KindJobs
  <2>3. \A j : Kind(j) \in Asked /\ j.type \in JobTypes => j.type \in {"DL_READ_CNF", "DL_WRITE_CNF"}
    BY DEF Kind, Asked, JobTypes, Requests
  <2> QED BY <2>1, <2>2, <2>3 DEF Token, BlockPending
<1>3. ASSUME NEW state, NEW mode, NEW job \in {"MODE_PREOPERATE", "MODE_OPERATE"},
             Reaching(state, mode, job), sm = state, ~Token
      PROVE  ModePending
  <2>1. CASE dl.event
    BY <2>1 DEF ModePending
  <2>2. CASE Among({job}, mbox)
    <3>1. PICK j \in Jobs : Kind(j) = job /\ j.type \in JobTypes
      BY <1>1, <2>2, KindJobs
    <3>2. j.type = job
      BY <3>1 DEF Kind, JobTypes, Requests
    <3> QED BY <3>1, <3>2 DEF ModePending, ModeJobs
  <2> QED BY <1>3, <2>1, <2>2 DEF Reaching, Waiting
<1>4. ASSUME NEW index \in {"SERNUM", "CYCL"}, Serviced(index), Lacks(Misnamed, mbox)
      PROVE  ServicePending({index})
  <2>1. CASE Among({index}, mbox)
    <3>1. PICK j \in Jobs : Kind(j) = index /\ j.type \in JobTypes /\ j \notin Misnamed /\ j \in PortJob
      BY <1>1, <1>4, <2>1, KindJobs
    <3>2. j.type \in {"AL_READ_REQ", "AL_WRITE_REQ", "SERNUM_CNF", "CYCL_CNF"}
      BY <3>1 DEF Kind, JobTypes, Requests
    <3>3. j.index = index
      BY <3>1 DEF Misnamed
    <3> QED BY <3>1, <3>2, <3>3 DEF ServicePending
  <2>2. CASE svc # NoSvc /\ svc.index = index
    BY <2>2 DEF ServicePending
  <2> QED BY <1>4, <2>1, <2>2 DEF Serviced, Waiting
<1>5. sm \in CompatStates /\ ~smAux.retry => BlockPending
  BY <1>2 DEF ReplyInv, Awaited
<1>6. sm \in {"waitonDLPreoperate", "waitonDLOperate"} => BlockPending \/ ModePending
  BY <1>2, <1>3 DEF ReplyInv, Awaited
<1>7. sm = "checkSerNum" => ServicePending({"SERNUM"})
  BY <1>4 DEF ReplyInv, Awaited
<1>8. sm = "write_master_cycl" => ServicePending({"CYCL"})
  BY <1>4 DEF ReplyInv, Awaited
<1> QED BY <1>5, <1>6, <1>7, <1>8 DEF SmAnswered

(* On such a port, whatever the devices, configurations, refusals of other *)
(* services, losses of communication and changes of the device, on one     *)
(* core with the DL thread at the higher priority (~Parallel): while the   *)
(* SM looks at the device, what it waits for is at work or in the mailbox. *)
(* In these states it ignores that communication was lost (comlost_ignore),*)
(* so a block that is dropped with the DL, a mode that is never indicated  *)
(* or a service that the loss takes away would end the port for good.      *)
(* OwnSets is not about the SM; the invariant of the store that this one   *)
(* stands on needs it.                                                     *)
THEOREM SmNeverStranded ==
  ASSUME Orderly, ~Parallel, OwnSets, ~Refuses PROVE Spec => []SmAnswered
<1>1. TypeInv /\ PortInv /\ StoreInv /\ ReplyInv => SmAnswered
  BY AnsweredSoFar
<1> QED BY <1>1, ReplyAlways, PTL
=============================================================================

-------------------------- MODULE DeviceEventsProofs --------------------------
(***************************************************************************)
(* DeviceEvents: for any sets of events, any length of the event memory,   *)
(* any losses, restarts and changes of the port, as far as Calm, Prompt    *)
(* and Paced keep device, application and master out of each other's way,  *)
(* every set is read whole and handed over before it is confirmed, and the *)
(* application layer reports each as one.                                  *)
(***************************************************************************)
EXTENDS DeviceEvents, FiniteSetTheorems, TLAPS

(* What the run events assumes; DeviceEvents fails without each of them.   *)
Undisturbed == Calm /\ Prompt /\ Paced

-----------------------------------------------------------------------------
(* Sequences of no set and of one, and the order of the bits of a set.     *)

(* Nothing signalled is nothing to post. *)
LEMMA FlattenNone == FlattenSeq(<<>>) = <<>>
  BY DEF FlattenSeq

(* One set signalled is posted as it is. *)
LEMMA FlattenOne ==
  ASSUME NEW x
  PROVE  FlattenSeq(<<x>>) = x
<1>1. Len(<<x>>) = 1 /\ <<x>>[1] = x
  OBVIOUS
<1> DEFINE F(g) == [i \in 1 .. 1 |-> IF i = 1 THEN <<x>>[i] ELSE g[i - 1] \o <<x>>[i]]
<1> DEFINE one == [i \in 1 .. 1 |-> x]
<1>2. F(one) = one
  BY <1>1
<1>3. \E g : g = F(g)
  BY <1>2
<1>4. PICK f : f = (CHOOSE g : g = F(g))
  OBVIOUS
<1>5. f = F(f)
  BY <1>3, <1>4
<1>6. f[1] = x
  BY <1>5, <1>1
<1> QED
  BY <1>1, <1>4, <1>6 DEF FlattenSeq

Below(S, s) == {t \in S : t < s}

(* A rank counts the others of the set, at most. *)
LEMMA RankBounds ==
  ASSUME NEW S \in SUBSET Nat, IsFiniteSet(S), NEW s \in S
  PROVE  Rank(S, s) \in 0 .. Cardinality(S) - 1
<1>1. Below(S, s) \in SUBSET (S \ {s})
  BY DEF Below
<1>2. IsFiniteSet(S \ {s}) /\ Cardinality(S \ {s}) = Cardinality(S) - 1
  BY FS_RemoveElement
<1>3. Cardinality(S) \in Nat
  BY FS_CardinalityType
<1>4. Cardinality(Below(S, s)) <= Cardinality(S) - 1 /\ IsFiniteSet(Below(S, s))
  BY <1>1, <1>2, FS_Subset
<1>5. Cardinality(Below(S, s)) \in Nat
  BY <1>4, FS_CardinalityType
<1> QED BY <1>3, <1>4, <1>5 DEF Rank, Below

(* The greater slot has the greater rank. *)
LEMMA RankGrows ==
  ASSUME NEW S \in SUBSET Nat, IsFiniteSet(S), NEW s \in S, NEW t \in S, s < t
  PROVE  Rank(S, s) < Rank(S, t)
<1>1. Below(S, s) \in SUBSET (Below(S, t) \ {s}) /\ s \in Below(S, t)
  <2>1. \A x \in Below(S, s) : x \in Below(S, t) /\ x # s
    BY DEF Below
  <2> QED BY <2>1 DEF Below
<1>2. IsFiniteSet(Below(S, t))
  BY FS_Subset DEF Below
<1>3. /\ IsFiniteSet(Below(S, t) \ {s})
      /\ Cardinality(Below(S, t) \ {s}) = Cardinality(Below(S, t)) - 1
  BY <1>1, <1>2, FS_RemoveElement
<1>4. Cardinality(Below(S, s)) <= Cardinality(Below(S, t)) - 1
  BY <1>1, <1>3, FS_Subset
<1>5. Cardinality(Below(S, s)) \in Nat /\ Cardinality(Below(S, t)) \in Nat
  BY <1>2, FS_Subset, FS_CardinalityType DEF Below
<1> QED BY <1>4, <1>5 DEF Rank, Below

(* Every rank is taken: there are as many as elements. *)
LEMMA RankOnto ==
  ASSUME NEW S \in SUBSET Nat, IsFiniteSet(S), NEW n \in 0 .. Cardinality(S) - 1
  PROVE  \E s \in S : Rank(S, s) = n
<1> DEFINE T == 0 .. Cardinality(S) - 1
<1> DEFINE f == [s \in S |-> Rank(S, s)]
<1>1. Cardinality(S) \in Nat
  BY FS_CardinalityType
<1>2. f \in [S -> T]
  BY RankBounds
<1>3. \A s, t \in S : f[s] = f[t] => s = t
  <2> SUFFICES ASSUME NEW s \in S, NEW t \in S, s # t PROVE f[s] # f[t]
    OBVIOUS
  <2>1. CASE s < t
    BY <2>1, RankGrows, RankBounds
  <2>2. CASE t < s
    BY <2>2, RankGrows, RankBounds
  <2> QED BY <2>1, <2>2
<1>4. f \in Injection(S, T)
  BY <1>2, <1>3 DEF Injection, IsInjective
<1>5. IsFiniteSet(T) /\ Cardinality(T) = Cardinality(S)
  BY <1>1, FS_Interval
<1>6. f \in Surjection(S, T)
  BY <1>4, <1>5, FS_Injection
<1> QED BY <1>6 DEF Surjection

(* Ranks are ordered as the slots are. *)
LEMMA RankOrder ==
  ASSUME NEW S \in SUBSET Nat, IsFiniteSet(S), NEW s \in S, NEW t \in S
  PROVE  /\ Rank(S, s) = Rank(S, t) <=> s = t
         /\ Rank(S, s) < Rank(S, t) <=> s < t
<1>1. Rank(S, s) \in Nat /\ Rank(S, t) \in Nat
  BY RankBounds
<1>2. CASE s < t
  BY <1>1, <1>2, RankGrows
<1>3. CASE t < s
  BY <1>1, <1>3, RankGrows
<1>4. CASE s = t
  BY <1>1, <1>4
<1> QED BY <1>2, <1>3, <1>4

(* The i-th in ascending order is the one with i - 1 below it. *)
LEMMA AscendingElements ==
  ASSUME NEW S \in SUBSET Nat, IsFiniteSet(S)
  PROVE  /\ Ascending(S) \in Seq(S)
         /\ Len(Ascending(S)) = Cardinality(S)
         /\ \A i \in 1 .. Cardinality(S) :
               Ascending(S)[i] \in S /\ Rank(S, Ascending(S)[i]) = i - 1
<1>1. Cardinality(S) \in Nat
  BY FS_CardinalityType
<1>2. \A i \in 1 .. Cardinality(S) :
         Ascending(S)[i] \in S /\ Rank(S, Ascending(S)[i]) = i - 1
  <2> SUFFICES ASSUME NEW i \in 1 .. Cardinality(S)
               PROVE  Ascending(S)[i] \in S /\ Rank(S, Ascending(S)[i]) = i - 1
    OBVIOUS
  <2>1. i - 1 \in 0 .. Cardinality(S) - 1
    BY <1>1
  <2>2. \E s \in S : Rank(S, s) = i - 1
    BY <2>1, RankOnto
  <2>3. Ascending(S)[i] = CHOOSE s \in S : Rank(S, s) = i - 1
    BY DEF Ascending
  <2> QED BY <2>2, <2>3
<1>3. Ascending(S) = [i \in 1 .. Cardinality(S) |-> Ascending(S)[i]]
  BY DEF Ascending
<1> DEFINE A == Ascending(S)
<1>4. A \in [1 .. Cardinality(S) -> S]
  BY <1>2, <1>3
<1>5. A \in Seq(S) /\ Len(A) = Cardinality(S)
  BY <1>1, <1>4
<1> QED BY <1>2, <1>5

(* A set that is not empty has a least element. *)
LEMMA SmallestElement ==
  ASSUME NEW S \in SUBSET Nat, IsFiniteSet(S), S # {}
  PROVE  Min(S) \in S /\ \A s \in S : Min(S) <= s
<1>1. Cardinality(S) \in Nat \ {0}
  BY FS_CardinalityType, FS_EmptySet
<1>2. 0 \in 0 .. Cardinality(S) - 1
  BY <1>1
<1>3. PICK m \in S : Rank(S, m) = 0
  BY <1>2, RankOnto
<1>4. ASSUME NEW s \in S PROVE m <= s
  <2>1. Rank(S, s) \in Nat
    BY RankBounds
  <2>2. ~(s < m)
    BY <1>3, <2>1, RankOrder
  <2> QED BY <2>2
<1>5. \E x \in S : \A y \in S : x <= y
  BY <1>4
<1> QED BY <1>5 DEF Min

-----------------------------------------------------------------------------
(* The inductive invariant.                                                *)

Messages == [kind : {"none", "service", "command", "confirm", "read"}, addr : 0 .. 3 * MaxEvents]
SomeOctets == [no : Nat, addr : 0 .. 3 * MaxEvents]

MdhStates == {"IDLE", "STARTUP", "PREOPERATE", "OPERATE"}
Modes     == {"INACTIVE", "STARTUP", "PREOPERATE", "OPERATE"}
MhStates  == {"INACTIVE", "STARTUP_2", "PREOPERATE_6", "GETOD_7", "AW_REPLY_9",
              "OPERATE_12", "AW_REPLY_16"}
OdStates  == {"INACTIVE", "ISDU", "COMMAND", "EVENT"}
CmdStates == {"INACTIVE", "IDLE", "MASTERCOMMAND"}
EvStates  == {"INACTIVE", "IDLE", "READEVENT"}
Triggers  == {"NONE", "MASTER", "DEVICE"}
Preops    == {"none", "asked", "confirmed"}
Retries   == 0 .. MaxRetry + 1
Addresses == 0 .. 3 * MaxEvents
Counts    == 0 .. MaxEvents
Statuses  == [no : Nat, details : BOOLEAN, bits : SUBSET Slots]
Memories  == [Slots -> [1 .. 3 -> SomeOctets]]

(* Records of the handlers; S says what may be in signals.                 *)
HandlersWith(S) == [
    mdh : MdhStates, mode : Modes, comlost : BOOLEAN, mdhEvent : BOOLEAN,
    mh : MhStates, mhEvent : BOOLEAN, retry : Retries, dataready : BOOLEAN, cycle : BOOLEAN,
    tx : Messages, message : Messages, od : OdStates, trigger : Triggers,
    cmdh : CmdStates, chActive : BOOLEAN, code : BOOLEAN, operate : BOOLEAN, preop : Preops,
    ev : EvStates, ehActive : BOOLEAN, flag : BOOLEAN, confirmation : BOOLEAN,
    addr : Addresses, cnt : Counts, current : Counts, num : Counts,
    status : Statuses, events : Memories, signals : S]
Handlers == HandlersWith({<<>>})

(* The modes in which the handlers of on-request data are active, and the  *)
(* states in which a message is under way, or about to be sent.            *)
Exchanging == {"PREOPERATE", "OPERATE"}
Awaiting   == {"AW_REPLY_9", "AW_REPLY_16"}
Sending    == {"PREOPERATE_6", "GETOD_7", "OPERATE_12"}

(* How far mode handler, message handler and the others are together. *)
Levels(d) ==
    /\ d.ehActive <=> d.mdh \in Exchanging
    /\ d.chActive <=> d.mdh # "IDLE"
    /\ d.mdh \in Exchanging => d.od # "INACTIVE" /\ d.ev # "INACTIVE"
    /\ d.mdh \notin Exchanging => d.od \in {"INACTIVE", "COMMAND"} /\ d.ev = "INACTIVE"
    /\ d.mdh = "IDLE" => d.mh = "INACTIVE" /\ ~d.comlost
    /\ d.mdh = "STARTUP" => d.mh \in {"STARTUP_2", "INACTIVE"}
    /\ d.mdh = "PREOPERATE" => d.mh \in {"PREOPERATE_6", "GETOD_7", "AW_REPLY_9", "INACTIVE"}
    /\ d.mdh = "OPERATE" => d.mh \in {"OPERATE_12", "AW_REPLY_16", "INACTIVE"}
    /\ d.mdh # "IDLE" => (d.comlost <=> d.mh = "INACTIVE")
    /\ d.message # NoMessage => d.mh \in Awaiting
    /\ d.mh = "AW_REPLY_16" => d.cycle /\ ~d.dataready /\ d.retry <= MaxRetry

(* The modes the SM asks for, and when. *)
Asked(d) ==
    /\ d.mdh = "STARTUP" /\ d.mode \in Exchanging => d.mh = "STARTUP_2"
    /\ d.mdh = "STARTUP" /\ d.mode = "INACTIVE" => d.mh = "INACTIVE"
    /\ d.mdh = "PREOPERATE" => d.mode \in Exchanging
    /\ d.mdh = "PREOPERATE" /\ d.mode = "OPERATE" => d.preop = "confirmed"
    /\ d.mdh = "OPERATE" => d.mode # "PREOPERATE"
    /\ d.mdh = "PREOPERATE" /\ d.preop = "none" => ~d.code /\ d.od # "COMMAND"
    /\ d.mdh = "PREOPERATE" /\ d.preop = "confirmed" =>
          d.mh = "PREOPERATE_6" /\ ~d.code /\ ~d.flag /\ ~d.operate

(* A control code is with the command handler, or about to be taken to it  *)
(* by the application, or in the message.                                  *)
Commanding(d) ==
    /\ d.code => d.mdh \in Exchanging /\ d.od # "COMMAND"
    /\ d.code => app = "cmd" \/ d.cmdh = "MASTERCOMMAND"
    /\ ~d.code /\ d.mdh # "IDLE" => d.cmdh = "IDLE"
    /\ d.cmdh = "MASTERCOMMAND" => d.code
    /\ d.od = "COMMAND" => d.trigger = "MASTER" /\ d.mh \notin Sending

(* The OD handler is in EVENT for the flag, and in EVENT the message under *)
(* way is the one the event handler asked for.                             *)
Flagged(d) ==
    /\ d.od = "EVENT" => d.flag
    /\ d.flag /\ d.mh \in Sending => d.ev = "IDLE"
    /\ d.mh = "AW_REPLY_16" /\ d.od = "EVENT" /\ d.ev = "READEVENT" => d.message = Read(d.addr)
    /\ d.mh = "AW_REPLY_16" /\ d.od = "ISDU" => ~d.flag

(* While the port changes its mode no set is under way. *)
Changing(d, pending) ==
    /\ "PREOPERATE" \in {d.mdh, d.mode} => ~pending
    /\ d.mdh = "OPERATE" /\ d.mode # "OPERATE" =>
          ~pending /\ ~d.code /\ ~d.flag /\ d.od = "ISDU" /\ d.ev = "IDLE"

(* A set is confirmed, or about to be, only when it has been handed over;  *)
(* it is handed over twice only if communication was lost.                 *)
Confirming(d, pending, owed, away) ==
    /\ d.confirmation => pending /\ owed /\ d.ev # "READEVENT"
    /\ d.message = Confirm => owed /\ d.od = "EVENT" /\ d.ev = "IDLE" /\ ~d.confirmation
    /\ owed /\ pending /\ ~away => d.confirmation \/ d.message = Confirm

(* What has been read of the set with the StatusCode code. *)
Part(d) == d.addr - 3 * d.cnt
ReadSoFar(d, code) ==
    /\ code.details /\ code.no # 0
    /\ d.status = code /\ d.num = Cardinality(code.bits)
    /\ d.cnt \in code.bits /\ Part(d) \in 1 .. 3
    /\ d.current = Rank(code.bits, d.cnt)
    /\ \A b \in code.bits : b < d.cnt => d.events[Rank(code.bits, b)] = Details(code.no, b)
    /\ \A i \in 1 .. 3 : i < Part(d) => d.events[d.current][i] = Octet(code.no, 3 * d.cnt + i)
Reading(d, code) ==
    d.ev = "READEVENT" => (d.addr = 0 /\ d.num = 0 /\ d.current = 0) \/ ReadSoFar(d, code)

(* While the main thread has work to do, the set is not read again. *)
Away(d) == (d.mdh = "OPERATE" /\ d.comlost) \/ (d.mdh = "IDLE" /\ d.mode # "STARTUP")
Handling(d, pending) == pending => d.confirmation \/ d.message = Confirm \/ Away(d)

(* The last set handed over is the last one raised. *)
Owed == told # <<>> /\ told[Len(told)].no = Len(frozen)

(* The octets read are of sets that were raised. *)
Known(events, no) == \A s \in Slots, i \in 1 .. 3 : events[s][i].no <= no
OctetsKnown == Known(h.events, Len(frozen))

(* The sets handed over are sets as the device meant them. *)
ToldMeant ==
    \A i \in 1 .. Len(told) :
        told[i].no \in 1 .. Len(frozen) /\ told[i].set = Meant(told[i].no)

(* The values of the variables. *)
Entries == Seq(SomeOctets)
Sets    == Seq(Entries)
AllJobs == [type : {"DL_EVENT_IND"}, entry : Entries, left : Nat] \cup [type : {"AL_EVENT_RSP"}]
Machines ==
    [state : {"Event_idle", "Read_Event_Set", "DU_Event_handling"}, cnt : Counts,
     events : [Slots -> Entries]]

Calls == {"idle", "cmd"}

TypeInv ==
    /\ h \in Handlers
    /\ al \in Machines
    /\ mbox \in Seq(AllJobs)
    /\ frozen \in Seq(Kinds) /\ settled \in 0 .. Len(frozen)
    /\ told \in Seq([set : Sets, no : Nat])
    /\ reports \in Seq([to : {"DS", "application"}, set : Sets])
    /\ lost \in BOOLEAN
    /\ app \in Calls
    /\ used \in [DOMAIN Limit -> Nat]

DlInv ==
    /\ TypeInv
    /\ Levels(h) /\ Asked(h) /\ Commanding(h) /\ Flagged(h)
    /\ Changing(h, Pending)
    /\ Confirming(h, Pending, Owed, lost)
    /\ Reading(h, StatusCode)
    /\ OctetsKnown
    /\ ToldMeant

(* A record of the handlers remains one when a field is given a value. *)
LEMMA Update ==
  ASSUME NEW S, NEW d \in HandlersWith(S)
  PROVE  /\ \A v \in MdhStates : [d EXCEPT !.mdh = v] \in HandlersWith(S)
         /\ \A v \in Modes : [d EXCEPT !.mode = v] \in HandlersWith(S)
         /\ \A v \in BOOLEAN : [d EXCEPT !.comlost = v] \in HandlersWith(S)
         /\ \A v \in BOOLEAN : [d EXCEPT !.mdhEvent = v] \in HandlersWith(S)
         /\ \A v \in MhStates : [d EXCEPT !.mh = v] \in HandlersWith(S)
         /\ \A v \in BOOLEAN : [d EXCEPT !.mhEvent = v] \in HandlersWith(S)
         /\ \A v \in Retries : [d EXCEPT !.retry = v] \in HandlersWith(S)
         /\ \A v \in BOOLEAN : [d EXCEPT !.dataready = v] \in HandlersWith(S)
         /\ \A v \in BOOLEAN : [d EXCEPT !.cycle = v] \in HandlersWith(S)
         /\ \A v \in Messages : [d EXCEPT !.tx = v] \in HandlersWith(S)
         /\ \A v \in Messages : [d EXCEPT !.message = v] \in HandlersWith(S)
         /\ \A v \in OdStates : [d EXCEPT !.od = v] \in HandlersWith(S)
         /\ \A v \in Triggers : [d EXCEPT !.trigger = v] \in HandlersWith(S)
         /\ \A v \in CmdStates : [d EXCEPT !.cmdh = v] \in HandlersWith(S)
         /\ \A v \in BOOLEAN : [d EXCEPT !.chActive = v] \in HandlersWith(S)
         /\ \A v \in BOOLEAN : [d EXCEPT !.code = v] \in HandlersWith(S)
         /\ \A v \in BOOLEAN : [d EXCEPT !.operate = v] \in HandlersWith(S)
         /\ \A v \in Preops : [d EXCEPT !.preop = v] \in HandlersWith(S)
         /\ \A v \in EvStates : [d EXCEPT !.ev = v] \in HandlersWith(S)
         /\ \A v \in BOOLEAN : [d EXCEPT !.ehActive = v] \in HandlersWith(S)
         /\ \A v \in BOOLEAN : [d EXCEPT !.flag = v] \in HandlersWith(S)
         /\ \A v \in BOOLEAN : [d EXCEPT !.confirmation = v] \in HandlersWith(S)
         /\ \A v \in Addresses : [d EXCEPT !.addr = v] \in HandlersWith(S)
         /\ \A v \in Counts : [d EXCEPT !.cnt = v] \in HandlersWith(S)
         /\ \A v \in Counts : [d EXCEPT !.current = v] \in HandlersWith(S)
         /\ \A v \in Counts : [d EXCEPT !.num = v] \in HandlersWith(S)
         /\ \A v \in Statuses : [d EXCEPT !.status = v] \in HandlersWith(S)
         /\ \A v \in Memories : [d EXCEPT !.events = v] \in HandlersWith(S)
<1>1. \A v \in MdhStates : [d EXCEPT !.mdh = v] \in HandlersWith(S)
  BY DEF HandlersWith
<1>2. \A v \in Modes : [d EXCEPT !.mode = v] \in HandlersWith(S)
  BY DEF HandlersWith
<1>3. \A v \in BOOLEAN : [d EXCEPT !.comlost = v] \in HandlersWith(S)
  BY DEF HandlersWith
<1>4. \A v \in BOOLEAN : [d EXCEPT !.mdhEvent = v] \in HandlersWith(S)
  BY DEF HandlersWith
<1>5. \A v \in MhStates : [d EXCEPT !.mh = v] \in HandlersWith(S)
  BY DEF HandlersWith
<1>6. \A v \in BOOLEAN : [d EXCEPT !.mhEvent = v] \in HandlersWith(S)
  BY DEF HandlersWith
<1>7. \A v \in Retries : [d EXCEPT !.retry = v] \in HandlersWith(S)
  BY DEF HandlersWith
<1>8. \A v \in BOOLEAN : [d EXCEPT !.dataready = v] \in HandlersWith(S)
  BY DEF HandlersWith
<1>9. \A v \in BOOLEAN : [d EXCEPT !.cycle = v] \in HandlersWith(S)
  BY DEF HandlersWith
<1>10. \A v \in Messages : [d EXCEPT !.tx = v] \in HandlersWith(S)
  BY DEF HandlersWith
<1>11. \A v \in Messages : [d EXCEPT !.message = v] \in HandlersWith(S)
  BY DEF HandlersWith
<1>12. \A v \in OdStates : [d EXCEPT !.od = v] \in HandlersWith(S)
  BY DEF HandlersWith
<1>13. \A v \in Triggers : [d EXCEPT !.trigger = v] \in HandlersWith(S)
  BY DEF HandlersWith
<1>14. \A v \in CmdStates : [d EXCEPT !.cmdh = v] \in HandlersWith(S)
  BY DEF HandlersWith
<1>15. \A v \in BOOLEAN : [d EXCEPT !.chActive = v] \in HandlersWith(S)
  BY DEF HandlersWith
<1>16. \A v \in BOOLEAN : [d EXCEPT !.code = v] \in HandlersWith(S)
  BY DEF HandlersWith
<1>17. \A v \in BOOLEAN : [d EXCEPT !.operate = v] \in HandlersWith(S)
  BY DEF HandlersWith
<1>18. \A v \in Preops : [d EXCEPT !.preop = v] \in HandlersWith(S)
  BY DEF HandlersWith
<1>19. \A v \in EvStates : [d EXCEPT !.ev = v] \in HandlersWith(S)
  BY DEF HandlersWith
<1>20. \A v \in BOOLEAN : [d EXCEPT !.ehActive = v] \in HandlersWith(S)
  BY DEF HandlersWith
<1>21. \A v \in BOOLEAN : [d EXCEPT !.flag = v] \in HandlersWith(S)
  BY DEF HandlersWith
<1>22. \A v \in BOOLEAN : [d EXCEPT !.confirmation = v] \in HandlersWith(S)
  BY DEF HandlersWith
<1>23. \A v \in Addresses : [d EXCEPT !.addr = v] \in HandlersWith(S)
  BY DEF HandlersWith
<1>24. \A v \in Counts : [d EXCEPT !.cnt = v] \in HandlersWith(S)
  BY DEF HandlersWith
<1>25. \A v \in Counts : [d EXCEPT !.current = v] \in HandlersWith(S)
  BY DEF HandlersWith
<1>26. \A v \in Counts : [d EXCEPT !.num = v] \in HandlersWith(S)
  BY DEF HandlersWith
<1>27. \A v \in Statuses : [d EXCEPT !.status = v] \in HandlersWith(S)
  BY DEF HandlersWith
<1>28. \A v \in Memories : [d EXCEPT !.events = v] \in HandlersWith(S)
  BY DEF HandlersWith
<1> QED
  BY <1>1, <1>2, <1>3, <1>4, <1>5, <1>6, <1>7, <1>8, <1>9, <1>10, <1>11, <1>12, <1>13, <1>14, <1>15, <1>16, <1>17, <1>18, <1>19, <1>20, <1>21, <1>22, <1>23, <1>24, <1>25, <1>26, <1>27, <1>28

-----------------------------------------------------------------------------
(* What one call of the handlers leaves of a record.                       *)

(* A reply for the ISDU handler: nothing else changes. *)
LEMMA DeviceIsdu ==
  ASSUME NEW d \in Handlers, d.od = "ISDU", ~d.flag
  PROVE  Device(d) = [d EXCEPT !.trigger = "NONE"]
BY DEF Device, OdHandler, OdIsdu, CommandDue, IsduHandler, Handlers, HandlersWith

(* A reply with the event flag: the event handler is next. *)
LEMMA DeviceIsduFlag ==
  ASSUME NEW d \in Handlers, d.od = "ISDU", d.flag
  PROVE  Device(d) = [d EXCEPT !.trigger = "DEVICE", !.od = "EVENT"]
BY DEF Device, OdHandler, OdIsdu, CommandDue, IsduHandler, Handlers, HandlersWith

(* The reply to a command. *)
LEMMA DeviceCommand ==
  ASSUME NEW d \in Handlers, d.od = "COMMAND", ~d.code
  PROVE  Device(d) = [d EXCEPT !.trigger = "NONE", !.operate = FALSE,
                        !.preop = IF d.operate THEN "confirmed" ELSE d.preop,
                        !.od = IF d.flag THEN "EVENT" ELSE "ISDU"]
<1>1. Device(d) = OdCommand([d EXCEPT !.trigger = "DEVICE"])
  BY DEF Device, OdHandler, Handlers, HandlersWith
<1> DEFINE e == [d EXCEPT !.trigger = "DEVICE"]
<1>2. e.trigger = "DEVICE" /\ ~e.code /\ e.operate = d.operate /\ e.flag = d.flag /\ e.preop = d.preop
  BY DEF Handlers, HandlersWith
<1>3. CommandOver(e)
  BY <1>2 DEF CommandOver
<1>4. OdCommand(e) = [e EXCEPT !.trigger = "NONE", !.operate = FALSE,
                        !.preop = IF d.operate THEN "confirmed" ELSE d.preop,
                        !.od = IF d.flag THEN "EVENT" ELSE "ISDU"]
  BY <1>2, <1>3 DEF OdCommand
<1> DEFINE p == IF d.operate THEN "confirmed" ELSE d.preop
<1> DEFINE o == IF d.flag THEN "EVENT" ELSE "ISDU"
<1>5. OdCommand(e) = [e EXCEPT !.trigger = "NONE", !.operate = FALSE, !.preop = p, !.od = o]
  BY <1>4
<1> HIDE DEF p, o
<1>6. OdCommand(e) = [d EXCEPT !.trigger = "NONE", !.operate = FALSE, !.preop = p, !.od = o]
  BY <1>5 DEF Handlers, HandlersWith
<1> QED BY <1>1, <1>6 DEF p, o

(* The flag is gone: the confirmation has been answered. *)
LEMMA DeviceFlagGone ==
  ASSUME NEW d \in Handlers, d.od = "EVENT", ~d.flag
  PROVE  Device(d) = [d EXCEPT !.trigger = "DEVICE", !.od = "ISDU"]
BY DEF Device, OdHandler, OdEvent, CommandDue, Handlers, HandlersWith

(* Nothing is being read. *)
LEMMA DeviceEvIdle ==
  ASSUME NEW d \in Handlers, d.od = "EVENT", d.flag, d.ev = "IDLE", d.ehActive
  PROVE  Device(d) = [d EXCEPT !.trigger = "NONE"]
BY DEF Device, OdHandler, OdEvent, CommandDue, EvHandler, EvIdle, Handlers, HandlersWith

(* A reply while a set is read. *)
LEMMA DeviceRead ==
  ASSUME NEW d \in Handlers, d.od = "EVENT", d.flag, d.ev = "READEVENT", ~d.comlost
  PROVE  LET e == [d EXCEPT !.trigger = "DEVICE"]
         IN  Device(d) = [IF d.addr = 0 THEN ReadStatusCode(e) ELSE ReadMemory(e)
                             EXCEPT !.trigger = "NONE"]
<1> DEFINE e == [d EXCEPT !.trigger = "DEVICE"]
<1>1. /\ e.trigger = "DEVICE" /\ e.od = "EVENT" /\ e.flag /\ e.ev = "READEVENT"
      /\ ~e.comlost /\ e.addr = d.addr
  BY DEF Handlers, HandlersWith
<1> HIDE DEF e
<1>2. OdHandler(e) = OdEvent(e)
  BY <1>1 DEF OdHandler
<1>3. OdEvent(e) = [EvHandler(e) EXCEPT !.trigger = "NONE"]
  BY <1>1 DEF OdEvent, CommandDue
<1>4. EvHandler(e) = EvRead(e)
  BY <1>1 DEF EvHandler
<1>5. EvRead(e) = IF d.addr = 0 THEN ReadStatusCode(e) ELSE ReadMemory(e)
  BY <1>1 DEF EvRead
<1> QED BY <1>2, <1>3, <1>4, <1>5 DEF Device, e

(* The master's turn: a control code goes first. *)
LEMMA MasterCommand ==
  ASSUME NEW S, NEW d \in HandlersWith(S), d.od \in {"ISDU", "EVENT"},
         d.code, d.cmdh = "MASTERCOMMAND"
  PROVE  Master(d) = [d EXCEPT !.trigger = "MASTER", !.tx = Command, !.code = FALSE,
                               !.cmdh = "IDLE", !.od = "COMMAND"]
<1>1. CASE d.od = "ISDU"
  BY <1>1 DEF Master, OdHandler, OdIsdu, CommandDue, CmdHandler, Od_req, HandlersWith
<1>2. CASE d.od = "EVENT"
  BY <1>2 DEF Master, OdHandler, OdEvent, CommandDue, CmdHandler, Od_req, HandlersWith
<1> QED BY <1>1, <1>2

(* Nothing to ask. *)
LEMMA MasterService ==
  ASSUME NEW S, NEW d \in HandlersWith(S), d.od = "ISDU", ~d.code, ~d.flag
  PROVE  Master(d) = [d EXCEPT !.trigger = "NONE", !.tx = Service]
BY ZenonT(60) DEF Master, OdHandler, OdIsdu, CommandDue, IsduHandler, Od_req, HandlersWith

(* The flag of the reply before is seen in the turn of the ISDU handler. *)
LEMMA MasterServiceFlag ==
  ASSUME NEW S, NEW d \in HandlersWith(S), d.od = "ISDU", ~d.code, d.flag
  PROVE  Master(d) = [d EXCEPT !.trigger = "MASTER", !.tx = Service, !.od = "EVENT"]
BY DEF Master, OdHandler, OdIsdu, CommandDue, IsduHandler, Od_req, HandlersWith

(* A set that was handed over is confirmed. *)
LEMMA MasterConfirm ==
  ASSUME NEW S, NEW d \in HandlersWith(S), d.od = "EVENT", ~d.code, d.flag, ~d.comlost,
         d.ev = "IDLE", d.ehActive, d.confirmation
  PROVE  Master(d) = [d EXCEPT !.trigger = "NONE", !.tx = Confirm, !.confirmation = FALSE]
BY ZenonT(60) DEF Master, OdHandler, OdEvent, CommandDue, EvHandler, EvIdle, Od_req, HandlersWith

(* The reading of a set begins with its StatusCode. *)
LEMMA MasterReadFirst ==
  ASSUME NEW S, NEW d \in HandlersWith(S), d.od = "EVENT", ~d.code, d.flag,
         d.ev = "IDLE", d.ehActive, ~d.confirmation
  PROVE  Master(d) = [d EXCEPT !.trigger = "NONE", !.tx = Read(0), !.addr = 0, !.num = 0,
                        !.current = 0, !.events = [s \in Slots |-> Unread], !.ev = "READEVENT"]
<1> DEFINE e == [d EXCEPT !.trigger = "MASTER"]
<1> DEFINE none == [s \in Slots |-> Unread]
<1>1. /\ e.trigger = "MASTER" /\ e.od = "EVENT" /\ ~e.code /\ e.flag /\ e.ev = "IDLE"
      /\ e.ehActive /\ ~e.confirmation
  BY DEF HandlersWith
<1> HIDE DEF e
<1>2. EvIdle(e) = [Od_req(e, Read(0)) EXCEPT !.addr = 0, !.num = 0, !.current = 0,
                     !.events = none, !.ev = "READEVENT"]
  BY <1>1, Zenon DEF EvIdle
<1> HIDE DEF none
<1>3. OdHandler(e) = [EvIdle(e) EXCEPT !.trigger = "NONE"]
  BY <1>1 DEF OdHandler, OdEvent, CommandDue, EvHandler
<1>4. OdHandler(e) = [d EXCEPT !.trigger = "NONE", !.tx = Read(0), !.addr = 0, !.num = 0,
                        !.current = 0, !.events = none, !.ev = "READEVENT"]
  <2>1. EvIdle(e) = [d EXCEPT !.trigger = "MASTER", !.tx = Read(0), !.addr = 0, !.num = 0,
                        !.current = 0, !.events = none, !.ev = "READEVENT"]
    BY <1>2 DEF Od_req, e, HandlersWith
  <2> DEFINE x == EvIdle(e)
  <2>2. OdHandler(e) = [x EXCEPT !.trigger = "NONE"]
    BY <1>3
  <2>3. x = [d EXCEPT !.trigger = "MASTER", !.tx = Read(0), !.addr = 0, !.num = 0,
                      !.current = 0, !.events = none, !.ev = "READEVENT"]
    BY <2>1
  <2> HIDE DEF x
  <2> QED BY <2>2, <2>3, ZenonT(60) DEF HandlersWith
<1> QED BY <1>4 DEF Master, e, none

(* And goes on with the octet that is due. *)
LEMMA MasterReadOn ==
  ASSUME NEW S, NEW d \in HandlersWith(S), d.od = "EVENT", ~d.code, d.flag,
         d.ev = "READEVENT", ~d.comlost
  PROVE  Master(d) = [d EXCEPT !.trigger = "NONE", !.tx = Read(d.addr)]
BY ZenonT(60) DEF Master, OdHandler, OdEvent, CommandDue, EvHandler, EvRead, Od_req, HandlersWith

-----------------------------------------------------------------------------
(* What the reply to a read message leaves.                                *)

(* The set made from the bits of the StatusCode. *)
Bare(code) == [i \in 1 .. Len(Ascending(code.bits)) |-> NoDetails(code.no, Ascending(code.bits)[i])]

(* A StatusCode without details is the whole set. *)
LEMMA ReadStatusBare ==
  ASSUME NEW e \in Handlers, e.message = Read(0), ~StatusCode.details
  PROVE  ReadStatusCode(e) =
           [e EXCEPT !.status = StatusCode, !.num = e.num + Cardinality(StatusCode.bits),
                     !.signals = <<Bare(StatusCode)>>, !.confirmation = TRUE, !.ev = "IDLE"]
<1> DEFINE code == IF e.message = Read(0) THEN StatusCode ELSE NoStatus
<1> DEFINE num == e.num + Cardinality(code.bits)
<1> DEFINE read == [e EXCEPT !.status = code, !.num = num]
<1>1. code = StatusCode
  OBVIOUS
<1>2. ~code.details
  BY <1>1
<1>3. ReadStatusCode(e) = IF ~code.details THEN SignalEvent(read) ELSE ReadStatusCode(e)
  BY <1>2 DEF ReadStatusCode
<1>4. ReadStatusCode(e) = SignalEvent(read)
  BY <1>2, <1>3
<1>5. num = e.num + Cardinality(StatusCode.bits)
  BY <1>1
<1> HIDE DEF code, num
<1>6. read.status = code /\ read.signals = <<>>
  BY DEF Handlers, HandlersWith
<1>7. Signalled(read) = Bare(code)
  BY <1>2, <1>6 DEF Signalled, Bare
<1>8. SignalEvent(read) = [read EXCEPT !.signals = <<Bare(code)>>, !.confirmation = TRUE,
                                       !.ev = "IDLE"]
  <2> HIDE DEF read
  <2> DEFINE bare == Bare(code)
  <2>1. Signalled(read) = bare
    BY <1>7
  <2> HIDE DEF bare
  <2>2. Append(read.signals, bare) = <<bare>>
    BY <1>6
  <2>3. SignalEvent(read) = [read EXCEPT !.signals = Append(@, bare), !.confirmation = TRUE,
                                         !.ev = "IDLE"]
    BY <2>1 DEF SignalEvent
  <2>4. SignalEvent(read) = [read EXCEPT !.signals = <<bare>>, !.confirmation = TRUE,
                                         !.ev = "IDLE"]
    BY <2>2, <2>3
  <2> QED BY <2>4 DEF bare
<1> HIDE DEF read
<1> DEFINE bare == Bare(code)
<1> HIDE DEF bare
<1>9. SignalEvent(read) =
        [e EXCEPT !.status = code, !.num = num, !.signals = <<bare>>, !.confirmation = TRUE,
                  !.ev = "IDLE"]
  BY <1>8 DEF read, bare, Handlers, HandlersWith
<1> QED BY <1>1, <1>4, <1>5, <1>9 DEF bare

(* One with details says where the first entry is. *)
LEMMA ReadStatusDetails ==
  ASSUME NEW e \in Handlers, e.message = Read(0), StatusCode.details, StatusCode.bits # {}
  PROVE  ReadStatusCode(e) =
           [e EXCEPT !.status = StatusCode, !.num = e.num + Cardinality(StatusCode.bits),
                     !.addr = 3 * Min(StatusCode.bits) + 1, !.cnt = Min(StatusCode.bits)]
<1> DEFINE code == IF e.message = Read(0) THEN StatusCode ELSE NoStatus
<1> DEFINE num == e.num + Cardinality(code.bits)
<1> DEFINE read == [e EXCEPT !.status = code, !.num = num]
<1> DEFINE first == Min(code.bits)
<1> DEFINE next == 3 * first + 1
<1>1. code = StatusCode
  OBVIOUS
<1>2. code.details /\ code.bits # {}
  BY <1>1
<1>3. ReadStatusCode(e) = IF code.details /\ code.bits # {}
                          THEN [read EXCEPT !.addr = next, !.cnt = first]
                          ELSE ReadStatusCode(e)
  BY <1>2 DEF ReadStatusCode
<1>4. ReadStatusCode(e) = [read EXCEPT !.addr = next, !.cnt = first]
  BY <1>2, <1>3
<1>5. num = e.num + Cardinality(StatusCode.bits) /\ first = Min(StatusCode.bits)
  BY <1>1
<1> HIDE DEF code, num
<1> DEFINE a == first
<1> DEFINE b == next
<1> HIDE DEF first, next
<1>6. [read EXCEPT !.addr = next, !.cnt = first] =
        [e EXCEPT !.status = code, !.num = num, !.addr = next, !.cnt = first]
  BY DEF Handlers, HandlersWith
<1> QED BY <1>1, <1>4, <1>5, <1>6 DEF first, next

(* The event memory with the octet that was asked for. *)
Taken(e) == [e.events EXCEPT ![e.current][e.addr - 3 * e.cnt] = Octet(Len(frozen), e.addr)]

(* An octet of the entry that is read. *)
LEMMA ReadOctet ==
  ASSUME NEW e \in Handlers, e.message = Read(e.addr), Pending, e.current \in Slots,
         e.addr - 3 * e.cnt \in {1, 2}
  PROVE  ReadMemory(e) = [e EXCEPT !.events = Taken(e), !.addr = e.addr + 1]
<1> DEFINE octet == Octet(Len(frozen), e.addr)
<1> DEFINE taken == [e EXCEPT !.events[e.current][e.addr - 3 * e.cnt] = octet]
<1>1. e.message.kind = "read" /\ e.message.addr = e.addr
  BY DEF Read, Message
<1>2. e.addr - 3 * e.cnt < 3
  OBVIOUS
<1>3. ReadMemory(e) = [taken EXCEPT !.addr = @ + 1]
  BY <1>1, <1>2 DEF ReadMemory
<1> DEFINE mem == Taken(e)
<1>4. taken = [e EXCEPT !.events = mem]
  BY DEF Taken
<1> HIDE DEF mem, taken
<1>5. [taken EXCEPT !.addr = @ + 1] = [e EXCEPT !.events = mem, !.addr = e.addr + 1]
  BY <1>4 DEF Handlers, HandlersWith
<1> QED BY <1>3, <1>5 DEF mem

(* The last octet of an entry leads to the entry of the next bit. *)
LEMMA ReadEntry ==
  ASSUME NEW e \in Handlers, e.message = Read(e.addr), Pending, e.current \in Slots,
         e.addr - 3 * e.cnt = 3, NextBits(e) # {}
  PROVE  ReadMemory(e) =
           [e EXCEPT !.events = Taken(e), !.current = e.current + 1,
                     !.cnt = Min(NextBits(e)), !.addr = 3 * Min(NextBits(e)) + 1]
<1> DEFINE octet == Octet(Len(frozen), e.addr)
<1> DEFINE taken == [e EXCEPT !.events[e.current][e.addr - 3 * e.cnt] = octet]
<1> DEFINE more == [taken EXCEPT !.current = @ + 1]
<1>1. e.message.kind = "read" /\ e.message.addr = e.addr
  BY DEF Read, Message
<1>2. ReadMemory(e) = NextEntry(more)
  <2> HIDE DEF more
  <2>1. ReadMemory(e) = IF e.addr - 3 * e.cnt < 3 THEN [taken EXCEPT !.addr = @ + 1] ELSE NextEntry(more)
    BY <1>1 DEF ReadMemory, more
  <2>2. ~(e.addr - 3 * e.cnt < 3)
    OBVIOUS
  <2> QED BY <2>1, <2>2
<1> DEFINE mem == Taken(e)
<1>3. taken = [e EXCEPT !.events = mem]
  BY DEF Taken
<1> HIDE DEF mem, taken
<1>4. more = [e EXCEPT !.events = mem, !.current = e.current + 1]
  BY <1>3 DEF Handlers, HandlersWith
<1> HIDE DEF more
<1>5. more.status = e.status /\ more.cnt = e.cnt
  BY <1>4 DEF Handlers, HandlersWith
<1>6. NextBits(more) = NextBits(e)
  BY <1>5 DEF NextBits
<1> DEFINE next == Min(NextBits(e))
<1> DEFINE addr == 3 * next + 1
<1>7. NextEntry(more) = [more EXCEPT !.cnt = next, !.addr = addr]
  BY <1>6 DEF NextEntry
<1> HIDE DEF next, addr
<1>8. NextEntry(more) = [e EXCEPT !.events = mem, !.current = e.current + 1, !.cnt = next, !.addr = addr]
  BY <1>4, <1>7 DEF Handlers, HandlersWith
<1> QED BY <1>2, <1>8 DEF mem, next, addr

(* The last octet of the last entry: the set is handed over. *)
LEMMA ReadLast ==
  ASSUME NEW e \in Handlers, e.message = Read(e.addr), Pending, e.current \in Slots,
         e.addr - 3 * e.cnt = 3, NextBits(e) = {}, e.status.details
  PROVE  ReadMemory(e) =
           [e EXCEPT !.events = Taken(e), !.current = 0, !.cnt = MaxEvents,
                     !.signals = <<[i \in 1 .. e.num |-> Taken(e)[i - 1]]>>,
                     !.confirmation = TRUE, !.ev = "IDLE"]
<1> DEFINE octet == Octet(Len(frozen), e.addr)
<1> DEFINE taken == [e EXCEPT !.events[e.current][e.addr - 3 * e.cnt] = octet]
<1> DEFINE more == [taken EXCEPT !.current = @ + 1]
<1> DEFINE done == [more EXCEPT !.cnt = MaxEvents, !.current = 0]
<1>1. e.message.kind = "read" /\ e.message.addr = e.addr
  BY DEF Read, Message
<1>2. ReadMemory(e) = NextEntry(more)
  <2> HIDE DEF more
  <2>1. ReadMemory(e) = IF e.addr - 3 * e.cnt < 3 THEN [taken EXCEPT !.addr = @ + 1] ELSE NextEntry(more)
    BY <1>1 DEF ReadMemory, more
  <2>2. ~(e.addr - 3 * e.cnt < 3)
    OBVIOUS
  <2> QED BY <2>1, <2>2
<1> DEFINE mem == Taken(e)
<1>3. taken = [e EXCEPT !.events = mem]
  BY DEF Taken
<1> HIDE DEF mem, taken
<1>4. more = [e EXCEPT !.events = mem, !.current = e.current + 1]
  BY <1>3 DEF Handlers, HandlersWith
<1> HIDE DEF more
<1>5. more.status = e.status /\ more.cnt = e.cnt
  BY <1>4 DEF Handlers, HandlersWith
<1>6. NextBits(more) = {}
  BY <1>5 DEF NextBits
<1>7. NextEntry(more) = SignalEvent(done)
  BY <1>6 DEF NextEntry
<1>8. done = [e EXCEPT !.events = mem, !.current = 0, !.cnt = MaxEvents]
  BY <1>4 DEF Handlers, HandlersWith
<1> HIDE DEF done
<1>9. /\ done.status = e.status /\ done.num = e.num /\ done.signals = <<>>
      /\ done.events = mem
  BY <1>8 DEF Handlers, HandlersWith
<1> DEFINE set == [i \in 1 .. e.num |-> mem[i - 1]]
<1>10. Signalled(done) = set
  BY <1>9 DEF Signalled
<1> HIDE DEF set
<1>11. Append(done.signals, set) = <<set>>
  BY <1>9
<1>12. SignalEvent(done) = [done EXCEPT !.signals = Append(@, set), !.confirmation = TRUE,
                                        !.ev = "IDLE"]
  BY <1>10 DEF SignalEvent
<1>13. SignalEvent(done) = [done EXCEPT !.signals = <<set>>, !.confirmation = TRUE, !.ev = "IDLE"]
  BY <1>11, <1>12
<1>14. SignalEvent(done) = [e EXCEPT !.events = mem, !.current = 0, !.cnt = MaxEvents,
                     !.signals = <<set>>, !.confirmation = TRUE, !.ev = "IDLE"]
  BY <1>8, <1>13 DEF Handlers, HandlersWith
<1> QED BY <1>2, <1>7, <1>14 DEF mem, set

-----------------------------------------------------------------------------
(* The handlers when the mode handler starts and stops them.               *)

(* Started, the OD handler is in ISDU, *)
LEMMA StartedIdle ==
  ASSUME NEW d \in Handlers, d.od = "INACTIVE", d.ev = "INACTIVE"
  PROVE  HandlersActive(d) = [d EXCEPT !.od = "ISDU", !.ehActive = TRUE, !.ev = "IDLE"]
BY DEF HandlersActive, OdHandler, EH_Conf, EvHandler, Handlers, HandlersWith

(* unless it was stopped behind a command: that one is taken for answered. *)
LEMMA StartedCommand ==
  ASSUME NEW d \in Handlers, d.od = "COMMAND", d.trigger = "MASTER", ~d.code, d.ev = "INACTIVE"
  PROVE  HandlersActive(d) = [d EXCEPT !.trigger = "NONE", !.operate = FALSE,
                               !.preop = IF d.operate THEN "confirmed" ELSE d.preop,
                               !.od = IF d.flag THEN "EVENT" ELSE "ISDU",
                               !.ehActive = TRUE, !.ev = "IDLE"]
<1> DEFINE p == IF d.operate THEN "confirmed" ELSE d.preop
<1> DEFINE o == IF d.flag THEN "EVENT" ELSE "ISDU"
<1> DEFINE e == [d EXCEPT !.trigger = "NONE", !.operate = FALSE, !.preop = p, !.od = o]
<1>1. OdHandler(d) = e
  BY DEF OdHandler, OdCommand, CommandOver
<1> HIDE DEF p, o
<1>2. e.ev = "INACTIVE"
  BY DEF Handlers, HandlersWith
<1>3. EH_Conf(e, TRUE) = [e EXCEPT !.ehActive = TRUE, !.ev = "IDLE"]
  <2> HIDE DEF e
  <2> DEFINE x == [e EXCEPT !.ehActive = TRUE]
  <2>0. e = [d EXCEPT !.trigger = "NONE", !.operate = FALSE, !.preop = p, !.od = o]
    BY DEF e
  <2>1. x.ev = "INACTIVE" /\ x.ehActive
    BY <1>2, <2>0 DEF Handlers, HandlersWith
  <2>2. EvHandler(x) = [x EXCEPT !.ev = "IDLE"]
    BY <2>1 DEF EvHandler
  <2> QED BY <2>2 DEF EH_Conf
<1>4. HandlersActive(d) = [e EXCEPT !.ehActive = TRUE, !.ev = "IDLE"]
  BY <1>1, <1>3 DEF HandlersActive
<1>5. HandlersActive(d) = [d EXCEPT !.trigger = "NONE", !.operate = FALSE, !.preop = p,
                                    !.od = o, !.ehActive = TRUE, !.ev = "IDLE"]
  BY <1>4 DEF Handlers, HandlersWith
<1> QED BY <1>5 DEF p, o

(* Stopped, the event handler forgets what it was reading. *)
LEMMA EventsStopped ==
  ASSUME NEW e \in Handlers, e.ev = "READEVENT" => e.comlost
  PROVE  EH_Conf(e, FALSE) = [e EXCEPT !.ehActive = FALSE, !.ev = "INACTIVE"]
<1>1. CASE e.ev = "INACTIVE"
  BY <1>1 DEF EH_Conf, EvHandler, Handlers, HandlersWith
<1>2. CASE e.ev = "IDLE"
  BY <1>2 DEF EH_Conf, EvHandler, EvIdle, Handlers, HandlersWith
<1>3. CASE e.ev = "READEVENT"
  BY <1>3 DEF EH_Conf, EvHandler, EvRead, Handlers, HandlersWith
<1> QED BY <1>1, <1>2, <1>3 DEF Handlers, HandlersWith, EvStates

(* And the OD handler what it was doing, but for a command. *)
LEMMA StoppedIdle ==
  ASSUME NEW d \in Handlers, d.od # "COMMAND", d.ev = "READEVENT" => d.comlost
  PROVE  HandlersInactive(d) =
           [d EXCEPT !.od = "INACTIVE", !.ehActive = FALSE, !.ev = "INACTIVE"]
<1> DEFINE e == [d EXCEPT !.od = "INACTIVE"]
<1>1. e \in Handlers
  BY Update DEF Handlers, OdStates, CmdStates
<1>2. e.ev = "READEVENT" => e.comlost
  BY DEF Handlers, HandlersWith
<1>3. OH_ConfInactive(d) = e
  BY DEF OH_ConfInactive
<1> HIDE DEF e
<1>4. HandlersInactive(d) = [e EXCEPT !.ehActive = FALSE, !.ev = "INACTIVE"]
  BY <1>1, <1>2, <1>3, EventsStopped DEF HandlersInactive
<1> QED BY <1>4 DEF e, Handlers, HandlersWith

(* The case that a command was under way. *)
LEMMA StoppedCommand ==
  ASSUME NEW d \in Handlers, d.od = "COMMAND", d.ev = "READEVENT" => d.comlost
  PROVE  HandlersInactive(d) =
           [d EXCEPT !.cmdh = "INACTIVE", !.ehActive = FALSE, !.ev = "INACTIVE"]
<1> DEFINE e == [d EXCEPT !.cmdh = "INACTIVE"]
<1>1. e \in Handlers
  BY Update DEF Handlers, OdStates, CmdStates
<1>2. e.ev = "READEVENT" => e.comlost
  BY DEF Handlers, HandlersWith
<1>3. OH_ConfInactive(d) = e
  BY DEF OH_ConfInactive
<1> HIDE DEF e
<1>4. HandlersInactive(d) = [e EXCEPT !.ehActive = FALSE, !.ev = "INACTIVE"]
  BY <1>1, <1>2, <1>3, EventsStopped DEF HandlersInactive
<1> QED BY <1>4 DEF e, Handlers, HandlersWith

(* A port given up, or whose device was lost, has nothing under way. *)
LEMMA GivenUp ==
  ASSUME NEW d \in Handlers, d.mh = h.mh, h \in Handlers,
         d.ev = "READEVENT" => d.comlost,
         d.mh \in {"OPERATE_12", "AW_REPLY_16", "INACTIVE"},
         d.mh = "INACTIVE" => d.message = NoMessage,
         d.code => d.cmdh = "MASTERCOMMAND" /\ d.od # "COMMAND",
         d.cmdh = "MASTERCOMMAND" => d.code
  PROVE  LET x == GotoIdle(d)
         IN  /\ x \in Handlers
             /\ x.mdh = "IDLE" /\ x.mh = "INACTIVE" /\ ~x.comlost /\ x.message = NoMessage
             /\ ~x.ehActive /\ ~x.chActive /\ x.ev = "INACTIVE" /\ ~x.code
             /\ x.cmdh \in {"IDLE", "INACTIVE"}
             /\ x.od = IF d.od = "COMMAND" THEN "COMMAND" ELSE "INACTIVE"
             /\ x.trigger = d.trigger /\ x.mode = d.mode /\ x.confirmation = d.confirmation
             /\ x.events = d.events /\ x.flag = d.flag
<1> DEFINE i == HandlersInactive(d)
<1>1. /\ i \in Handlers /\ i.mh = d.mh /\ i.trigger = d.trigger /\ i.mode = d.mode
      /\ i.confirmation = d.confirmation /\ i.events = d.events /\ i.flag = d.flag
      /\ i.message = d.message
      /\ ~i.ehActive /\ i.ev = "INACTIVE" /\ i.code = d.code
      /\ i.od = IF d.od = "COMMAND" THEN "COMMAND" ELSE "INACTIVE"
      /\ i.cmdh = IF d.od = "COMMAND" THEN "INACTIVE" ELSE d.cmdh
  <2>1. CASE d.od = "COMMAND"
    <3>1. i = [d EXCEPT !.cmdh = "INACTIVE", !.ehActive = FALSE, !.ev = "INACTIVE"]
      BY <2>1, StoppedCommand
    <3> HIDE DEF i
    <3>2. i \in Handlers
      BY <3>1, Update DEF Handlers, CmdStates, EvStates
    <3> QED BY <2>1, <3>1, <3>2 DEF Handlers, HandlersWith
  <2>2. CASE d.od # "COMMAND"
    <3>1. i = [d EXCEPT !.od = "INACTIVE", !.ehActive = FALSE, !.ev = "INACTIVE"]
      BY <2>2, StoppedIdle
    <3> HIDE DEF i
    <3>2. i \in Handlers
      BY <3>1, Update DEF Handlers, OdStates, EvStates
    <3> QED BY <2>2, <3>1, <3>2 DEF Handlers, HandlersWith
  <2> QED BY <2>1, <2>2
<1> HIDE DEF i
<1> DEFINE c == CH_Conf(i, FALSE)
<1>2. /\ c \in Handlers /\ c.mh = d.mh /\ c.trigger = d.trigger /\ c.mode = d.mode
      /\ c.confirmation = d.confirmation /\ c.events = d.events /\ c.flag = d.flag
      /\ c.message = d.message
      /\ ~c.ehActive /\ c.ev = "INACTIVE" /\ ~c.code /\ ~c.chActive
      /\ c.cmdh \in {"IDLE", "INACTIVE"}
      /\ c.od = IF d.od = "COMMAND" THEN "COMMAND" ELSE "INACTIVE"
  <2> DEFINE e == [i EXCEPT !.chActive = FALSE]
  <2>1. CASE i.cmdh = "MASTERCOMMAND"
    <3>1. c = [i EXCEPT !.chActive = FALSE, !.tx = Command, !.code = FALSE, !.cmdh = "IDLE"]
      BY <1>1, <2>1 DEF CH_Conf, CmdHandler, Od_req, Handlers, HandlersWith
    <3>2. Command \in Messages
      BY EventAssumption DEF Command, Message, Messages
    <3> HIDE DEF c
    <3>3. c \in Handlers
      BY <1>1, <3>1, <3>2, Update DEF Handlers, CmdStates
    <3> QED BY <1>1, <3>1, <3>2, <3>3 DEF Handlers, HandlersWith
  <2>2. CASE i.cmdh = "IDLE"
    <3>1. c = [i EXCEPT !.chActive = FALSE, !.cmdh = "INACTIVE"]
      BY <1>1, <2>2 DEF CH_Conf, CmdHandler, Od_req, Handlers, HandlersWith
    <3>2. ~i.code
      BY <1>1, <2>2 DEF Handlers, HandlersWith
    <3> HIDE DEF c
    <3>3. c \in Handlers
      BY <1>1, <3>1, <3>2, Update DEF Handlers, CmdStates
    <3> QED BY <1>1, <3>1, <3>2, <3>3 DEF Handlers, HandlersWith
  <2>3. CASE i.cmdh = "INACTIVE"
    <3>1. c = [i EXCEPT !.chActive = FALSE]
      BY <1>1, <2>3 DEF CH_Conf, CmdHandler, Od_req, Handlers, HandlersWith
    <3>2. ~i.code
      BY <1>1, <2>3 DEF Handlers, HandlersWith
    <3> HIDE DEF c
    <3>3. c \in Handlers
      BY <1>1, <3>1, Update DEF Handlers
    <3> QED BY <1>1, <2>3, <3>1, <3>2, <3>3 DEF Handlers, HandlersWith
  <2> QED BY <1>1, <2>1, <2>2, <2>3 DEF Handlers, HandlersWith, CmdStates
<1> HIDE DEF c
<1> DEFINE ev == h.mh \in {"OPERATE_12", "AW_REPLY_16"}
<1> DEFINE x == [Stop(c, "INACTIVE") EXCEPT !.mdh = "IDLE", !.comlost = FALSE, !.mdhEvent = ev]
<1>3. GotoIdle(d) = x
  BY DEF GotoIdle, c, i
<1>4. NoMessage \in Messages /\ ev \in BOOLEAN
  BY EventAssumption DEF NoMessage, Message, Messages
<1> HIDE DEF ev
<1>5. CASE d.mh = "INACTIVE"
  <2>1. x = [c EXCEPT !.cycle = FALSE, !.mdh = "IDLE", !.comlost = FALSE, !.mdhEvent = ev]
    BY <1>2, <1>5 DEF Stop, Handlers, HandlersWith
  <2> HIDE DEF x
  <2>2. x \in Handlers
    BY <1>2, <1>4, <2>1, Update DEF Handlers, MdhStates
  <2> QED BY <1>2, <1>3, <1>4, <1>5, <2>1, <2>2 DEF Handlers, HandlersWith
<1>6. CASE d.mh # "INACTIVE"
  <2>1. x = [c EXCEPT !.mh = "INACTIVE", !.message = NoMessage, !.cycle = FALSE,
                      !.dataready = FALSE, !.mdh = "IDLE", !.comlost = FALSE, !.mdhEvent = ev]
    <3>1. c.mh \in {"OPERATE_12", "AW_REPLY_16"}
      BY <1>2, <1>6
    <3>2. Stop(c, "INACTIVE") = [c EXCEPT !.mh = "INACTIVE", !.message = NoMessage,
                                          !.cycle = FALSE, !.dataready = FALSE]
      BY <3>1 DEF Stop
    <3> QED BY <3>2
  <2> HIDE DEF x
  <2>2. x \in Handlers
    BY <1>2, <1>4, <2>1, Update DEF Handlers, MdhStates, MhStates
  <2> QED BY <1>2, <1>3, <1>4, <2>1, <2>2 DEF Handlers, HandlersWith
<1> QED BY <1>5, <1>6

-----------------------------------------------------------------------------
(* The next message, sent by the handler whose turn it is.                 *)

(* The parts of the invariant that speak of one record. *)
Sound(d, pending, owed, away) ==
    /\ Levels(d) /\ Asked(d) /\ Commanding(d) /\ Flagged(d)
    /\ Changing(d, pending) /\ Confirming(d, pending, owed, away)

(* A record that has had the reply and is about to send the next message. *)
Ready(d, pending, owed, away, code) ==
    /\ d.mdh \in Exchanging /\ d.ehActive /\ d.chActive /\ ~d.comlost
    /\ d.od \in {"ISDU", "EVENT"} /\ d.ev \in {"IDLE", "READEVENT"}
    /\ d.od = "EVENT" => d.flag
    /\ d.od = "ISDU" /\ d.flag => d.ev = "IDLE"
    /\ d.mdh = "PREOPERATE" => d.mode = "PREOPERATE" /\ ~pending /\ d.preop # "confirmed"
    /\ d.mdh = "PREOPERATE" /\ d.preop = "none" => ~d.code
    /\ d.mdh = "OPERATE" => d.mode # "PREOPERATE"
    /\ d.code => d.cmdh = "MASTERCOMMAND"
    /\ ~d.code => d.cmdh = "IDLE"
    /\ Changing(d, pending)
    /\ d.confirmation => pending /\ owed /\ d.ev = "IDLE"
    /\ owed /\ pending /\ ~away => d.confirmation
    /\ Reading(d, code)

(* The message is handed to the physical layer. *)
Sent(m, retry, mh, cycle) ==
    [m EXCEPT !.message = m.tx, !.dataready = FALSE, !.retry = retry, !.mh = mh, !.cycle = cycle]

(* The messages are messages. *)
LEMMA MessageTypes ==
  /\ NoMessage \in Messages /\ Service \in Messages /\ Command \in Messages
  /\ Confirm \in Messages
  /\ \A a \in Addresses : Read(a) \in Messages
  /\ \A a : Read(a) # Confirm /\ Read(a) # NoMessage
  /\ Confirm # NoMessage /\ Service # Confirm /\ Command # Confirm
  /\ Service # NoMessage /\ Command # NoMessage
  /\ 0 \in Addresses /\ 0 \in Counts
  /\ [s \in Slots |-> Unread] \in Memories
<1>1. 0 \in Addresses /\ 0 \in Counts
  BY EventAssumption DEF Addresses, Counts
<1>2. NoOctet \in SomeOctets
  BY <1>1 DEF NoOctet, Octet, SomeOctets, Addresses
<1>3. Unread \in [1 .. 3 -> SomeOctets]
  BY <1>2 DEF Unread
<1>4. [s \in Slots |-> Unread] \in Memories
  BY <1>3 DEF Memories
<1> QED BY <1>1, <1>4 DEF NoMessage, Service, Command, Confirm, Read, Message, Messages, Addresses

(* What it leaves: the handlers are sound, and the set is read as before. *)
Leaves(S, d, x, pending, owed, away, code) ==
    /\ x \in HandlersWith(S)
    /\ Sound(x, pending, owed, away)
    /\ Reading(x, code)
    /\ x.signals = d.signals /\ x.mdh = d.mdh /\ x.comlost = d.comlost
    /\ x.events = d.events \/ x.events = [s \in Slots |-> Unread]
    /\ d.confirmation => x.confirmation \/ x.message = Confirm

(* So it is with every message that may be sent. *)
LEMMA SentIsSound ==
  ASSUME NEW S, NEW d \in HandlersWith(S), NEW pending \in BOOLEAN, NEW owed \in BOOLEAN,
         NEW away \in BOOLEAN, NEW code,
         Ready(d, pending, owed, away, code),
         NEW retry \in Retries, NEW mh \in Awaiting, NEW cycle \in BOOLEAN,
         d.mdh = "OPERATE" => mh = "AW_REPLY_16" /\ cycle /\ retry <= MaxRetry,
         d.mdh = "PREOPERATE" => mh = "AW_REPLY_9"
  PROVE  Leaves(S, d, Sent(Master(d), retry, mh, cycle), pending, owed, away, code)
<1> DEFINE m == Master(d)
<1> DEFINE x == Sent(m, retry, mh, cycle)
<1> DEFINE Goal ==
      /\ x \in HandlersWith(S)
      /\ Sound(x, pending, owed, away)
      /\ Reading(x, code)
      /\ x.signals = d.signals /\ x.mdh = d.mdh /\ x.comlost = d.comlost
      /\ x.events = d.events \/ x.events = [s \in Slots |-> Unread]
      /\ d.confirmation => x.confirmation \/ x.message = Confirm
<1>0. mh \in MhStates
  BY DEF Awaiting, MhStates
<1> SUFFICES Goal
  BY DEF Leaves
<1> DEFINE none == [s \in Slots |-> Unread]
<1>10. none \in Memories
  BY MessageTypes
<1>11. x.events = d.events \/ x.events = none => x.events = d.events \/ x.events = [s \in Slots |-> Unread]
  OBVIOUS
<1> HIDE DEF none
<1>1. CASE d.code
  <2>1. m = [d EXCEPT !.trigger = "MASTER", !.tx = Command, !.code = FALSE,
                      !.cmdh = "IDLE", !.od = "COMMAND"]
    BY <1>1, MasterCommand DEF Ready
  <2> HIDE DEF m
  <2>2. x = [d EXCEPT !.trigger = "MASTER", !.tx = Command, !.code = FALSE,
                      !.cmdh = "IDLE", !.od = "COMMAND", !.message = Command,
                      !.dataready = FALSE, !.retry = retry, !.mh = mh, !.cycle = cycle]
    BY <2>1 DEF Sent, HandlersWith
  <2> HIDE DEF x
  <2>3. x \in HandlersWith(S)
    BY <1>0, <1>10, <2>2, Update, MessageTypes, ZenonT(60) DEF Triggers, CmdStates, OdStates, EvStates
  <2>4. /\ x.mdh = d.mdh /\ x.mode = d.mode /\ x.comlost = d.comlost
        /\ x.chActive = d.chActive /\ x.operate = d.operate /\ x.preop = d.preop
        /\ x.ehActive = d.ehActive /\ x.flag = d.flag /\ x.cnt = d.cnt
        /\ x.status = d.status /\ x.signals = d.signals /\ x.mh = mh /\ x.cycle = cycle
        /\ x.retry = retry /\ x.dataready = FALSE
    BY <2>2 DEF HandlersWith
  <2>5. /\ x.trigger = "MASTER" /\ x.message = Command /\ x.code = FALSE
        /\ x.cmdh = "IDLE" /\ x.od = "COMMAND" /\ x.ev = d.ev /\ x.addr = d.addr
        /\ x.num = d.num /\ x.current = d.current /\ x.events = d.events
        /\ x.confirmation = d.confirmation
    BY <2>2 DEF HandlersWith
  <2>6. Levels(x)
    BY <1>1, <2>4, <2>5 DEF Ready, Levels, Exchanging, Awaiting
  <2>7. Asked(x) /\ Changing(x, pending)
    BY <1>1, <2>4, <2>5 DEF Ready, Asked, Changing, Exchanging, Awaiting
  <2>8. Commanding(x) /\ Flagged(x)
    BY <1>1, <2>4, <2>5 DEF Ready, Commanding, Flagged, Exchanging, Awaiting, Sending
  <2>9. Confirming(x, pending, owed, away)
    BY <1>1, <2>4, <2>5, MessageTypes DEF Ready, Confirming
  <2>10. Reading(x, code)
    BY <1>1, <2>4, <2>5 DEF Ready, Reading, ReadSoFar, Part
  <2>11. d.confirmation => x.confirmation \/ x.message = Confirm
    BY <1>1, <2>4, <2>5
  <2> QED BY <1>11, <2>3, <2>4, <2>5, <2>6, <2>7, <2>8, <2>9, <2>10, <2>11 DEF Sound
<1>2. CASE ~d.code /\ d.od = "ISDU" /\ ~d.flag
  <2>1. m = [d EXCEPT !.trigger = "NONE", !.tx = Service]
    BY <1>2, MasterService DEF Ready
  <2> HIDE DEF m
  <2>2. x = [d EXCEPT !.trigger = "NONE", !.tx = Service, !.message = Service,
                      !.dataready = FALSE, !.retry = retry, !.mh = mh, !.cycle = cycle]
    BY <2>1 DEF Sent, HandlersWith
  <2> HIDE DEF x
  <2>3. x \in HandlersWith(S)
    BY <1>0, <1>10, <2>2, Update, MessageTypes, ZenonT(60) DEF Triggers, CmdStates, OdStates, EvStates
  <2>4. /\ x.mdh = d.mdh /\ x.mode = d.mode /\ x.comlost = d.comlost
        /\ x.chActive = d.chActive /\ x.operate = d.operate /\ x.preop = d.preop
        /\ x.ehActive = d.ehActive /\ x.flag = d.flag /\ x.cnt = d.cnt
        /\ x.status = d.status /\ x.signals = d.signals /\ x.mh = mh /\ x.cycle = cycle
        /\ x.retry = retry /\ x.dataready = FALSE
    BY <2>2 DEF HandlersWith
  <2>5. /\ x.trigger = "NONE" /\ x.message = Service /\ x.code = d.code
        /\ x.cmdh = d.cmdh /\ x.od = d.od /\ x.ev = d.ev /\ x.addr = d.addr
        /\ x.num = d.num /\ x.current = d.current /\ x.events = d.events
        /\ x.confirmation = d.confirmation
    BY <2>2 DEF HandlersWith
  <2>6. Levels(x)
    BY <1>2, <2>4, <2>5 DEF Ready, Levels, Exchanging, Awaiting
  <2>7. Asked(x) /\ Changing(x, pending)
    BY <1>2, <2>4, <2>5 DEF Ready, Asked, Changing, Exchanging, Awaiting
  <2>8. Commanding(x) /\ Flagged(x)
    BY <1>2, <2>4, <2>5 DEF Ready, Commanding, Flagged, Exchanging, Awaiting, Sending
  <2>9. Confirming(x, pending, owed, away)
    BY <1>2, <2>4, <2>5, MessageTypes DEF Ready, Confirming
  <2>10. Reading(x, code)
    BY <1>2, <2>4, <2>5 DEF Ready, Reading, ReadSoFar, Part
  <2>11. d.confirmation => x.confirmation \/ x.message = Confirm
    BY <1>2, <2>4, <2>5
  <2> QED BY <1>11, <2>3, <2>4, <2>5, <2>6, <2>7, <2>8, <2>9, <2>10, <2>11 DEF Sound
<1>3. CASE ~d.code /\ d.od = "ISDU" /\ d.flag
  <2>1. m = [d EXCEPT !.trigger = "MASTER", !.tx = Service, !.od = "EVENT"]
    BY <1>3, MasterServiceFlag DEF Ready
  <2> HIDE DEF m
  <2>2. x = [d EXCEPT !.trigger = "MASTER", !.tx = Service, !.od = "EVENT",
                      !.message = Service, !.dataready = FALSE, !.retry = retry, !.mh = mh,
                      !.cycle = cycle]
    BY <2>1 DEF Sent, HandlersWith
  <2> HIDE DEF x
  <2>3. x \in HandlersWith(S)
    BY <1>0, <1>10, <2>2, Update, MessageTypes, ZenonT(60) DEF Triggers, CmdStates, OdStates, EvStates
  <2>4. /\ x.mdh = d.mdh /\ x.mode = d.mode /\ x.comlost = d.comlost
        /\ x.chActive = d.chActive /\ x.operate = d.operate /\ x.preop = d.preop
        /\ x.ehActive = d.ehActive /\ x.flag = d.flag /\ x.cnt = d.cnt
        /\ x.status = d.status /\ x.signals = d.signals /\ x.mh = mh /\ x.cycle = cycle
        /\ x.retry = retry /\ x.dataready = FALSE
    BY <2>2 DEF HandlersWith
  <2>5. /\ x.trigger = "MASTER" /\ x.message = Service /\ x.code = d.code
        /\ x.cmdh = d.cmdh /\ x.od = "EVENT" /\ x.ev = d.ev /\ x.addr = d.addr
        /\ x.num = d.num /\ x.current = d.current /\ x.events = d.events
        /\ x.confirmation = d.confirmation
    BY <2>2 DEF HandlersWith
  <2>6. Levels(x)
    BY <1>3, <2>4, <2>5 DEF Ready, Levels, Exchanging, Awaiting
  <2>7. Asked(x) /\ Changing(x, pending)
    BY <1>3, <2>4, <2>5 DEF Ready, Asked, Changing, Exchanging, Awaiting
  <2>8. Commanding(x) /\ Flagged(x)
    BY <1>3, <2>4, <2>5 DEF Ready, Commanding, Flagged, Exchanging, Awaiting, Sending
  <2>9. Confirming(x, pending, owed, away)
    BY <1>3, <2>4, <2>5, MessageTypes DEF Ready, Confirming
  <2>10. Reading(x, code)
    BY <1>3, <2>4, <2>5 DEF Ready, Reading, ReadSoFar, Part
  <2>11. d.confirmation => x.confirmation \/ x.message = Confirm
    BY <1>3, <2>4, <2>5
  <2> QED BY <1>11, <2>3, <2>4, <2>5, <2>6, <2>7, <2>8, <2>9, <2>10, <2>11 DEF Sound
<1>4. CASE ~d.code /\ d.od = "EVENT" /\ d.ev = "IDLE" /\ d.confirmation
  <2>1. m = [d EXCEPT !.trigger = "NONE", !.tx = Confirm, !.confirmation = FALSE]
    BY <1>4, MasterConfirm DEF Ready
  <2> HIDE DEF m
  <2>2. x = [d EXCEPT !.trigger = "NONE", !.tx = Confirm, !.confirmation = FALSE,
                      !.message = Confirm, !.dataready = FALSE, !.retry = retry, !.mh = mh,
                      !.cycle = cycle]
    BY <2>1 DEF Sent, HandlersWith
  <2> HIDE DEF x
  <2>3. x \in HandlersWith(S)
    BY <1>0, <1>10, <2>2, Update, MessageTypes, ZenonT(60) DEF Triggers, CmdStates, OdStates, EvStates
  <2>4. /\ x.mdh = d.mdh /\ x.mode = d.mode /\ x.comlost = d.comlost
        /\ x.chActive = d.chActive /\ x.operate = d.operate /\ x.preop = d.preop
        /\ x.ehActive = d.ehActive /\ x.flag = d.flag /\ x.cnt = d.cnt
        /\ x.status = d.status /\ x.signals = d.signals /\ x.mh = mh /\ x.cycle = cycle
        /\ x.retry = retry /\ x.dataready = FALSE
    BY <2>2 DEF HandlersWith
  <2>5. /\ x.trigger = "NONE" /\ x.message = Confirm /\ x.code = d.code
        /\ x.cmdh = d.cmdh /\ x.od = d.od /\ x.ev = d.ev /\ x.addr = d.addr
        /\ x.num = d.num /\ x.current = d.current /\ x.events = d.events
        /\ x.confirmation = FALSE
    BY <2>2 DEF HandlersWith
  <2>6. Levels(x)
    BY <1>4, <2>4, <2>5 DEF Ready, Levels, Exchanging, Awaiting
  <2>7. Asked(x) /\ Changing(x, pending)
    BY <1>4, <2>4, <2>5 DEF Ready, Asked, Changing, Exchanging, Awaiting
  <2>8. Commanding(x) /\ Flagged(x)
    BY <1>4, <2>4, <2>5 DEF Ready, Commanding, Flagged, Exchanging, Awaiting, Sending
  <2>9. Confirming(x, pending, owed, away)
    BY <1>4, <2>4, <2>5, MessageTypes DEF Ready, Confirming
  <2>10. Reading(x, code)
    BY <1>4, <2>4, <2>5 DEF Ready, Reading, ReadSoFar, Part
  <2>11. d.confirmation => x.confirmation \/ x.message = Confirm
    BY <1>4, <2>4, <2>5
  <2> QED BY <1>11, <2>3, <2>4, <2>5, <2>6, <2>7, <2>8, <2>9, <2>10, <2>11 DEF Sound
<1>5. CASE ~d.code /\ d.od = "EVENT" /\ d.ev = "IDLE" /\ ~d.confirmation
  <2>1. m = [d EXCEPT !.trigger = "NONE", !.tx = Read(0), !.addr = 0, !.num = 0,
                      !.current = 0, !.events = none, !.ev = "READEVENT"]
    BY <1>5, MasterReadFirst, ZenonT(60) DEF Ready, none
  <2> HIDE DEF m
  <2>2. x = [d EXCEPT !.trigger = "NONE", !.tx = Read(0), !.addr = 0, !.num = 0,
                      !.current = 0, !.events = none, !.ev = "READEVENT",
                      !.message = Read(0), !.dataready = FALSE, !.retry = retry, !.mh = mh,
                      !.cycle = cycle]
    BY <2>1 DEF Sent, HandlersWith
  <2> HIDE DEF x
  <2>0. Read(0) \in Messages /\ 0 \in Addresses /\ 0 \in Counts
    BY MessageTypes
  <2>3. x \in HandlersWith(S)
    <3> DEFINE y == [d EXCEPT !.trigger = "NONE", !.tx = Read(0), !.addr = 0, !.num = 0,
                              !.current = 0]
    <3> DEFINE z == [y EXCEPT !.events = none, !.ev = "READEVENT", !.message = Read(0),
                              !.dataready = FALSE]
    <3>1. y \in HandlersWith(S)
      BY <2>0, Update DEF Triggers
    <3>2. x = [z EXCEPT !.retry = retry, !.mh = mh, !.cycle = cycle]
      BY <2>2
    <3> HIDE DEF y
    <3>3. z \in HandlersWith(S)
      BY <2>0, <1>10, <3>1, Update DEF EvStates
    <3> HIDE DEF z
    <3> QED BY <1>0, <3>2, <3>3, Update
  <2>4. /\ x.mdh = d.mdh /\ x.mode = d.mode /\ x.comlost = d.comlost
        /\ x.chActive = d.chActive /\ x.operate = d.operate /\ x.preop = d.preop
        /\ x.ehActive = d.ehActive /\ x.flag = d.flag /\ x.cnt = d.cnt
        /\ x.status = d.status /\ x.signals = d.signals /\ x.mh = mh /\ x.cycle = cycle
        /\ x.retry = retry /\ x.dataready = FALSE
    BY <2>2 DEF HandlersWith
  <2>5. /\ x.trigger = "NONE" /\ x.message = Read(0) /\ x.code = d.code
        /\ x.cmdh = d.cmdh /\ x.od = d.od /\ x.ev = "READEVENT" /\ x.addr = 0
        /\ x.num = 0 /\ x.current = 0 /\ x.events = none
        /\ x.confirmation = d.confirmation
    BY <2>2 DEF HandlersWith
  <2>6. Levels(x)
    BY <1>5, <2>4, <2>5 DEF Ready, Levels, Exchanging, Awaiting
  <2>7. Asked(x) /\ Changing(x, pending)
    BY <1>5, <2>4, <2>5 DEF Ready, Asked, Changing, Exchanging, Awaiting
  <2>8. Commanding(x) /\ Flagged(x)
    BY <1>5, <2>4, <2>5 DEF Ready, Commanding, Flagged, Exchanging, Awaiting, Sending
  <2>9. Confirming(x, pending, owed, away)
    BY <1>5, <2>4, <2>5, MessageTypes DEF Ready, Confirming
  <2>10. Reading(x, code)
    BY <1>5, <2>4, <2>5 DEF Ready, Reading, ReadSoFar, Part
  <2>11. d.confirmation => x.confirmation \/ x.message = Confirm
    BY <1>5, <2>4, <2>5
  <2> QED BY <1>11, <2>3, <2>4, <2>5, <2>6, <2>7, <2>8, <2>9, <2>10, <2>11 DEF Sound
<1>6. CASE ~d.code /\ d.od = "EVENT" /\ d.ev = "READEVENT"
  <2>1. m = [d EXCEPT !.trigger = "NONE", !.tx = Read(d.addr)]
    BY <1>6, MasterReadOn DEF Ready
  <2> HIDE DEF m
  <2>2. x = [d EXCEPT !.trigger = "NONE", !.tx = Read(d.addr), !.message = Read(d.addr),
                      !.dataready = FALSE, !.retry = retry, !.mh = mh, !.cycle = cycle]
    BY <2>1 DEF Sent, HandlersWith
  <2> HIDE DEF x
  <2>0. d.addr \in Addresses
    BY DEF HandlersWith
  <2>3. x \in HandlersWith(S)
    BY <1>0, <2>0, <1>10, <2>2, Update, MessageTypes, ZenonT(60) DEF Triggers, CmdStates, OdStates, EvStates
  <2>4. /\ x.mdh = d.mdh /\ x.mode = d.mode /\ x.comlost = d.comlost
        /\ x.chActive = d.chActive /\ x.operate = d.operate /\ x.preop = d.preop
        /\ x.ehActive = d.ehActive /\ x.flag = d.flag /\ x.cnt = d.cnt
        /\ x.status = d.status /\ x.signals = d.signals /\ x.mh = mh /\ x.cycle = cycle
        /\ x.retry = retry /\ x.dataready = FALSE
    BY <2>2 DEF HandlersWith
  <2>5. /\ x.trigger = "NONE" /\ x.message = Read(d.addr) /\ x.code = d.code
        /\ x.cmdh = d.cmdh /\ x.od = d.od /\ x.ev = d.ev /\ x.addr = d.addr
        /\ x.num = d.num /\ x.current = d.current /\ x.events = d.events
        /\ x.confirmation = d.confirmation
    BY <2>2 DEF HandlersWith
  <2>6. Levels(x)
    BY <1>6, <2>4, <2>5 DEF Ready, Levels, Exchanging, Awaiting
  <2>7. Asked(x) /\ Changing(x, pending)
    BY <1>6, <2>4, <2>5 DEF Ready, Asked, Changing, Exchanging, Awaiting
  <2>8. Commanding(x) /\ Flagged(x)
    BY <1>6, <2>4, <2>5 DEF Ready, Commanding, Flagged, Exchanging, Awaiting, Sending
  <2>9. Confirming(x, pending, owed, away)
    BY <1>6, <2>4, <2>5, MessageTypes DEF Ready, Confirming
  <2>10. Reading(x, code)
    BY <1>6, <2>4, <2>5 DEF Ready, Reading, ReadSoFar, Part
  <2>11. d.confirmation => x.confirmation \/ x.message = Confirm
    BY <1>6, <2>4, <2>5
  <2> QED BY <1>11, <2>3, <2>4, <2>5, <2>6, <2>7, <2>8, <2>9, <2>10, <2>11 DEF Sound
<1> QED BY <1>1, <1>2, <1>3, <1>4, <1>5, <1>6 DEF Ready

-----------------------------------------------------------------------------
(* What has been read of a set grows octet by octet.                       *)

(* The bits of a StatusCode are few. *)
LEMMA BitsOfSlots ==
  ASSUME NEW B \in SUBSET Slots
  PROVE  /\ B \in SUBSET Nat /\ IsFiniteSet(B) /\ Cardinality(B) \in Counts
         /\ \A b \in B : Rank(B, b) \in Slots /\ Rank(B, b) \in Counts /\ b \in Counts
<1>1. MaxEvents \in Nat \ {0}
  BY EventAssumption
<1>2. IsFiniteSet(Slots) /\ Cardinality(Slots) = MaxEvents
  BY <1>1, FS_Interval DEF Slots
<1>3. IsFiniteSet(B) /\ Cardinality(B) <= MaxEvents
  BY <1>2, FS_Subset
<1>4. B \in SUBSET Nat
  BY <1>1 DEF Slots
<1>5. Cardinality(B) \in Nat
  BY <1>3, FS_CardinalityType
<1>6. \A b \in B : Rank(B, b) \in 0 .. Cardinality(B) - 1
  BY <1>3, <1>4, RankBounds
<1> QED BY <1>1, <1>3, <1>4, <1>5, <1>6 DEF Slots, Counts

(* An octet goes to its place and leaves the others. *)
LEMMA TakenOctets ==
  ASSUME NEW e \in Handlers, e.current \in Slots, Part(e) \in 1 .. 3, Len(frozen) \in Nat
  PROVE  /\ Taken(e) \in Memories
         /\ \A s \in Slots : s # e.current => Taken(e)[s] = e.events[s]
         /\ \A i \in 1 .. 3 : i # Part(e) => Taken(e)[e.current][i] = e.events[e.current][i]
         /\ Taken(e)[e.current][Part(e)] = Octet(Len(frozen), e.addr)
<1> DEFINE octet == Octet(Len(frozen), e.addr)
<1> DEFINE mem == e.events
<1> DEFINE here == e.current
<1> DEFINE part == e.addr - 3 * e.cnt
<1>1. mem \in [Slots -> [1 .. 3 -> SomeOctets]] /\ here \in Slots /\ part \in 1 .. 3
  BY DEF Handlers, HandlersWith, Memories, Part
<1>2. octet \in SomeOctets
  BY DEF Octet, SomeOctets, Handlers, HandlersWith, Addresses
<1>3. Taken(e) = [mem EXCEPT ![here] = [mem[here] EXCEPT ![part] = octet]]
  BY DEF Taken
<1> HIDE DEF octet, mem, here, part
<1>4. /\ Taken(e) \in [Slots -> [1 .. 3 -> SomeOctets]]
      /\ \A s \in Slots : s # here => Taken(e)[s] = mem[s]
      /\ \A i \in 1 .. 3 : i # part => Taken(e)[here][i] = mem[here][i]
      /\ Taken(e)[here][part] = octet
  BY <1>1, <1>2, <1>3
<1> QED BY <1>4 DEF octet, mem, here, part, Part, Memories

(* The next bit has one more below it. *)
LEMMA NextRank ==
  ASSUME NEW B \in SUBSET Nat, IsFiniteSet(B), NEW b \in B, NEW c \in B, b < c,
         \A x \in B : b < x => c <= x
  PROVE  /\ Rank(B, c) = Rank(B, b) + 1
         /\ \A x \in B : x < c => x < b \/ x = b
<1>1. Below(B, c) = Below(B, b) \cup {b} /\ b \notin Below(B, b)
  <2>1. ASSUME NEW x PROVE x \in Below(B, c) <=> x \in Below(B, b) \cup {b}
    <3>1. CASE x \in B
      <4>1. x \in Nat /\ b \in Nat /\ c \in Nat
        BY <3>1
      <4> QED BY <3>1, <4>1 DEF Below
    <3>2. CASE x \notin B
      BY <3>2 DEF Below
    <3> QED BY <3>1, <3>2
  <2>2. b \notin Below(B, b)
    BY DEF Below
  <2> QED BY <2>1, <2>2
<1>2. IsFiniteSet(Below(B, b))
  BY FS_Subset DEF Below
<1>3. Cardinality(Below(B, c)) = Cardinality(Below(B, b)) + 1
  BY <1>1, <1>2, FS_AddElement
<1> QED BY <1>3 DEF Rank, Below

(* The first bit has none below it. *)
LEMMA FirstRank ==
  ASSUME NEW B \in SUBSET Nat, IsFiniteSet(B), NEW b \in B, \A x \in B : b <= x
  PROVE  Rank(B, b) = 0
<1>1. ASSUME NEW x \in Below(B, b) PROVE FALSE
  BY DEF Below
<1> QED BY <1>1, FS_EmptySet DEF Rank, Below

(* The fields the reading of a set changes. *)
LEMMA DueTypes ==
  ASSUME NEW e \in Handlers
  PROVE  /\ \A code \in Statuses, num \in Counts, addr \in Addresses, cnt \in Counts :
               [e EXCEPT !.status = code, !.num = num, !.addr = addr, !.cnt = cnt] \in Handlers
         /\ \A mem \in Memories, addr \in Addresses :
               [e EXCEPT !.events = mem, !.addr = addr] \in Handlers
         /\ \A mem \in Memories, current \in Counts, cnt \in Counts, addr \in Addresses :
               [e EXCEPT !.events = mem, !.current = current, !.cnt = cnt, !.addr = addr]
                  \in Handlers
BY Update DEF Handlers

(* The StatusCode has been read. *)
LEMMA FirstOctetDue ==
  ASSUME NEW e \in Handlers, NEW code \in Statuses, code.details, code.no # 0, code.bits # {},
         e.num = 0, e.current = 0
  PROVE  LET x == [e EXCEPT !.status = code, !.num = e.num + Cardinality(code.bits),
                            !.addr = 3 * Min(code.bits) + 1, !.cnt = Min(code.bits)]
         IN  x \in Handlers /\ ReadSoFar(x, code)
<1> DEFINE x == [e EXCEPT !.status = code, !.num = e.num + Cardinality(code.bits),
                          !.addr = 3 * Min(code.bits) + 1, !.cnt = Min(code.bits)]
<1> DEFINE B == code.bits
<1> DEFINE first == Min(B)
<1>1. B \in SUBSET Slots
  BY DEF Statuses
<1>2. /\ B \in SUBSET Nat /\ IsFiniteSet(B) /\ Cardinality(B) \in Counts
      /\ \A b \in B : b \in Counts
  BY <1>1, BitsOfSlots
<1>3. first \in B /\ \A b \in B : first <= b
  BY <1>2, SmallestElement
<1>4. Rank(B, first) = 0
  BY <1>2, <1>3, FirstRank
<1> DEFINE num == e.num + Cardinality(B)
<1> DEFINE addr == 3 * first + 1
<1>5. num = Cardinality(B) /\ num \in Counts
  BY <1>2 DEF Counts
<1>6. first \in Slots /\ first \in Counts /\ addr \in Addresses /\ addr - 3 * first = 1
  BY <1>1, <1>2, <1>3, EventAssumption DEF Slots, Addresses
<1>7. x = [e EXCEPT !.status = code, !.num = num, !.addr = addr, !.cnt = first]
  OBVIOUS
<1> HIDE DEF num, addr, first, x
<1>8. x \in Handlers
  <2>1. num \in Counts /\ addr \in Addresses /\ first \in Counts
    BY <1>5, <1>6
  <2> QED BY <1>7, <2>1, DueTypes
<1>9. /\ x.status = code /\ x.num = num /\ x.addr = addr /\ x.cnt = first
      /\ x.current = 0
  BY <1>7 DEF Handlers, HandlersWith
<1>10. \A b \in B : ~(b < first)
  BY <1>2, <1>3
<1> QED BY <1>3, <1>4, <1>5, <1>6, <1>8, <1>9, <1>10 DEF ReadSoFar, Part, x

(* One more octet of an entry. *)
LEMMA NextOctetDue ==
  ASSUME NEW e \in Handlers, NEW code \in Statuses, ReadSoFar(e, code), code.no = Len(frozen),
         Part(e) \in {1, 2}
  PROVE  LET x == [e EXCEPT !.events = Taken(e), !.addr = e.addr + 1]
         IN  x \in Handlers /\ ReadSoFar(x, code)
<1> DEFINE x == [e EXCEPT !.events = Taken(e), !.addr = e.addr + 1]
<1> DEFINE B == code.bits
<1>1. B \in SUBSET Slots /\ code.no \in Nat
  BY DEF Statuses
<1>2. /\ B \in SUBSET Nat /\ IsFiniteSet(B)
      /\ \A b \in B : Rank(B, b) \in Slots
  BY <1>1, BitsOfSlots
<1>3. e.cnt \in B /\ e.current = Rank(B, e.cnt) /\ e.current \in Slots
  BY <1>2 DEF ReadSoFar
<1> DEFINE mem == Taken(e)
<1>4. /\ mem \in Memories
      /\ \A s \in Slots : s # e.current => mem[s] = e.events[s]
      /\ \A i \in 1 .. 3 : i # Part(e) => mem[e.current][i] = e.events[e.current][i]
      /\ mem[e.current][Part(e)] = Octet(code.no, e.addr)
  BY <1>1, <1>3, TakenOctets
<1>5. e.addr \in Nat /\ e.cnt \in Slots /\ e.addr = 3 * e.cnt + Part(e)
  BY <1>1, <1>3 DEF Part, Handlers, HandlersWith, Addresses, Slots
<1>6. e.addr + 1 \in Addresses
  <2>1. MaxEvents \in Nat /\ e.cnt \in 0 .. MaxEvents - 1
    BY <1>5, EventAssumption DEF Slots
  <2> QED BY <1>5, <2>1 DEF Addresses
<1>7. x = [e EXCEPT !.events = mem, !.addr = e.addr + 1]
  OBVIOUS
<1> HIDE DEF mem, x
<1>8. x \in Handlers
  <2>1. mem \in Memories
    BY <1>4
  <2> DEFINE next == e.addr + 1
  <2>2. x = [e EXCEPT !.events = mem, !.addr = next] /\ next \in Addresses
    BY <1>6, <1>7
  <2> HIDE DEF next
  <2> QED BY <2>1, <2>2, DueTypes
<1>9. /\ x.status = e.status /\ x.num = e.num /\ x.addr = e.addr + 1 /\ x.cnt = e.cnt
      /\ x.current = e.current /\ x.events = mem
  BY <1>7 DEF Handlers, HandlersWith
<1>10. Part(x) = Part(e) + 1
  BY <1>5, <1>9, SMTT(40) DEF Part, Slots
<1>11. \A b \in B : b < e.cnt => x.events[Rank(B, b)] = Details(code.no, b)
  <2> SUFFICES ASSUME NEW b \in B, b < e.cnt PROVE x.events[Rank(B, b)] = Details(code.no, b)
    OBVIOUS
  <2>1. Rank(B, b) # e.current
    BY <1>2, <1>3, RankOrder
  <2> QED BY <1>2, <1>4, <1>9, <2>1 DEF ReadSoFar
<1>12. \A i \in 1 .. 3 : i < Part(x) => x.events[x.current][i] = Octet(code.no, 3 * x.cnt + i)
  <2> SUFFICES ASSUME NEW i \in 1 .. 3, i < Part(x)
               PROVE  x.events[x.current][i] = Octet(code.no, 3 * x.cnt + i)
    OBVIOUS
  <2>1. CASE i = Part(e)
    BY <1>4, <1>5, <1>9, <2>1
  <2>2. CASE i < Part(e)
    BY <1>4, <1>9, <2>2 DEF ReadSoFar
  <2> QED BY <1>10, <2>1, <2>2
<1>13. /\ code.details /\ code.no # 0 /\ x.status = code /\ x.num = Cardinality(B)
       /\ x.cnt \in B /\ Part(x) \in 1 .. 3 /\ x.current = Rank(B, x.cnt)
  BY <1>3, <1>9, <1>10 DEF ReadSoFar
<1> QED BY <1>8, <1>11, <1>12, <1>13 DEF ReadSoFar, x

(* The whole of an entry, with its last octet. *)
LEMMA EntryRead ==
  ASSUME NEW e \in Handlers, NEW code \in Statuses, ReadSoFar(e, code), code.no = Len(frozen),
         Part(e) = 3
  PROVE  /\ Taken(e) \in Memories
         /\ e.current \in Slots
         /\ \A b \in code.bits : b <= e.cnt => Taken(e)[Rank(code.bits, b)] = Details(code.no, b)
<1> DEFINE B == code.bits
<1>1. B \in SUBSET Slots /\ code.no \in Nat
  BY DEF Statuses
<1>2. /\ B \in SUBSET Nat /\ IsFiniteSet(B)
      /\ \A b \in B : Rank(B, b) \in Slots
  BY <1>1, BitsOfSlots
<1>3. e.cnt \in B /\ e.current = Rank(B, e.cnt) /\ e.current \in Slots
  BY <1>2 DEF ReadSoFar
<1> DEFINE mem == Taken(e)
<1>4. /\ mem \in Memories
      /\ \A s \in Slots : s # e.current => mem[s] = e.events[s]
      /\ \A i \in 1 .. 3 : i # Part(e) => mem[e.current][i] = e.events[e.current][i]
      /\ mem[e.current][Part(e)] = Octet(code.no, e.addr)
  BY <1>1, <1>3, TakenOctets
<1>5. e.addr \in Nat /\ e.cnt \in Slots /\ e.addr = 3 * e.cnt + 3
  BY <1>1, <1>3 DEF Part, Handlers, HandlersWith, Addresses, Slots
<1> HIDE DEF mem
<1>6. mem[e.current] = Details(code.no, e.cnt)
  <2>1. \A i \in 1 .. 3 : mem[e.current][i] = Octet(code.no, 3 * e.cnt + i)
    <3> SUFFICES ASSUME NEW i \in 1 .. 3
                 PROVE  mem[e.current][i] = Octet(code.no, 3 * e.cnt + i)
      OBVIOUS
    <3>1. CASE i = 3
      BY <1>4, <1>5, <3>1
    <3>2. CASE i < 3
      BY <1>4, <3>2 DEF ReadSoFar
    <3> QED BY <3>1, <3>2
  <2>2. mem[e.current] \in [1 .. 3 -> SomeOctets]
    BY <1>3, <1>4 DEF Memories
  <2> QED BY <2>1, <2>2 DEF Details
<1>7. ASSUME NEW b \in B, b <= e.cnt PROVE mem[Rank(B, b)] = Details(code.no, b)
  <2>1. CASE b = e.cnt
    BY <1>3, <1>6, <2>1
  <2>2. CASE b < e.cnt
    <3>1. Rank(B, b) # e.current
      BY <1>2, <1>3, <2>2, RankOrder
    <3> QED BY <1>2, <1>4, <2>2, <3>1 DEF ReadSoFar
  <2> QED BY <1>2, <1>3, <1>7, <2>1, <2>2
<1> QED BY <1>3, <1>4, <1>7 DEF mem

(* The next entry. *)
LEMMA NextEntryDue ==
  ASSUME NEW e \in Handlers, NEW code \in Statuses, ReadSoFar(e, code), code.no = Len(frozen),
         Part(e) = 3, NextBits(e) # {}
  PROVE  LET x == [e EXCEPT !.events = Taken(e), !.current = e.current + 1,
                            !.cnt = Min(NextBits(e)), !.addr = 3 * Min(NextBits(e)) + 1]
         IN  x \in Handlers /\ ReadSoFar(x, code)
<1> DEFINE x == [e EXCEPT !.events = Taken(e), !.current = e.current + 1,
                          !.cnt = Min(NextBits(e)), !.addr = 3 * Min(NextBits(e)) + 1]
<1> DEFINE B == code.bits
<1> DEFINE mem == Taken(e)
<1> DEFINE next == Min(NextBits(e))
<1>1. B \in SUBSET Slots /\ code.no \in Nat
  BY DEF Statuses
<1>2. /\ B \in SUBSET Nat /\ IsFiniteSet(B)
      /\ \A b \in B : Rank(B, b) \in Slots /\ Rank(B, b) \in Counts /\ b \in Counts
  BY <1>1, BitsOfSlots
<1>3. e.cnt \in B /\ e.current = Rank(B, e.cnt)
  BY DEF ReadSoFar
<1>4. NextBits(e) = {s \in B : s > e.cnt}
  BY DEF NextBits, ReadSoFar
<1>5. NextBits(e) \in SUBSET Nat /\ IsFiniteSet(NextBits(e))
  BY <1>2, <1>4, FS_Subset
<1>6. next \in NextBits(e) /\ \A s \in NextBits(e) : next <= s
  BY <1>5, SmallestElement
<1>7. next \in B /\ next > e.cnt /\ (\A s \in B : e.cnt < s => next <= s)
  BY <1>2, <1>3, <1>4, <1>6
<1>8. Rank(B, next) = e.current + 1 /\ \A s \in B : s < next => s < e.cnt \/ s = e.cnt
  BY <1>2, <1>3, <1>7, NextRank
<1>9. /\ mem \in Memories
      /\ \A b \in B : b <= e.cnt => mem[Rank(B, b)] = Details(code.no, b)
  BY EntryRead
<1> DEFINE cur == e.current + 1
<1> DEFINE addr == 3 * next + 1
<1>10. next \in Slots /\ next \in Counts /\ addr \in Addresses /\ addr - 3 * next = 1
       /\ cur \in Counts
  BY <1>1, <1>2, <1>7, <1>8, EventAssumption, SMTT(40) DEF Slots, Addresses
<1>11. x = [e EXCEPT !.events = mem, !.current = cur, !.cnt = next, !.addr = addr]
  OBVIOUS
<1>12. cur = e.current + 1
  OBVIOUS
<1> HIDE DEF mem, next, cur, addr, x
<1>13. x \in Handlers
  <2>1. mem \in Memories /\ cur \in Counts /\ next \in Counts /\ addr \in Addresses
    BY <1>9, <1>10
  <2> QED BY <1>11, <2>1, DueTypes
<1>14. /\ x.status = e.status /\ x.num = e.num /\ x.addr = addr /\ x.cnt = next
       /\ x.current = cur /\ x.events = mem
  BY <1>11 DEF Handlers, HandlersWith
<1>15. \A b \in B : b < next => b <= e.cnt
  BY <1>2, <1>3, <1>8
<1>16. Part(x) = 1
  BY <1>10, <1>14 DEF Part
<1>17. \A i \in 1 .. 3 : ~(i < Part(x))
  BY <1>16
<1>18. /\ code.details /\ code.no # 0 /\ x.status = code /\ x.num = Cardinality(B)
       /\ x.cnt \in B /\ Part(x) \in 1 .. 3 /\ x.current = Rank(B, x.cnt)
  BY <1>7, <1>8, <1>12, <1>14, <1>16 DEF ReadSoFar
<1>19. \A b \in B : b < x.cnt => x.events[Rank(B, b)] = Details(code.no, b)
  BY <1>9, <1>14, <1>15
<1> QED BY <1>13, <1>17, <1>18, <1>19 DEF ReadSoFar, x

(* The last octet makes the set what the device means by it. *)
LEMMA SetRead ==
  ASSUME NEW e \in Handlers, NEW code \in Statuses, ReadSoFar(e, code), code.no = Len(frozen),
         Part(e) = 3, NextBits(e) = {}
  PROVE  [i \in 1 .. e.num |-> Taken(e)[i - 1]] =
           [i \in 1 .. Len(Ascending(code.bits)) |-> Details(code.no, Ascending(code.bits)[i])]
<1> DEFINE B == code.bits
<1>1. B \in SUBSET Slots
  BY DEF Statuses
<1>2. B \in SUBSET Nat /\ IsFiniteSet(B)
  BY <1>1, BitsOfSlots
<1>3. \A b \in B : b <= e.cnt
  BY <1>2 DEF NextBits, ReadSoFar
<1>4. \A b \in B : Taken(e)[Rank(B, b)] = Details(code.no, b)
  BY <1>3, EntryRead
<1>5. /\ Len(Ascending(B)) = Cardinality(B)
      /\ \A i \in 1 .. Cardinality(B) : Ascending(B)[i] \in B /\ Rank(B, Ascending(B)[i]) = i - 1
  BY <1>2, AscendingElements
<1>6. e.num = Cardinality(B)
  BY DEF ReadSoFar
<1>7. \A i \in 1 .. Cardinality(B) : Taken(e)[i - 1] = Details(code.no, Ascending(B)[i])
  BY <1>4, <1>5
<1> QED BY <1>5, <1>6, <1>7

-----------------------------------------------------------------------------
(* The reply to a message of the cyclic exchange.                          *)

(* What the StatusCode of a set says. *)
LEMMA StatusType ==
  ASSUME TypeInv
  PROVE  /\ Len(frozen) \in Nat /\ Pending \in BOOLEAN /\ StatusCode \in Statuses
         /\ Pending => /\ Len(frozen) \in 1 .. Len(frozen)
                       /\ frozen[Len(frozen)] \in Kinds
                       /\ StatusCode.no = Len(frozen) /\ StatusCode.no # 0
                       /\ StatusCode.details = frozen[Len(frozen)].details
                       /\ StatusCode.bits = frozen[Len(frozen)].bits
                       /\ StatusCode.bits # {}
         /\ ~Pending => StatusCode = NoStatus
         /\ NoStatus \in Statuses /\ NoStatus.no = 0
<1>1. Len(frozen) \in Nat /\ Pending \in BOOLEAN
  BY DEF TypeInv, Pending
<1>2. NoStatus \in Statuses /\ NoStatus.no = 0
  BY DEF NoStatus, Statuses
<1>3. CASE ~Pending
  <2>1. StatusCode = NoStatus
    BY <1>3 DEF StatusCode
  <2> QED BY <1>1, <1>2, <1>3, <2>1
<1>4. CASE Pending
  <2>1. Len(frozen) >= 1
    BY <1>1, <1>4 DEF TypeInv, Pending
  <2>2. frozen[Len(frozen)] \in Kinds /\ Last(frozen) = frozen[Len(frozen)]
    BY <2>1 DEF TypeInv, Last
  <2> DEFINE kind == frozen[Len(frozen)]
  <2>3. kind.details \in BOOLEAN /\ kind.bits \subseteq Slots /\ kind.bits # {}
    BY <2>2, EventAssumption
  <2>4. StatusCode = [no |-> Len(frozen), details |-> kind.details, bits |-> kind.bits]
    BY <1>4, <2>2 DEF StatusCode
  <2> HIDE DEF kind
  <2>5. /\ StatusCode \in Statuses /\ StatusCode.no = Len(frozen)
        /\ StatusCode.details = kind.details /\ StatusCode.bits = kind.bits
    BY <1>1, <2>3, <2>4 DEF Statuses
  <2> QED BY <1>1, <1>2, <1>4, <2>1, <2>2, <2>3, <2>5 DEF kind
<1> QED BY <1>3, <1>4

(* A set as the device means it: the entries of its bits in their order. *)
LEMMA MeantEntries ==
  ASSUME NEW n \in 1 .. Len(frozen), frozen[n] \in Kinds
  PROVE  LET kind == frozen[n]
             A == Ascending(kind.bits)
         IN  /\ kind.details => Meant(n) = [i \in 1 .. Len(A) |-> Details(n, A[i])]
             /\ ~kind.details => Meant(n) = [i \in 1 .. Len(A) |-> NoDetails(n, A[i])]
BY DEF Meant

(* What the message handler knows when a reply has come in. *)
LEMMA Cyclic ==
  ASSUME DlInv, h.mh = "AW_REPLY_16"
  PROVE  /\ h \in Handlers /\ h.mdh = "OPERATE" /\ h.ehActive /\ h.chActive /\ ~h.comlost
         /\ h.od \in {"ISDU", "COMMAND", "EVENT"} /\ h.ev \in {"IDLE", "READEVENT"}
         /\ h.cycle /\ h.retry <= MaxRetry /\ h.mode # "PREOPERATE"
         /\ h.od = "COMMAND" => ~h.code
BY DEF DlInv, TypeInv, Levels, Asked, Commanding, Exchanging, Awaiting, Sending, Handlers,
       HandlersWith, MdhStates, OdStates, EvStates

(* The flag of a reply, which answers the confirmation of a set without it. *)
Answered == Pending /\ ~Confirmed
AnsweredCode == IF Answered THEN StatusCode ELSE NoStatus

(* Either nothing is signalled, *)
HandledQuietly(r) ==
    /\ r \in Handlers
    /\ Ready(r, Answered, Owed, lost, AnsweredCode)
    /\ r.mdh = "OPERATE" /\ r.mh = "AW_REPLY_16" /\ r.cycle /\ r.retry <= MaxRetry
    /\ Known(r.events, Len(frozen))
    /\ h.confirmation => r.confirmation

(* or the set that is pending. *)
HandledSet(r) ==
    /\ Pending /\ ~Confirmed /\ ~h.confirmation /\ h.message # Confirm
    /\ r \in HandlersWith({<<Meant(Len(frozen))>>})
    /\ Ready(r, TRUE, TRUE, FALSE, StatusCode)
    /\ r.mdh = "OPERATE" /\ r.mh = "AW_REPLY_16" /\ r.cycle /\ r.retry <= MaxRetry
    /\ Known(r.events, Len(frozen))

(* A reply that is not of the event handler, and no flag. *)
LEMMA ReplyIsdu ==
  ASSUME DlInv, app = "idle", h.mh = "AW_REPLY_16", h.message # NoMessage, h.od = "ISDU", ~Answered
  PROVE  HandledQuietly(Device([h EXCEPT !.flag = Answered]))
<1> DEFINE f == Answered
<1> DEFINE d == [h EXCEPT !.flag = f]
<1> DEFINE r == Device(d)
<1>1. /\ h \in Handlers /\ h.mdh = "OPERATE" /\ h.ehActive /\ h.chActive /\ ~h.comlost
      /\ h.od \in {"ISDU", "COMMAND", "EVENT"} /\ h.ev \in {"IDLE", "READEVENT"}
      /\ h.cycle /\ h.retry <= MaxRetry /\ h.mode # "PREOPERATE"
      /\ h.od = "COMMAND" => ~h.code
  BY Cyclic
<1>2. f \in BOOLEAN
  BY StatusType DEF DlInv, Answered, Confirmed
<1>3. f = Answered
  OBVIOUS
<1> HIDE DEF f
<1>4. d \in Handlers
  BY <1>1, <1>2, Update DEF Handlers
<1>5. ~d.flag /\ d.od = "ISDU"
  BY <1>1, <1>3 DEF Handlers, HandlersWith
<1>6. r = [d EXCEPT !.trigger = "NONE"]
  BY <1>4, <1>5, DeviceIsdu
<1> HIDE DEF r
<1>9. r \in Handlers
  BY <1>4, <1>6, Update DEF Handlers, Triggers, OdStates
<1>10. /\ r.mode = h.mode /\ r.comlost = h.comlost /\ r.chActive = h.chActive
       /\ r.operate = h.operate /\ r.preop = h.preop /\ r.ehActive = h.ehActive
       /\ r.cnt = h.cnt /\ r.status = h.status /\ r.signals = h.signals
       /\ r.retry = h.retry /\ r.mh = h.mh /\ r.cycle = h.cycle /\ r.mdh = h.mdh
  BY <1>1, <1>6 DEF Handlers, HandlersWith
<1>11. /\ r.trigger = "NONE" /\ r.message = h.message /\ r.code = h.code
       /\ r.cmdh = h.cmdh /\ r.od = h.od /\ r.ev = h.ev /\ r.addr = h.addr
       /\ r.num = h.num /\ r.current = h.current /\ r.events = h.events
       /\ r.confirmation = h.confirmation /\ r.flag = f
  BY <1>1, <1>6 DEF Handlers, HandlersWith
<1>12. Changing(r, f)
  BY <1>1, <1>3, <1>10, <1>11 DEF DlInv, Changing, Answered
<1>13. /\ r.confirmation => f /\ Owed /\ r.ev = "IDLE"
       /\ Owed /\ f /\ ~lost => r.confirmation
  BY <1>1, <1>3, <1>10, <1>11 DEF DlInv, Confirming, Answered, Confirmed
<1>14. Reading(r, AnsweredCode)
  <2>1. h.ev = "READEVENT" => AnsweredCode = StatusCode
    BY <1>3, StatusType, MessageTypes DEF DlInv, Confirming, Answered, AnsweredCode, Confirmed
  <2>2. Reading(h, StatusCode)
    BY DEF DlInv
  <2> QED BY <1>10, <1>11, <2>1, <2>2 DEF Reading, ReadSoFar, Part
<1>15. r.code => r.cmdh = "MASTERCOMMAND"
  BY <1>10, <1>11 DEF DlInv, Commanding
<1>16. ~r.code => r.cmdh = "IDLE"
  BY <1>1, <1>10, <1>11 DEF DlInv, Commanding
<1>17. Ready(r, f, Owed, lost, AnsweredCode)
  BY <1>1, <1>3, <1>10, <1>11, <1>12, <1>13, <1>14, <1>15, <1>16 DEF Ready, Exchanging
<1> QED
  BY <1>1, <1>3, <1>9, <1>10, <1>11, <1>17 DEF HandledQuietly, DlInv, OctetsKnown, r, d

(* With the flag, the event handler is next. *)
LEMMA ReplyIsduFlag ==
  ASSUME DlInv, app = "idle", h.mh = "AW_REPLY_16", h.message # NoMessage, h.od = "ISDU", Answered
  PROVE  HandledQuietly(Device([h EXCEPT !.flag = Answered]))
<1> DEFINE f == Answered
<1> DEFINE d == [h EXCEPT !.flag = f]
<1> DEFINE r == Device(d)
<1>1. /\ h \in Handlers /\ h.mdh = "OPERATE" /\ h.ehActive /\ h.chActive /\ ~h.comlost
      /\ h.od \in {"ISDU", "COMMAND", "EVENT"} /\ h.ev \in {"IDLE", "READEVENT"}
      /\ h.cycle /\ h.retry <= MaxRetry /\ h.mode # "PREOPERATE"
      /\ h.od = "COMMAND" => ~h.code
  BY Cyclic
<1>2. f \in BOOLEAN
  BY StatusType DEF DlInv, Answered, Confirmed
<1>3. f = Answered
  OBVIOUS
<1> HIDE DEF f
<1>4. d \in Handlers
  BY <1>1, <1>2, Update DEF Handlers
<1>5. d.flag /\ d.od = "ISDU"
  BY <1>1, <1>3 DEF Handlers, HandlersWith
<1>6. r = [d EXCEPT !.trigger = "DEVICE", !.od = "EVENT"]
  BY <1>4, <1>5, DeviceIsduFlag
<1> HIDE DEF r
<1>9. r \in Handlers
  BY <1>4, <1>6, Update DEF Handlers, Triggers, OdStates
<1>10. /\ r.mode = h.mode /\ r.comlost = h.comlost /\ r.chActive = h.chActive
       /\ r.operate = h.operate /\ r.preop = h.preop /\ r.ehActive = h.ehActive
       /\ r.cnt = h.cnt /\ r.status = h.status /\ r.signals = h.signals
       /\ r.retry = h.retry /\ r.mh = h.mh /\ r.cycle = h.cycle /\ r.mdh = h.mdh
  BY <1>1, <1>6 DEF Handlers, HandlersWith
<1>11. /\ r.trigger = "DEVICE" /\ r.message = h.message /\ r.code = h.code
       /\ r.cmdh = h.cmdh /\ r.od = "EVENT" /\ r.ev = h.ev /\ r.addr = h.addr
       /\ r.num = h.num /\ r.current = h.current /\ r.events = h.events
       /\ r.confirmation = h.confirmation /\ r.flag = f
  BY <1>1, <1>6 DEF Handlers, HandlersWith
<1>12. Changing(r, f)
  BY <1>1, <1>3, <1>10, <1>11 DEF DlInv, Changing, Answered
<1>13. /\ r.confirmation => f /\ Owed /\ r.ev = "IDLE"
       /\ Owed /\ f /\ ~lost => r.confirmation
  BY <1>1, <1>3, <1>10, <1>11 DEF DlInv, Confirming, Answered, Confirmed
<1>14. Reading(r, AnsweredCode)
  <2>1. h.ev = "READEVENT" => AnsweredCode = StatusCode
    BY <1>3, StatusType, MessageTypes DEF DlInv, Confirming, Answered, AnsweredCode, Confirmed
  <2>2. Reading(h, StatusCode)
    BY DEF DlInv
  <2> QED BY <1>10, <1>11, <2>1, <2>2 DEF Reading, ReadSoFar, Part
<1>15. r.code => r.cmdh = "MASTERCOMMAND"
  BY <1>10, <1>11 DEF DlInv, Commanding
<1>16. ~r.code => r.cmdh = "IDLE"
  BY <1>1, <1>10, <1>11 DEF DlInv, Commanding
<1>17. Ready(r, f, Owed, lost, AnsweredCode)
  BY <1>1, <1>3, <1>10, <1>11, <1>12, <1>13, <1>14, <1>15, <1>16, ZenonT(60) DEF Ready, Exchanging
<1> QED
  BY <1>1, <1>3, <1>9, <1>10, <1>11, <1>17, ZenonT(60) DEF HandledQuietly, DlInv, OctetsKnown, r, d

(* A command has been answered. *)
LEMMA ReplyCommand ==
  ASSUME DlInv, app = "idle", h.mh = "AW_REPLY_16", h.message # NoMessage, h.od = "COMMAND"
  PROVE  HandledQuietly(Device([h EXCEPT !.flag = Answered]))
<1> DEFINE f == Answered
<1> DEFINE d == [h EXCEPT !.flag = f]
<1> DEFINE r == Device(d)
<1>1. /\ h \in Handlers /\ h.mdh = "OPERATE" /\ h.ehActive /\ h.chActive /\ ~h.comlost
      /\ h.od \in {"ISDU", "COMMAND", "EVENT"} /\ h.ev \in {"IDLE", "READEVENT"}
      /\ h.cycle /\ h.retry <= MaxRetry /\ h.mode # "PREOPERATE"
      /\ h.od = "COMMAND" => ~h.code
  BY Cyclic
<1>2. f \in BOOLEAN
  BY StatusType DEF DlInv, Answered, Confirmed
<1>3. f = Answered
  OBVIOUS
<1> HIDE DEF f
<1>4. d \in Handlers
  BY <1>1, <1>2, Update DEF Handlers
<1>5. d.od = "COMMAND" /\ ~d.code
  BY <1>1, <1>3 DEF Handlers, HandlersWith
<1> DEFINE preop == IF d.operate THEN "confirmed" ELSE d.preop
<1> DEFINE od == IF d.flag THEN "EVENT" ELSE "ISDU"
<1>6. r = [d EXCEPT !.trigger = "NONE", !.operate = FALSE, !.preop = preop, !.od = od]
  BY <1>4, <1>5, DeviceCommand
<1>7. preop \in Preops /\ od = IF f THEN "EVENT" ELSE "ISDU"
  BY <1>1, <1>4 DEF Handlers, HandlersWith, Preops
<1>8. od \in OdStates
  BY <1>7 DEF OdStates
<1> HIDE DEF r, preop, od
<1>9. r \in Handlers
  BY <1>4, <1>6, <1>7, <1>8, Update DEF Handlers, Triggers, OdStates
<1>10. /\ r.mode = h.mode /\ r.comlost = h.comlost /\ r.chActive = h.chActive
       /\ r.operate = FALSE /\ r.preop = preop /\ r.ehActive = h.ehActive
       /\ r.cnt = h.cnt /\ r.status = h.status /\ r.signals = h.signals
       /\ r.retry = h.retry /\ r.mh = h.mh /\ r.cycle = h.cycle /\ r.mdh = h.mdh
  BY <1>1, <1>6 DEF Handlers, HandlersWith
<1>11. /\ r.trigger = "NONE" /\ r.message = h.message /\ r.code = h.code
       /\ r.cmdh = h.cmdh /\ r.od = od /\ r.ev = h.ev /\ r.addr = h.addr
       /\ r.num = h.num /\ r.current = h.current /\ r.events = h.events
       /\ r.confirmation = h.confirmation /\ r.flag = f
  BY <1>1, <1>6 DEF Handlers, HandlersWith
<1>12. Changing(r, f)
  BY <1>1, <1>3, <1>7, <1>10, <1>11 DEF DlInv, Changing, Answered
<1>13. /\ r.confirmation => f /\ Owed /\ r.ev = "IDLE"
       /\ Owed /\ f /\ ~lost => r.confirmation
  BY <1>1, <1>3, <1>10, <1>11 DEF DlInv, Confirming, Answered, Confirmed
<1>14. Reading(r, AnsweredCode)
  <2>1. h.ev = "READEVENT" => AnsweredCode = StatusCode
    BY <1>3, StatusType, MessageTypes DEF DlInv, Confirming, Answered, AnsweredCode, Confirmed
  <2>2. Reading(h, StatusCode)
    BY DEF DlInv
  <2> QED BY <1>10, <1>11, <2>1, <2>2 DEF Reading, ReadSoFar, Part
<1>15. r.code => r.cmdh = "MASTERCOMMAND"
  BY <1>10, <1>11 DEF DlInv, Commanding
<1>16. ~r.code => r.cmdh = "IDLE"
  BY <1>1, <1>10, <1>11 DEF DlInv, Commanding
<1>17. Ready(r, f, Owed, lost, AnsweredCode)
  BY <1>1, <1>3, <1>7, <1>10, <1>11, <1>12, <1>13, <1>14, <1>15, <1>16 DEF Ready, Exchanging
<1> QED
  BY <1>1, <1>3, <1>9, <1>10, <1>11, <1>17 DEF HandledQuietly, DlInv, OctetsKnown, r, d

(* The confirmation has been answered. *)
LEMMA ReplyFlagGone ==
  ASSUME DlInv, app = "idle", h.mh = "AW_REPLY_16", h.message # NoMessage, h.od = "EVENT", ~Answered
  PROVE  HandledQuietly(Device([h EXCEPT !.flag = Answered]))
<1> DEFINE f == Answered
<1> DEFINE d == [h EXCEPT !.flag = f]
<1> DEFINE r == Device(d)
<1>1. /\ h \in Handlers /\ h.mdh = "OPERATE" /\ h.ehActive /\ h.chActive /\ ~h.comlost
      /\ h.od \in {"ISDU", "COMMAND", "EVENT"} /\ h.ev \in {"IDLE", "READEVENT"}
      /\ h.cycle /\ h.retry <= MaxRetry /\ h.mode # "PREOPERATE"
      /\ h.od = "COMMAND" => ~h.code
  BY Cyclic
<1>2. f \in BOOLEAN
  BY StatusType DEF DlInv, Answered, Confirmed
<1>3. f = Answered
  OBVIOUS
<1> HIDE DEF f
<1>4. d \in Handlers
  BY <1>1, <1>2, Update DEF Handlers
<1>5. ~d.flag /\ d.od = "EVENT"
  BY <1>1, <1>3 DEF Handlers, HandlersWith
<1>6. r = [d EXCEPT !.trigger = "DEVICE", !.od = "ISDU"]
  BY <1>4, <1>5, DeviceFlagGone
<1> HIDE DEF r
<1>9. r \in Handlers
  BY <1>4, <1>6, Update DEF Handlers, Triggers, OdStates
<1>10. /\ r.mode = h.mode /\ r.comlost = h.comlost /\ r.chActive = h.chActive
       /\ r.operate = h.operate /\ r.preop = h.preop /\ r.ehActive = h.ehActive
       /\ r.cnt = h.cnt /\ r.status = h.status /\ r.signals = h.signals
       /\ r.retry = h.retry /\ r.mh = h.mh /\ r.cycle = h.cycle /\ r.mdh = h.mdh
  BY <1>1, <1>6 DEF Handlers, HandlersWith
<1>11. /\ r.trigger = "DEVICE" /\ r.message = h.message /\ r.code = h.code
       /\ r.cmdh = h.cmdh /\ r.od = "ISDU" /\ r.ev = h.ev /\ r.addr = h.addr
       /\ r.num = h.num /\ r.current = h.current /\ r.events = h.events
       /\ r.confirmation = h.confirmation /\ r.flag = f
  BY <1>1, <1>6 DEF Handlers, HandlersWith
<1>12. Changing(r, f)
  BY <1>1, <1>3, <1>10, <1>11 DEF DlInv, Changing, Answered
<1>13. /\ r.confirmation => f /\ Owed /\ r.ev = "IDLE"
       /\ Owed /\ f /\ ~lost => r.confirmation
  BY <1>1, <1>3, <1>10, <1>11 DEF DlInv, Confirming, Answered, Confirmed
<1>14. Reading(r, AnsweredCode)
  <2>1. h.ev = "READEVENT" => AnsweredCode = StatusCode
    BY <1>3, StatusType, MessageTypes DEF DlInv, Confirming, Answered, AnsweredCode, Confirmed
  <2>2. Reading(h, StatusCode)
    BY DEF DlInv
  <2> QED BY <1>10, <1>11, <2>1, <2>2 DEF Reading, ReadSoFar, Part
<1>15. r.code => r.cmdh = "MASTERCOMMAND"
  BY <1>10, <1>11 DEF DlInv, Commanding
<1>16. ~r.code => r.cmdh = "IDLE"
  BY <1>1, <1>10, <1>11 DEF DlInv, Commanding
<1>17. Ready(r, f, Owed, lost, AnsweredCode)
  BY <1>1, <1>3, <1>10, <1>11, <1>12, <1>13, <1>14, <1>15, <1>16 DEF Ready, Exchanging
<1> QED
  BY <1>1, <1>3, <1>9, <1>10, <1>11, <1>17 DEF HandledQuietly, DlInv, OctetsKnown, r, d

(* Nothing is being read. *)
LEMMA ReplyEvIdle ==
  ASSUME DlInv, app = "idle", h.mh = "AW_REPLY_16", h.message # NoMessage, h.od = "EVENT", Answered, h.ev = "IDLE"
  PROVE  HandledQuietly(Device([h EXCEPT !.flag = Answered]))
<1> DEFINE f == Answered
<1> DEFINE d == [h EXCEPT !.flag = f]
<1> DEFINE r == Device(d)
<1>1. /\ h \in Handlers /\ h.mdh = "OPERATE" /\ h.ehActive /\ h.chActive /\ ~h.comlost
      /\ h.od \in {"ISDU", "COMMAND", "EVENT"} /\ h.ev \in {"IDLE", "READEVENT"}
      /\ h.cycle /\ h.retry <= MaxRetry /\ h.mode # "PREOPERATE"
      /\ h.od = "COMMAND" => ~h.code
  BY Cyclic
<1>2. f \in BOOLEAN
  BY StatusType DEF DlInv, Answered, Confirmed
<1>3. f = Answered
  OBVIOUS
<1> HIDE DEF f
<1>4. d \in Handlers
  BY <1>1, <1>2, Update DEF Handlers
<1>5. d.flag /\ d.od = "EVENT" /\ d.ev = "IDLE" /\ d.ehActive
  BY <1>1, <1>3 DEF Handlers, HandlersWith
<1>6. r = [d EXCEPT !.trigger = "NONE"]
  BY <1>4, <1>5, DeviceEvIdle
<1> HIDE DEF r
<1>9. r \in Handlers
  BY <1>4, <1>6, Update DEF Handlers, Triggers, OdStates
<1>10. /\ r.mode = h.mode /\ r.comlost = h.comlost /\ r.chActive = h.chActive
       /\ r.operate = h.operate /\ r.preop = h.preop /\ r.ehActive = h.ehActive
       /\ r.cnt = h.cnt /\ r.status = h.status /\ r.signals = h.signals
       /\ r.retry = h.retry /\ r.mh = h.mh /\ r.cycle = h.cycle /\ r.mdh = h.mdh
  BY <1>1, <1>6 DEF Handlers, HandlersWith
<1>11. /\ r.trigger = "NONE" /\ r.message = h.message /\ r.code = h.code
       /\ r.cmdh = h.cmdh /\ r.od = h.od /\ r.ev = h.ev /\ r.addr = h.addr
       /\ r.num = h.num /\ r.current = h.current /\ r.events = h.events
       /\ r.confirmation = h.confirmation /\ r.flag = f
  BY <1>1, <1>6 DEF Handlers, HandlersWith
<1>12. Changing(r, f)
  BY <1>1, <1>3, <1>10, <1>11 DEF DlInv, Changing, Answered
<1>13. /\ r.confirmation => f /\ Owed /\ r.ev = "IDLE"
       /\ Owed /\ f /\ ~lost => r.confirmation
  BY <1>1, <1>3, <1>10, <1>11 DEF DlInv, Confirming, Answered, Confirmed
<1>14. Reading(r, AnsweredCode)
  <2>1. h.ev = "READEVENT" => AnsweredCode = StatusCode
    BY <1>3, StatusType, MessageTypes DEF DlInv, Confirming, Answered, AnsweredCode, Confirmed
  <2>2. Reading(h, StatusCode)
    BY DEF DlInv
  <2> QED BY <1>10, <1>11, <2>1, <2>2 DEF Reading, ReadSoFar, Part
<1>15. r.code => r.cmdh = "MASTERCOMMAND"
  BY <1>10, <1>11 DEF DlInv, Commanding
<1>16. ~r.code => r.cmdh = "IDLE"
  BY <1>1, <1>10, <1>11 DEF DlInv, Commanding
<1>17. Ready(r, f, Owed, lost, AnsweredCode)
  BY <1>1, <1>3, <1>10, <1>11, <1>12, <1>13, <1>14, <1>15, <1>16, ZenonT(60) DEF Ready, Exchanging
<1> QED
  BY <1>1, <1>3, <1>9, <1>10, <1>11, <1>17, ZenonT(60) DEF HandledQuietly, DlInv, OctetsKnown, r, d

-----------------------------------------------------------------------------
(* The reply to a message of the event handler.                            *)

(* What the reading of a set leaves alone. *)
Kept(x, e) ==
    /\ x.mdh = e.mdh /\ x.mode = e.mode /\ x.comlost = e.comlost /\ x.chActive = e.chActive
    /\ x.preop = e.preop /\ x.ehActive = e.ehActive /\ x.code = e.code /\ x.cmdh = e.cmdh
    /\ x.mh = e.mh /\ x.cycle = e.cycle /\ x.retry = e.retry /\ x.od = e.od /\ x.flag = e.flag

(* The reply as the event handler gets it. *)
LEMMA ReplyRead ==
  ASSUME DlInv, app = "idle", h.mh = "AW_REPLY_16", h.od = "EVENT", Answered, h.ev = "READEVENT"
  PROVE  LET d == [h EXCEPT !.flag = Answered]
             e == [d EXCEPT !.trigger = "DEVICE"]
         IN  /\ d \in Handlers /\ e \in Handlers
             /\ Device(d) = [IF e.addr = 0 THEN ReadStatusCode(e) ELSE ReadMemory(e)
                                EXCEPT !.trigger = "NONE"]
             /\ Kept(e, [h EXCEPT !.flag = TRUE])
             /\ e.message = Read(e.addr) /\ ~e.confirmation /\ e.ev = "READEVENT"
             /\ e.events = h.events /\ e.addr = h.addr /\ Reading(e, StatusCode)
<1> DEFINE f == Answered
<1> DEFINE d == [h EXCEPT !.flag = f]
<1> DEFINE e == [d EXCEPT !.trigger = "DEVICE"]
<1> DEFINE k == [h EXCEPT !.flag = TRUE]
<1>1. /\ h \in Handlers /\ h.mdh = "OPERATE" /\ h.ehActive /\ h.chActive /\ ~h.comlost
  BY Cyclic
<1>2. f \in BOOLEAN /\ f
  BY StatusType DEF DlInv, Answered, Confirmed
<1>3. h.message = Read(h.addr) /\ ~h.confirmation /\ Reading(h, StatusCode)
  BY DEF DlInv, Flagged, Confirming
<1> HIDE DEF f
<1>4. d \in Handlers
  BY <1>1, <1>2, Update DEF Handlers
<1>5. d.od = "EVENT" /\ d.flag /\ d.ev = "READEVENT" /\ ~d.comlost /\ d.addr = h.addr
  BY <1>1, <1>2 DEF Handlers, HandlersWith
<1>6. e \in Handlers
  BY <1>4, Update DEF Handlers, Triggers
<1>7. e.addr = h.addr /\ e.message = h.message /\ e.confirmation = h.confirmation
      /\ e.ev = h.ev /\ e.events = h.events /\ e.status = h.status /\ e.num = h.num
      /\ e.cnt = h.cnt /\ e.current = h.current
  BY <1>1 DEF Handlers, HandlersWith
<1>8. Kept(e, k)
  <2>1. f = TRUE
    BY <1>2
  <2> QED BY <1>1, <2>1 DEF Kept, Handlers, HandlersWith
<1>9. Reading(e, StatusCode)
  BY <1>3, <1>7 DEF Reading, ReadSoFar, Part
<1>10. Device(d) = [IF d.addr = 0 THEN ReadStatusCode(e) ELSE ReadMemory(e)
                       EXCEPT !.trigger = "NONE"]
  BY <1>4, <1>5, DeviceRead
<1>11. d.addr = e.addr
  BY <1>5, <1>7
<1>12. Device(d) = [IF e.addr = 0 THEN ReadStatusCode(e) ELSE ReadMemory(e)
                       EXCEPT !.trigger = "NONE"]
  BY <1>10, <1>11
<1> HIDE DEF e, d
<1>13. e.message = Read(e.addr) /\ ~e.confirmation /\ e.ev = "READEVENT" /\ e.events = h.events
  BY <1>3, <1>7
<1>14. e.addr = h.addr
  BY <1>7
<1> QED BY <1>4, <1>6, <1>8, <1>9, <1>12, <1>13, <1>14 DEF d, e, f

(* The set is being read. *)
LEMMA ReadsOn ==
  ASSUME DlInv, app = "idle", h.mh = "AW_REPLY_16", h.od = "EVENT", Answered, h.ev = "READEVENT",
         NEW x \in Handlers, Kept(x, [h EXCEPT !.flag = TRUE]),
         ~x.confirmation, x.ev = "READEVENT", ReadSoFar(x, StatusCode),
         Known(x.events, Len(frozen))
  PROVE  HandledQuietly([x EXCEPT !.trigger = "NONE"])
<1> DEFINE r == [x EXCEPT !.trigger = "NONE"]
<1> DEFINE k == [h EXCEPT !.flag = TRUE]
<1>1. /\ h \in Handlers /\ h.mdh = "OPERATE" /\ h.ehActive /\ h.chActive /\ ~h.comlost
      /\ h.cycle /\ h.retry <= MaxRetry /\ h.mode # "PREOPERATE"
  BY Cyclic
<1>2. h.message = Read(h.addr) /\ ~h.confirmation
  BY DEF DlInv, Flagged, Confirming
<1>3. r \in Handlers
  BY Update DEF Handlers, Triggers
<1>4. /\ k.mdh = h.mdh /\ k.mode = h.mode /\ k.comlost = h.comlost /\ k.chActive = h.chActive
      /\ k.preop = h.preop /\ k.ehActive = h.ehActive /\ k.code = h.code /\ k.cmdh = h.cmdh
      /\ k.mh = h.mh /\ k.cycle = h.cycle /\ k.retry = h.retry /\ k.od = h.od /\ k.flag = TRUE
  BY <1>1 DEF Handlers, HandlersWith
<1>5. Kept(x, k)
  OBVIOUS
<1>6. /\ r.mdh = x.mdh /\ r.mode = x.mode /\ r.comlost = x.comlost /\ r.chActive = x.chActive
      /\ r.preop = x.preop /\ r.ehActive = x.ehActive /\ r.code = x.code /\ r.cmdh = x.cmdh
      /\ r.mh = x.mh /\ r.cycle = x.cycle /\ r.retry = x.retry /\ r.od = x.od /\ r.flag = x.flag
  BY DEF Handlers, HandlersWith
<1>7. /\ r.confirmation = x.confirmation /\ r.ev = x.ev /\ r.addr = x.addr /\ r.num = x.num
      /\ r.cnt = x.cnt /\ r.current = x.current /\ r.status = x.status /\ r.events = x.events
  BY DEF Handlers, HandlersWith
<1> HIDE DEF r, k
<1>8. /\ r.mdh = h.mdh /\ r.mode = h.mode /\ r.comlost = h.comlost /\ r.chActive = h.chActive
      /\ r.preop = h.preop /\ r.ehActive = h.ehActive /\ r.code = h.code /\ r.cmdh = h.cmdh
      /\ r.mh = h.mh /\ r.cycle = h.cycle /\ r.retry = h.retry /\ r.od = h.od /\ r.flag = TRUE
  BY <1>4, <1>5, <1>6 DEF Kept
<1>9. Changing(r, Answered)
  BY <1>1, <1>8 DEF DlInv, Changing, Answered
<1>10. ~(Owed /\ Answered /\ ~lost)
  BY <1>2, MessageTypes DEF DlInv, Confirming, Answered
<1>11. Reading(r, AnsweredCode)
  BY <1>7 DEF Reading, ReadSoFar, Part, AnsweredCode
<1>12. (r.code => r.cmdh = "MASTERCOMMAND") /\ (~r.code => r.cmdh = "IDLE")
  BY <1>1, <1>8 DEF DlInv, Commanding
<1>13. Ready(r, Answered, Owed, lost, AnsweredCode)
  BY <1>1, <1>7, <1>8, <1>9, <1>10, <1>11, <1>12 DEF Ready, Exchanging
<1> QED BY <1>1, <1>2, <1>3, <1>7, <1>8, <1>13 DEF HandledQuietly, r

(* The set has been read and is signalled. *)
LEMMA ReadsUp ==
  ASSUME DlInv, app = "idle", h.mh = "AW_REPLY_16", h.od = "EVENT", Answered, h.ev = "READEVENT",
         NEW x \in HandlersWith({<<Meant(Len(frozen))>>}), Kept(x, [h EXCEPT !.flag = TRUE]),
         x.confirmation, x.ev = "IDLE", Known(x.events, Len(frozen))
  PROVE  HandledSet([x EXCEPT !.trigger = "NONE"])
<1> DEFINE H == HandlersWith({<<Meant(Len(frozen))>>})
<1> DEFINE r == [x EXCEPT !.trigger = "NONE"]
<1> DEFINE k == [h EXCEPT !.flag = TRUE]
<1>1. /\ h \in Handlers /\ h.mdh = "OPERATE" /\ h.ehActive /\ h.chActive /\ ~h.comlost
      /\ h.cycle /\ h.retry <= MaxRetry /\ h.mode # "PREOPERATE"
  BY Cyclic
<1>2. h.message = Read(h.addr) /\ ~h.confirmation
  BY DEF DlInv, Flagged, Confirming
<1>3. r \in H
  BY Update DEF Triggers
<1>4. /\ k.mdh = h.mdh /\ k.mode = h.mode /\ k.comlost = h.comlost /\ k.chActive = h.chActive
      /\ k.preop = h.preop /\ k.ehActive = h.ehActive /\ k.code = h.code /\ k.cmdh = h.cmdh
      /\ k.mh = h.mh /\ k.cycle = h.cycle /\ k.retry = h.retry /\ k.od = h.od /\ k.flag = TRUE
  BY <1>1 DEF Handlers, HandlersWith
<1>5. Kept(x, k)
  OBVIOUS
<1>6. /\ r.mdh = x.mdh /\ r.mode = x.mode /\ r.comlost = x.comlost /\ r.chActive = x.chActive
      /\ r.preop = x.preop /\ r.ehActive = x.ehActive /\ r.code = x.code /\ r.cmdh = x.cmdh
      /\ r.mh = x.mh /\ r.cycle = x.cycle /\ r.retry = x.retry /\ r.od = x.od /\ r.flag = x.flag
  BY DEF HandlersWith
<1>7. r.confirmation = x.confirmation /\ r.ev = x.ev /\ r.events = x.events
  BY DEF HandlersWith
<1> HIDE DEF r, k
<1>8. /\ r.mdh = h.mdh /\ r.mode = h.mode /\ r.comlost = h.comlost /\ r.chActive = h.chActive
      /\ r.preop = h.preop /\ r.ehActive = h.ehActive /\ r.code = h.code /\ r.cmdh = h.cmdh
      /\ r.mh = h.mh /\ r.cycle = h.cycle /\ r.retry = h.retry /\ r.od = h.od /\ r.flag = TRUE
  BY <1>4, <1>5, <1>6 DEF Kept
<1>9. Changing(r, TRUE)
  BY <1>1, <1>8 DEF DlInv, Changing, Answered
<1>10. Reading(r, StatusCode)
  BY <1>7 DEF Reading
<1>11. (r.code => r.cmdh = "MASTERCOMMAND") /\ (~r.code => r.cmdh = "IDLE")
  BY <1>1, <1>8 DEF DlInv, Commanding
<1>12. Ready(r, TRUE, TRUE, FALSE, StatusCode)
  BY <1>1, <1>7, <1>8, <1>9, <1>10, <1>11 DEF Ready, Exchanging
<1>13. Pending /\ ~Confirmed /\ h.message # Confirm
  BY <1>2, MessageTypes DEF Answered
<1> QED BY <1>1, <1>2, <1>3, <1>7, <1>8, <1>12, <1>13 DEF HandledSet, r

(* A set that is signalled. *)
LEMMA Signals ==
  ASSUME NEW S, NEW T, NEW d \in HandlersWith(S), NEW v \in T
  PROVE  [d EXCEPT !.signals = v] \in HandlersWith(T)
BY DEF HandlersWith

(* A set without details is read at once. *)
LEMMA BareRead ==
  ASSUME DlInv, app = "idle", h.mh = "AW_REPLY_16", h.od = "EVENT", Answered, h.ev = "READEVENT",
         NEW e \in Handlers, Kept(e, [h EXCEPT !.flag = TRUE]), Known(e.events, Len(frozen)),
         e.message = Read(0), e.num = 0, ~StatusCode.details
  PROVE  HandledSet([ReadStatusCode(e) EXCEPT !.trigger = "NONE"])
<1> DEFINE no == Len(frozen)
<1> DEFINE B == StatusCode.bits
<1>1. /\ Pending /\ StatusCode \in Statuses /\ StatusCode.no = no
      /\ no \in 1 .. no /\ frozen[no] \in Kinds
      /\ StatusCode.details = frozen[no].details /\ B = frozen[no].bits
  BY StatusType DEF DlInv, Answered
<1>2. Bare(StatusCode) = Meant(no)
  BY <1>1, MeantEntries DEF Bare
<1> DEFINE num == e.num + Cardinality(B)
<1>3. num \in Counts
  <2>1. B \in SUBSET Slots
    BY <1>1 DEF Statuses
  <2> QED BY <2>1, BitsOfSlots DEF Counts
<1> DEFINE set == Meant(no)
<1> DEFINE x == ReadStatusCode(e)
<1>4. x = [e EXCEPT !.status = StatusCode, !.num = num, !.signals = <<set>>,
                    !.confirmation = TRUE, !.ev = "IDLE"]
  BY <1>2, ReadStatusBare
<1> HIDE DEF num, x, set
<1> DEFINE code == StatusCode
<1>5. code \in Statuses
  BY <1>1
<1>6. x = [e EXCEPT !.status = code, !.num = num, !.signals = <<set>>,
                    !.confirmation = TRUE, !.ev = "IDLE"]
  BY <1>4
<1> HIDE DEF code
<1> DEFINE y == [e EXCEPT !.status = code, !.num = num]
<1> DEFINE z == [y EXCEPT !.signals = <<set>>]
<1>7. x = [z EXCEPT !.confirmation = TRUE, !.ev = "IDLE"]
  BY <1>6
<1>8. y \in Handlers
  BY <1>3, <1>5, Update DEF Handlers
<1> HIDE DEF y
<1>9. z \in HandlersWith({<<set>>})
  BY <1>8, Signals DEF Handlers
<1> HIDE DEF z
<1>10. x \in HandlersWith({<<set>>})
  BY <1>7, <1>9, Update DEF EvStates
<1>11. Kept(x, e)
  BY <1>6 DEF Kept, Handlers, HandlersWith
<1>12. x.confirmation = TRUE /\ x.ev = "IDLE" /\ x.events = e.events
  BY <1>6 DEF Handlers, HandlersWith
<1>13. Kept(x, [h EXCEPT !.flag = TRUE])
  BY <1>11 DEF Kept
<1>14. x \in HandlersWith({<<Meant(Len(frozen))>>})
  BY <1>10 DEF set
<1>15. Known(x.events, Len(frozen))
  BY <1>12
<1>16. HandledSet([x EXCEPT !.trigger = "NONE"])
  BY <1>12, <1>13, <1>14, <1>15, ReadsUp
<1> QED BY <1>16 DEF x

(* Of a set with details, the StatusCode is read first. *)
LEMMA StatusRead ==
  ASSUME DlInv, app = "idle", h.mh = "AW_REPLY_16", h.od = "EVENT", Answered, h.ev = "READEVENT",
         NEW e \in Handlers, Kept(e, [h EXCEPT !.flag = TRUE]), Known(e.events, Len(frozen)),
         ~e.confirmation, e.ev = "READEVENT",
         e.message = Read(0), e.num = 0, e.current = 0, StatusCode.details
  PROVE  HandledQuietly([ReadStatusCode(e) EXCEPT !.trigger = "NONE"])
<1>1. /\ Pending /\ StatusCode \in Statuses /\ StatusCode.no # 0 /\ StatusCode.bits # {}
  BY StatusType DEF DlInv, Answered
<1> DEFINE code == StatusCode
<1> DEFINE num == e.num + Cardinality(code.bits)
<1> DEFINE first == Min(code.bits)
<1> DEFINE addr == 3 * first + 1
<1> DEFINE x == [e EXCEPT !.status = code, !.num = num, !.addr = addr, !.cnt = first]
<1>2. ReadStatusCode(e) = x
  BY <1>1, ReadStatusDetails
<1>3. x \in Handlers /\ ReadSoFar(x, code)
  BY <1>1, FirstOctetDue
<1> HIDE DEF num, first, addr, code
<1>4. Kept(x, e)
  BY DEF Kept, Handlers, HandlersWith
<1>5. x.confirmation = e.confirmation /\ x.ev = "READEVENT" /\ x.events = e.events
  BY DEF Handlers, HandlersWith
<1> HIDE DEF x
<1>6. Kept(x, [h EXCEPT !.flag = TRUE])
  BY <1>4 DEF Kept
<1>7. Known(x.events, Len(frozen)) /\ ~x.confirmation
  BY <1>5
<1>8. ReadSoFar(x, StatusCode)
  BY <1>3 DEF code
<1> QED BY <1>2, <1>3, <1>5, <1>6, <1>7, <1>8, ReadsOn

(* The memory with one octet more. *)
LEMMA TakenKnown ==
  ASSUME NEW e \in Handlers, e.current \in Slots, Part(e) \in 1 .. 3, Len(frozen) \in Nat,
         Known(e.events, Len(frozen))
  PROVE  Known(Taken(e), Len(frozen))
<1> SUFFICES ASSUME NEW s \in Slots, NEW i \in 1 .. 3
             PROVE  Taken(e)[s][i].no <= Len(frozen)
  BY DEF Known
<1>1. Octet(Len(frozen), e.addr).no = Len(frozen)
  BY DEF Octet
<1>2. CASE s # e.current
  BY <1>2, TakenOctets DEF Known
<1>3. CASE s = e.current /\ i # Part(e)
  BY <1>3, TakenOctets DEF Known
<1>4. CASE s = e.current /\ i = Part(e)
  BY <1>1, <1>4, TakenOctets
<1> QED BY <1>2, <1>3, <1>4

(* Then the octets of its entries. *)
LEMMA OctetRead ==
  ASSUME DlInv, app = "idle", h.mh = "AW_REPLY_16", h.od = "EVENT", Answered, h.ev = "READEVENT",
         NEW e \in Handlers, Kept(e, [h EXCEPT !.flag = TRUE]), Known(e.events, Len(frozen)),
         ~e.confirmation, e.ev = "READEVENT",
         e.message = Read(e.addr), ReadSoFar(e, StatusCode)
  PROVE  LET r == [ReadMemory(e) EXCEPT !.trigger = "NONE"]
         IN  HandledQuietly(r) \/ HandledSet(r)
<1> DEFINE no == Len(frozen)
<1> DEFINE B == StatusCode.bits
<1>1. /\ Pending /\ StatusCode \in Statuses /\ StatusCode.no = no /\ no \in Nat
      /\ no \in 1 .. no /\ frozen[no] \in Kinds
      /\ StatusCode.details = frozen[no].details /\ B = frozen[no].bits
  BY StatusType DEF DlInv, Answered
<1>2. e.current \in Slots /\ Part(e) \in 1 .. 3 /\ e.status = StatusCode /\ StatusCode.details
  <2>1. B \in SUBSET Slots
    BY <1>1 DEF Statuses
  <2> QED BY <2>1, BitsOfSlots DEF ReadSoFar
<1>3. Known(Taken(e), no)
  BY <1>1, <1>2, TakenKnown
<1>4. CASE Part(e) \in {1, 2}
  <2> DEFINE mem == Taken(e)
  <2> DEFINE addr == e.addr + 1
  <2> DEFINE x == [e EXCEPT !.events = mem, !.addr = addr]
  <2>1. ReadMemory(e) = x
    BY <1>1, <1>2, <1>4, ReadOctet DEF Part
  <2>2. x \in Handlers /\ ReadSoFar(x, StatusCode)
    BY <1>1, <1>4, NextOctetDue
  <2> HIDE DEF mem, addr
  <2>3. Kept(x, e)
    BY DEF Kept, Handlers, HandlersWith
  <2>4. x.confirmation = e.confirmation /\ x.ev = "READEVENT" /\ x.events = mem
    BY DEF Handlers, HandlersWith
  <2> HIDE DEF x
  <2>5. Kept(x, [h EXCEPT !.flag = TRUE])
    BY <2>3 DEF Kept
  <2>6. Known(x.events, Len(frozen)) /\ ~x.confirmation
    BY <1>3, <2>4 DEF mem
  <2> QED BY <2>1, <2>2, <2>4, <2>5, <2>6, ReadsOn
<1>5. CASE Part(e) = 3 /\ NextBits(e) # {}
  <2> DEFINE mem == Taken(e)
  <2> DEFINE current == e.current + 1
  <2> DEFINE next == Min(NextBits(e))
  <2> DEFINE addr == 3 * next + 1
  <2> DEFINE x == [e EXCEPT !.events = mem, !.current = current, !.cnt = next, !.addr = addr]
  <2>1. ReadMemory(e) = x
    BY <1>1, <1>2, <1>5, ReadEntry DEF Part
  <2>2. x \in Handlers /\ ReadSoFar(x, StatusCode)
    BY <1>1, <1>5, NextEntryDue
  <2> HIDE DEF mem, addr, current, next
  <2>3. Kept(x, e)
    BY DEF Kept, Handlers, HandlersWith
  <2>4. x.confirmation = e.confirmation /\ x.ev = "READEVENT" /\ x.events = mem
    BY DEF Handlers, HandlersWith
  <2> HIDE DEF x
  <2>5. Kept(x, [h EXCEPT !.flag = TRUE])
    BY <2>3 DEF Kept
  <2>6. Known(x.events, Len(frozen)) /\ ~x.confirmation
    BY <1>3, <2>4 DEF mem
  <2> QED BY <2>1, <2>2, <2>4, <2>5, <2>6, ReadsOn
<1>6. CASE Part(e) = 3 /\ NextBits(e) = {}
  <2> DEFINE mem == Taken(e)
  <2> DEFINE set == Meant(no)
  <2> DEFINE x == [e EXCEPT !.events = mem, !.current = 0, !.cnt = MaxEvents,
                     !.signals = <<set>>, !.confirmation = TRUE, !.ev = "IDLE"]
  <2>1. [i \in 1 .. e.num |-> Taken(e)[i - 1]] = set
    <3>1. [i \in 1 .. e.num |-> Taken(e)[i - 1]] =
            [i \in 1 .. Len(Ascending(B)) |-> Details(no, Ascending(B)[i])]
      BY <1>1, <1>6, SetRead
    <3>2. set = [i \in 1 .. Len(Ascending(B)) |-> Details(no, Ascending(B)[i])]
      BY <1>1, <1>2, MeantEntries
    <3> QED BY <3>1, <3>2
  <2> DEFINE read == [i \in 1 .. e.num |-> Taken(e)[i - 1]]
  <2>2. ReadMemory(e) = [e EXCEPT !.events = mem, !.current = 0, !.cnt = MaxEvents,
                     !.signals = <<read>>, !.confirmation = TRUE, !.ev = "IDLE"]
    BY <1>1, <1>2, <1>6, ReadLast DEF Part
  <2>3. read = set
    BY <2>1
  <2>4. mem \in Memories /\ MaxEvents \in Counts
    BY <1>1, <1>6, EntryRead, EventAssumption DEF Counts
  <2> HIDE DEF mem, set, read
  <2>5. ReadMemory(e) = x
    BY <2>2, <2>3
  <2> DEFINE y == [e EXCEPT !.events = mem, !.current = 0, !.cnt = MaxEvents]
  <2> DEFINE z == [y EXCEPT !.signals = <<set>>]
  <2>6. y \in Handlers
    BY <2>4, MessageTypes, DueTypes, Update DEF Handlers
  <2>7. x = [z EXCEPT !.confirmation = TRUE, !.ev = "IDLE"]
    OBVIOUS
  <2>8. Kept(x, e)
    BY DEF Kept, Handlers, HandlersWith
  <2>9. x.confirmation = TRUE /\ x.ev = "IDLE" /\ x.events = mem
    BY DEF Handlers, HandlersWith
  <2> HIDE DEF x, y
  <2>10. z \in HandlersWith({<<set>>})
    BY <2>6, Signals DEF Handlers
  <2> HIDE DEF z
  <2>11. x \in HandlersWith({<<set>>})
    BY <2>7, <2>10, Update DEF EvStates
  <2>12. Kept(x, [h EXCEPT !.flag = TRUE])
    BY <2>8 DEF Kept
  <2>13. Known(x.events, Len(frozen))
    BY <1>3, <2>9 DEF mem
  <2>14. x \in HandlersWith({<<Meant(Len(frozen))>>})
    BY <2>11 DEF set
  <2>15. HandledSet([x EXCEPT !.trigger = "NONE"])
    BY <2>9, <2>12, <2>13, <2>14, ReadsUp
  <2> QED BY <2>5, <2>15
<1> QED BY <1>2, <1>4, <1>5, <1>6

(* Whatever the reply: nothing is signalled but the set that is pending. *)
LEMMA ReplyHandled ==
  ASSUME DlInv, app = "idle", h.mh = "AW_REPLY_16", h.message # NoMessage
  PROVE  LET r == Device([h EXCEPT !.flag = Answered])
         IN  HandledQuietly(r) \/ HandledSet(r)
<1> DEFINE d == [h EXCEPT !.flag = Answered]
<1> DEFINE e == [d EXCEPT !.trigger = "DEVICE"]
<1>1. h.od \in {"ISDU", "COMMAND", "EVENT"} /\ h.ev \in {"IDLE", "READEVENT"}
  BY Cyclic
<1>2. CASE h.od = "EVENT" /\ Answered /\ h.ev = "READEVENT"
  <2>1. /\ e \in Handlers
        /\ Device(d) = [IF e.addr = 0 THEN ReadStatusCode(e) ELSE ReadMemory(e)
                           EXCEPT !.trigger = "NONE"]
        /\ Kept(e, [h EXCEPT !.flag = TRUE])
        /\ e.message = Read(e.addr) /\ ~e.confirmation /\ e.ev = "READEVENT"
        /\ e.events = h.events /\ e.addr = h.addr /\ Reading(e, StatusCode)
    BY <1>2, ReplyRead
  <2>2. StatusCode \in Statuses /\ StatusCode.details \in BOOLEAN
    BY StatusType DEF DlInv, Statuses
  <2> HIDE DEF e, d
  <2>3. Known(e.events, Len(frozen))
    BY <2>1 DEF DlInv, OctetsKnown
  <2>4. CASE e.addr = 0
    <3>1. ~ReadSoFar(e, StatusCode)
      <4> SUFFICES ASSUME ReadSoFar(e, StatusCode) PROVE FALSE
        OBVIOUS
      <4>1. e.cnt \in Nat
        BY <2>1, EventAssumption DEF Handlers, HandlersWith, Counts
      <4> QED BY <2>4, <4>1 DEF ReadSoFar, Part
    <3>2. e.num = 0 /\ e.current = 0
      BY <2>1, <3>1 DEF Reading
    <3>3. Device(d) = [ReadStatusCode(e) EXCEPT !.trigger = "NONE"]
      BY <2>1, <2>4
    <3>4. e.message = Read(0)
      BY <2>1, <2>4
    <3> QED BY <1>2, <2>1, <2>2, <2>3, <3>2, <3>3, <3>4, BareRead, StatusRead DEF d
  <2>5. CASE e.addr # 0
    <3>1. ReadSoFar(e, StatusCode)
      BY <2>1, <2>5 DEF Reading
    <3>2. Device(d) = [ReadMemory(e) EXCEPT !.trigger = "NONE"]
      BY <2>1, <2>5
    <3> QED BY <1>2, <2>1, <2>3, <3>1, <3>2, OctetRead DEF d
  <2> QED BY <2>4, <2>5
<1> QED
  BY <1>1, <1>2, ReplyIsdu, ReplyIsduFlag, ReplyCommand, ReplyFlagGone, ReplyEvIdle

-----------------------------------------------------------------------------
(* The sets and their numbers.                                             *)

(* Every set has entries, of one or of three octets, which bear its number. *)
LEMMA MeantSets ==
  ASSUME frozen \in Seq(Kinds), NEW n \in 1 .. Len(frozen)
  PROVE  /\ Meant(n) \in Sets /\ Len(Meant(n)) \in 1 .. MaxEvents
         /\ Len(Meant(n)) = Len(Ascending(frozen[n].bits))
         /\ \A i \in 1 .. Len(Meant(n)) :
               /\ Ascending(frozen[n].bits)[i] \in frozen[n].bits
               /\ Rank(frozen[n].bits, Ascending(frozen[n].bits)[i]) = i - 1
               /\ Meant(n)[i] = IF frozen[n].details
                                THEN Details(n, Ascending(frozen[n].bits)[i])
                                ELSE NoDetails(n, Ascending(frozen[n].bits)[i])
         /\ frozen[n] \in Kinds
<1> DEFINE kind == frozen[n]
<1> DEFINE B == kind.bits
<1> DEFINE A == Ascending(B)
<1>1. kind \in Kinds /\ Len(frozen) \in Nat /\ n \in Nat
  OBVIOUS
<1>2. kind.details \in BOOLEAN /\ B \in SUBSET Slots /\ B # {}
  BY <1>1, EventAssumption
<1>3. B \in SUBSET Nat /\ IsFiniteSet(B) /\ Cardinality(B) \in Counts
  BY <1>2, BitsOfSlots
<1>4. Cardinality(B) \in 1 .. MaxEvents
  <2>1. Cardinality(B) # 0
    BY <1>2, <1>3, FS_EmptySet
  <2> QED BY <1>3, <2>1, EventAssumption DEF Counts
<1>5. /\ A \in Seq(B) /\ Len(A) = Cardinality(B)
      /\ \A i \in 1 .. Cardinality(B) : A[i] \in B /\ Rank(B, A[i]) = i - 1
  BY <1>3, AscendingElements
<1> HIDE DEF A
<1> DEFINE E(i) == IF kind.details THEN Details(n, A[i]) ELSE NoDetails(n, A[i])
<1>6. ASSUME NEW i \in 1 .. Len(A) PROVE E(i) \in Entries
  <2>1. A[i] \in Nat /\ A[i] <= MaxEvents - 1 /\ MaxEvents \in Nat
    BY <1>2, <1>5, EventAssumption DEF Slots
  <2>2. \A j \in 1 .. 3 : Octet(n, 3 * A[i] + j) \in SomeOctets
    BY <1>1, <2>1 DEF Octet, SomeOctets
  <2>3. Octet(n, A[i]) \in SomeOctets
    BY <1>1, <2>1 DEF Octet, SomeOctets
  <2>4. Details(n, A[i]) \in Entries
    BY <2>2 DEF Details, Entries
  <2>5. NoDetails(n, A[i]) \in Entries
    BY <2>3 DEF NoDetails, Entries
  <2> QED BY <2>4, <2>5
<1>7. Meant(n) = [i \in 1 .. Len(A) |-> E(i)]
  BY <1>1, <1>2, MeantEntries DEF A
<1> HIDE DEF E
<1>8. Meant(n) \in Sets /\ Len(Meant(n)) = Len(A) /\ \A i \in 1 .. Len(A) : Meant(n)[i] = E(i)
  <2> DEFINE m == Meant(n)
  <2>1. m = [i \in 1 .. Len(A) |-> E(i)]
    BY <1>7
  <2> HIDE DEF m
  <2>2. Len(A) \in Nat
    BY <1>4, <1>5
  <2>3. m \in [1 .. Len(A) -> Entries]
    BY <1>6, <2>1
  <2>4. m \in Seq(Entries) /\ Len(m) = Len(A) /\ \A i \in 1 .. Len(A) : m[i] = E(i)
    BY <2>1, <2>2, <2>3
  <2> QED BY <2>4 DEF Sets, m
<1> QED BY <1>1, <1>4, <1>5, <1>8 DEF E, A

(* The number of a set as it was meant is its own. *)
LEMMA NumberOfMeant ==
  ASSUME frozen \in Seq(Kinds), NEW n \in 1 .. Len(frozen)
  PROVE  Number(Meant(n)) = n
<1>1. ASSUME NEW m \in 1 .. Len(frozen), Meant(n) = Meant(m) PROVE m = n
  <2>1. 1 \in 1 .. Len(Meant(n)) /\ 1 \in 1 .. Len(Meant(m))
    BY MeantSets
  <2> DEFINE a == Ascending(frozen[n].bits)[1]
  <2> DEFINE b == Ascending(frozen[m].bits)[1]
  <2>2. Meant(n)[1] = Details(n, a) \/ Meant(n)[1] = NoDetails(n, a)
    BY <2>1, MeantSets
  <2>3. Meant(m)[1] = Details(m, b) \/ Meant(m)[1] = NoDetails(m, b)
    BY <2>1, MeantSets
  <2> HIDE DEF a, b
  <2>4. Meant(n)[1][1].no = n
    BY <2>2 DEF Details, NoDetails, Octet
  <2>5. Meant(m)[1][1].no = m
    BY <2>3 DEF Details, NoDetails, Octet
  <2> QED BY <1>1, <2>4, <2>5
<1>2. Number(Meant(n)) = CHOOSE m \in 1 .. Len(frozen) : Meant(n) = Meant(m)
  BY DEF Number
<1> QED BY <1>1, <1>2

-----------------------------------------------------------------------------
(* What a step of the DL thread leaves.                                    *)

(* Without a signal, the AL hears nothing. *)
LEMMA SettleQuiet ==
  ASSUME TypeInv, NEW d \in Handlers, Settle(d)
  PROVE  h' = d /\ mbox' = mbox /\ told' = told /\ lost' = lost
<1>1. d.signals = <<>>
  BY DEF Handlers, HandlersWith
<1>2. Len(d.signals) = 0
  BY <1>1
<1> DEFINE jobs == [i \in 1 .. Len(d.signals) |-> Jobs(d.signals[i])]
<1>3. jobs = <<>>
  BY <1>2
<1>4. Handed(d.signals) = <<>>
  BY <1>2 DEF Handed
<1>5. /\ h' = [d EXCEPT !.signals = <<>>]
      /\ mbox' = mbox \o FlattenSeq(jobs)
      /\ told' = told \o Handed(d.signals)
      /\ lost' = (lost /\ told' = told)
  BY DEF Settle
<1> HIDE DEF jobs
<1>6. h' = d
  BY <1>1, <1>5 DEF Handlers, HandlersWith
<1>7. mbox' = mbox
  <2>1. FlattenSeq(jobs) = <<>>
    BY <1>3, FlattenNone
  <2> QED BY <1>5, <2>1 DEF TypeInv
<1>8. told' = told
  BY <1>4, <1>5 DEF TypeInv
<1> QED BY <1>5, <1>6, <1>7, <1>8 DEF TypeInv

(* With one, the entries of the set are posted. *)
LEMMA SettleSet ==
  ASSUME TypeInv, NEW n \in 1 .. Len(frozen), NEW d \in HandlersWith({<<Meant(n)>>}), Settle(d)
  PROVE  /\ h' = [d EXCEPT !.signals = <<>>]
         /\ mbox' = mbox \o Jobs(Meant(n))
         /\ told' = Append(told, [set |-> Meant(n), no |-> n])
         /\ lost' = FALSE
<1> DEFINE set == Meant(n)
<1>1. d.signals = <<set>>
  BY DEF HandlersWith
<1>2. Number(set) = n
  BY NumberOfMeant DEF TypeInv
<1> DEFINE jobs == [i \in 1 .. Len(d.signals) |-> Jobs(d.signals[i])]
<1> DEFINE one == Jobs(set)
<1> DEFINE hand == [set |-> set, no |-> n]
<1>5. /\ h' = [d EXCEPT !.signals = <<>>]
      /\ mbox' = mbox \o FlattenSeq(jobs)
      /\ told' = told \o Handed(d.signals)
      /\ lost' = (lost /\ told' = told)
  BY DEF Settle
<1> HIDE DEF set
<1>6. Len(d.signals) = 1 /\ d.signals[1] = set
  BY <1>1
<1>7. jobs = <<one>>
  BY <1>6
<1>8. Handed(d.signals) = <<hand>>
  BY <1>2, <1>6 DEF Handed
<1> HIDE DEF jobs, one, hand
<1>9. mbox' = mbox \o one
  BY <1>5, <1>7, FlattenOne
<1>10. told' = Append(told, hand)
  BY <1>5, <1>8 DEF TypeInv
<1>11. told' # told
  <2>1. Len(told') = Len(told) + 1 /\ Len(told) \in Nat
    BY <1>10 DEF TypeInv
  <2> QED BY <2>1
<1> QED BY <1>5, <1>9, <1>10, <1>11 DEF one, hand, set

-----------------------------------------------------------------------------
(* The event machine of the AL: it waits for a set, collects the one that  *)
(* was signalled last, or has reported it and answers.                     *)

Job(set, i) == [type |-> "DL_EVENT_IND", entry |-> set[i], left |-> Len(set) - i]
Response == [type |-> "AL_EVENT_RSP"]

Waiting ==
    /\ mbox = <<>> /\ al.state = "Event_idle" /\ al.cnt = 0
    /\ Len(reports) = Len(told)
Answering ==
    /\ mbox = <<Response>> /\ al.state = "DU_Event_handling"
    /\ Len(reports) = Len(told)
GatheringOf(set) ==
    /\ al.cnt \in 0 .. Len(set) - 1
    /\ al.state = IF al.cnt = 0 THEN "Event_idle" ELSE "Read_Event_Set"
    /\ mbox = [i \in 1 .. Len(set) - al.cnt |-> Job(set, al.cnt + i)]
    /\ \A i \in 1 .. al.cnt : al.events[i - 1] = set[i]
Gathering == Len(told) = Len(reports) + 1 /\ GatheringOf(told[Len(told)].set)
Collection == Waiting \/ Answering \/ Gathering

(* What is left of earlier sets in the array of the AL. *)
SlotsKnown ==
    \A s \in Slots : \/ al.events[s] = <<>>
                     \/ \E n \in 1 .. Len(frozen) :
                          s + 1 \in 1 .. Len(Meant(n)) /\ al.events[s] = Meant(n)[s + 1]

Busy == mbox # <<>>

IInv ==
    /\ DlInv
    /\ Busy => Handling(h, Pending)
    /\ Collection /\ SlotsKnown

(* With nothing to do, the AL waits. *)
LEMMA IdleWaits ==
  ASSUME IInv, mbox = <<>>
  PROVE  Waiting
<1>1. ~Answering
  BY DEF Answering
<1>2. ~Gathering
  <2> SUFFICES ASSUME Gathering PROVE FALSE
    OBVIOUS
  <2> DEFINE set == told[Len(told)].set
  <2>1. Len(told) \in 1 .. Len(told)
    BY DEF IInv, DlInv, TypeInv, Gathering
  <2>2. set \in Sets
    <3> DEFINE T == [set : Sets, no : Nat]
    <3>1. told \in Seq(T)
      BY DEF IInv, DlInv, TypeInv
    <3> HIDE DEF T
    <3>2. told[Len(told)] \in T
      BY <2>1, <3>1
    <3> QED BY <3>2 DEF T
  <2>3. Len(set) \in Nat
    BY <2>2 DEF Sets
  <2> HIDE DEF set
  <2>4. /\ al.cnt \in 0 .. Len(set) - 1
        /\ mbox = [i \in 1 .. Len(set) - al.cnt |-> Job(set, al.cnt + i)]
    BY DEF Gathering, GatheringOf, set
  <2> DEFINE k == Len(set) - al.cnt
  <2> DEFINE jobs == [i \in 1 .. k |-> Job(set, al.cnt + i)]
  <2>5. k \in Nat /\ k # 0 /\ mbox = jobs
    BY <2>3, <2>4
  <2> HIDE DEF k
  <2>6. 1 \in DOMAIN jobs
    BY <2>5
  <2>7. DOMAIN mbox = {}
    OBVIOUS
  <2> QED BY <2>5, <2>6, <2>7
<1> QED BY <1>1, <1>2 DEF IInv, Collection

(* A step that changes the record of the handlers, and hands nothing over. *)
LEMMA RecordStep ==
  ASSUME IInv, UNCHANGED <<al, mbox, frozen, told, reports>>, app' \in Calls,
         h' \in Handlers, lost' \in BOOLEAN, settled' \in {settled, Len(frozen)},
         used' \in [DOMAIN Limit -> Nat],
         Levels(h'), Asked(h'), Commanding(h)', Flagged(h'), Changing(h', Pending'),
         Confirming(h', Pending', Owed, lost'), Reading(h', StatusCode'),
         Known(h'.events, Len(frozen)),
         Busy => Handling(h', Pending')
  PROVE  IInv'
<1>1. TypeInv'
  <2>1. settled' \in 0 .. Len(frozen')
    BY DEF IInv, DlInv, TypeInv
  <2> QED BY <2>1 DEF IInv, DlInv, TypeInv
<1>2. Owed' = Owed
  BY DEF Owed
<1>3. Confirming(h', Pending', Owed', lost')
  BY <1>2
<1>4. OctetsKnown'
  BY DEF OctetsKnown
<1>5. \A n : Meant(n)' = Meant(n)
  BY DEF Meant
<1>6. ToldMeant'
  BY <1>5 DEF ToldMeant, IInv, DlInv
<1>7. DlInv'
  BY <1>1, <1>3, <1>4, <1>6 DEF DlInv
<1>8. Collection'
  BY DEF IInv, Collection, Waiting, Answering, Gathering, GatheringOf, Job, Response
<1>9. SlotsKnown'
  BY <1>5 DEF IInv, SlotsKnown
<1> QED BY <1>7, <1>8, <1>9 DEF IInv, Busy

(* A step of the DL that signals nothing. *)
LEMMA QuietStep ==
  ASSUME IInv, UNCHANGED <<al, mbox, frozen, told, reports, app>>,
         h' \in Handlers, lost' \in BOOLEAN, settled' \in {settled, Len(frozen)},
         used' \in [DOMAIN Limit -> Nat],
         Sound(h', Pending', Owed, lost'), Reading(h', StatusCode'),
         Known(h'.events, Len(frozen)),
         Busy => Handling(h', Pending')
  PROVE  IInv'
<1>1. app' \in Calls
  BY DEF IInv, DlInv, TypeInv
<1>2. Commanding(h)'
  BY DEF Sound, Commanding
<1> QED BY <1>1, <1>2, RecordStep DEF Sound

(* The next message changes nothing of the message handler. *)
LEMMA MasterKeeps ==
  ASSUME NEW S, NEW d \in HandlersWith(S), NEW pending, NEW owed, NEW away, NEW code,
         Ready(d, pending, owed, away, code)
  PROVE  LET m == Master(d)
         IN  /\ m \in HandlersWith(S) /\ m.retry = d.retry /\ m.mh = d.mh /\ m.cycle = d.cycle
             /\ m.mode = d.mode
<1> DEFINE m == Master(d)
<1> SUFFICES /\ m \in HandlersWith(S) /\ m.retry = d.retry /\ m.mh = d.mh /\ m.cycle = d.cycle
             /\ m.mode = d.mode
  OBVIOUS
<1>1. CASE d.code
  <2>1. m = [d EXCEPT !.trigger = "MASTER", !.tx = Command, !.code = FALSE,
                      !.cmdh = "IDLE", !.od = "COMMAND"]
    BY <1>1, MasterCommand DEF Ready
  <2> HIDE DEF m
  <2>2. m \in HandlersWith(S)
    BY <2>1, Update, MessageTypes DEF Triggers, CmdStates, OdStates
  <2> QED BY <2>1, <2>2 DEF HandlersWith
<1>2. CASE ~d.code /\ d.od = "ISDU" /\ ~d.flag
  <2>1. m = [d EXCEPT !.trigger = "NONE", !.tx = Service]
    BY <1>2, MasterService DEF Ready
  <2> HIDE DEF m
  <2>2. m \in HandlersWith(S)
    BY <2>1, Update, MessageTypes DEF Triggers
  <2> QED BY <2>1, <2>2 DEF HandlersWith
<1>3. CASE ~d.code /\ d.od = "ISDU" /\ d.flag
  <2>1. m = [d EXCEPT !.trigger = "MASTER", !.tx = Service, !.od = "EVENT"]
    BY <1>3, MasterServiceFlag DEF Ready
  <2> HIDE DEF m
  <2>2. m \in HandlersWith(S)
    BY <2>1, Update, MessageTypes DEF Triggers, OdStates
  <2> QED BY <2>1, <2>2 DEF HandlersWith
<1>4. CASE ~d.code /\ d.od = "EVENT" /\ d.ev = "IDLE" /\ d.confirmation
  <2>1. m = [d EXCEPT !.trigger = "NONE", !.tx = Confirm, !.confirmation = FALSE]
    BY <1>4, MasterConfirm DEF Ready
  <2> HIDE DEF m
  <2>2. m \in HandlersWith(S)
    BY <2>1, Update, MessageTypes DEF Triggers
  <2> QED BY <2>1, <2>2 DEF HandlersWith
<1>5. CASE ~d.code /\ d.od = "EVENT" /\ d.ev = "IDLE" /\ ~d.confirmation
  <2> DEFINE none == [s \in Slots |-> Unread]
  <2>1. m = [d EXCEPT !.trigger = "NONE", !.tx = Read(0), !.addr = 0, !.num = 0,
                      !.current = 0, !.events = none, !.ev = "READEVENT"]
    BY <1>5, MasterReadFirst DEF Ready
  <2>2. none \in Memories /\ 0 \in Addresses /\ 0 \in Counts /\ Read(0) \in Messages
    BY MessageTypes
  <2> HIDE DEF m, none
  <2>3. m \in HandlersWith(S)
    <3> DEFINE y == [d EXCEPT !.trigger = "NONE", !.tx = Read(0), !.addr = 0, !.num = 0]
    <3>1. y \in HandlersWith(S)
      BY <2>2, Update DEF Triggers
    <3>2. m = [y EXCEPT !.current = 0, !.events = none, !.ev = "READEVENT"]
      BY <2>1
    <3> HIDE DEF y
    <3> QED BY <2>2, <3>1, <3>2, Update DEF EvStates
  <2> QED BY <2>1, <2>3 DEF HandlersWith
<1>6. CASE ~d.code /\ d.od = "EVENT" /\ d.ev = "READEVENT"
  <2>1. m = [d EXCEPT !.trigger = "NONE", !.tx = Read(d.addr)]
    BY <1>6, MasterReadOn DEF Ready
  <2>2. Read(d.addr) \in Messages
    BY MessageTypes DEF HandlersWith
  <2> HIDE DEF m
  <2>3. m \in HandlersWith(S)
    BY <2>1, <2>2, Update DEF Triggers
  <2> QED BY <2>1, <2>3 DEF HandlersWith
<1> QED BY <1>1, <1>2, <1>3, <1>4, <1>5, <1>6 DEF Ready

(* In the cyclic exchange the transceiver repeats what it is given. *)
LEMMA DownloadIsSent ==
  ASSUME NEW S, NEW m \in HandlersWith(S), m.cycle
  PROVE  PL_MessageDownload_req(m) = Sent(m, m.retry, m.mh, m.cycle)
<1>1. PL_MessageDownload_req(m) = [m EXCEPT !.message = m.tx, !.dataready = FALSE]
  BY DEF PL_MessageDownload_req
<1> QED BY <1>1 DEF Sent, HandlersWith

(* Taking a set out of signals changes nothing else. *)
LEMMA SignalsTaken ==
  ASSUME NEW S, NEW x \in HandlersWith(S), NEW pending, NEW owed, NEW away, NEW code,
         Sound(x, pending, owed, away), Reading(x, code)
  PROVE  LET y == [x EXCEPT !.signals = <<>>]
         IN  /\ y \in Handlers /\ Sound(y, pending, owed, away) /\ Reading(y, code)
             /\ y.events = x.events /\ y.confirmation = x.confirmation
             /\ y.message = x.message
<1> DEFINE y == [x EXCEPT !.signals = <<>>]
<1>1. y \in Handlers
  BY Signals DEF Handlers
<1>2. /\ y.mdh = x.mdh /\ y.mode = x.mode /\ y.comlost = x.comlost /\ y.mh = x.mh
      /\ y.retry = x.retry /\ y.dataready = x.dataready /\ y.cycle = x.cycle
      /\ y.message = x.message /\ y.od = x.od /\ y.trigger = x.trigger
  BY DEF HandlersWith
<1>3. /\ y.cmdh = x.cmdh /\ y.chActive = x.chActive /\ y.code = x.code
      /\ y.operate = x.operate /\ y.preop = x.preop /\ y.ev = x.ev
      /\ y.ehActive = x.ehActive /\ y.flag = x.flag /\ y.confirmation = x.confirmation
  BY DEF HandlersWith
<1>4. /\ y.addr = x.addr /\ y.cnt = x.cnt /\ y.current = x.current /\ y.num = x.num
      /\ y.status = x.status /\ y.events = x.events
  BY DEF HandlersWith
<1> HIDE DEF y
<1>5. Levels(y) /\ Asked(y)
  BY <1>2, <1>3 DEF Sound, Levels, Asked
<1>6. Commanding(y) /\ Flagged(y)
  BY <1>2, <1>3, <1>4 DEF Sound, Commanding, Flagged
<1>7. Changing(y, pending) /\ Confirming(y, pending, owed, away)
  BY <1>2, <1>3 DEF Sound, Changing, Confirming
<1>8. Reading(y, code)
  BY <1>2, <1>3, <1>4 DEF Reading, ReadSoFar, Part
<1> QED BY <1>1, <1>2, <1>3, <1>4, <1>5, <1>6, <1>7, <1>8 DEF Sound, y

-----------------------------------------------------------------------------
(* The reply of the cyclic exchange.                                       *)

(* The device has settled the set that was confirmed to it. *)
LEMMA AnsweredNext ==
  ASSUME TypeInv, UNCHANGED frozen,
         settled' = IF Confirmed THEN Len(frozen) ELSE settled
  PROVE  /\ Pending' = Answered /\ StatusCode' = AnsweredCode
         /\ Answered \in BOOLEAN /\ settled' \in {settled, Len(frozen)}
<1>1. settled \in Nat /\ Len(frozen) \in Nat
  BY DEF TypeInv
<1>2. CASE Confirmed
  <2>1. ~Pending' /\ ~Answered
    BY <1>1, <1>2 DEF Pending, Answered
  <2>2. Pending' = FALSE /\ Answered = FALSE
    BY <2>1 DEF Pending, Answered
  <2>3. StatusCode' = NoStatus
    BY <2>1 DEF StatusCode, NoStatus
  <2>4. AnsweredCode = NoStatus
    BY <2>1 DEF AnsweredCode
  <2>5. settled' = Len(frozen)
    BY <1>2
  <2> QED BY <2>2, <2>3, <2>4, <2>5
<1>3. CASE ~Confirmed
  <2>1. Pending' <=> Pending
    BY <1>3 DEF Pending
  <2>2. Answered <=> Pending
    BY <1>3 DEF Answered
  <2>3. Pending' = Answered
    BY <2>1, <2>2 DEF Pending, Answered
  <2> QED BY <1>3, <2>1, <2>2, <2>3, StatusType DEF StatusCode, AnsweredCode
<1> QED BY <1>2, <1>3

(* The next message of the cyclic exchange. *)
LEMMA CyclicSent ==
  ASSUME NEW S, NEW r \in HandlersWith(S), NEW pending \in BOOLEAN, NEW owed \in BOOLEAN,
         NEW away \in BOOLEAN, NEW code, Ready(r, pending, owed, away, code),
         r.mdh = "OPERATE", r.mh = "AW_REPLY_16", r.cycle, r.retry <= MaxRetry
  PROVE  LET x == PL_MessageDownload_req(Master(r))
         IN  /\ x \in HandlersWith(S)
             /\ Sound(x, pending, owed, away) /\ Reading(x, code)
             /\ x.signals = r.signals
             /\ x.events = r.events \/ x.events = [s \in Slots |-> Unread]
             /\ r.confirmation => x.confirmation \/ x.message = Confirm
<1> DEFINE m == Master(r)
<1>1. m \in HandlersWith(S) /\ m.retry = r.retry /\ m.mh = r.mh /\ m.cycle = r.cycle
  BY MasterKeeps
<1>2. r.retry \in Retries /\ r.mh \in Awaiting /\ r.cycle \in BOOLEAN
  BY DEF HandlersWith, Awaiting
<1>3. Leaves(S, r, Sent(Master(r), r.retry, "AW_REPLY_16", TRUE), pending, owed, away, code)
  <2>1. "AW_REPLY_16" \in Awaiting /\ TRUE \in BOOLEAN /\ r.mdh # "PREOPERATE"
    BY DEF Awaiting
  <2>2. r.retry \in Retries
    BY <1>2
  <2> QED BY <2>1, <2>2, SentIsSound
<1> HIDE DEF m
<1>4. PL_MessageDownload_req(m) = Sent(m, r.retry, "AW_REPLY_16", TRUE)
  <2>1. r.cycle = TRUE
    BY <1>2
  <2>2. m.retry = r.retry /\ m.mh = "AW_REPLY_16" /\ m.cycle = TRUE
    BY <1>1, <2>1
  <2>3. PL_MessageDownload_req(m) = Sent(m, m.retry, m.mh, m.cycle)
    BY <1>1, <2>2, DownloadIsSent
  <2> QED BY <2>2, <2>3
<1> QED BY <1>3, <1>4 DEF m, Leaves

(* Nothing unread is unknown. *)
LEMMA UnreadKnown ==
  ASSUME NEW n \in Nat
  PROVE  Known([s \in Slots |-> Unread], n)
BY DEF Known, Unread, NoOctet, Octet

(* A set is signalled when the AL waits for one. *)
LEMMA SetIsGathered ==
  ASSUME IInv, Pending, mbox = <<>>, UNCHANGED <<al, frozen, settled, reports, app, used>>,
         h' \in Handlers,
         Sound(h', TRUE, TRUE, FALSE), Reading(h', StatusCode), Known(h'.events, Len(frozen)),
         h'.confirmation \/ h'.message = Confirm,
         mbox' = mbox \o Jobs(Meant(Len(frozen))),
         told' = Append(told, [set |-> Meant(Len(frozen)), no |-> Len(frozen)]),
         lost' = FALSE
  PROVE  IInv'
<1> DEFINE no == Len(frozen)
<1> DEFINE set == Meant(no)
<1> DEFINE T == [set : Sets, no : Nat]
<1>1. TypeInv
  BY DEF IInv, DlInv
<1>2. no \in 1 .. Len(frozen) /\ no \in Nat
  BY <1>1, StatusType
<1>3. set \in Sets /\ Len(set) \in 1 .. MaxEvents /\ Len(set) \in Nat
  BY <1>1, <1>2, MeantSets, EventAssumption, SMTT(40) DEF TypeInv
<1>4. Waiting
  BY IdleWaits
<1>5. \A n : Meant(n)' = Meant(n)
  BY DEF Meant
<1> DEFINE rec == [set |-> set, no |-> no]
<1>6. rec \in T /\ rec.set = set /\ rec.no = no
  BY <1>2, <1>3
<1>7. told \in Seq(T) /\ told' = Append(told, rec)
  BY <1>1 DEF TypeInv
<1> HIDE DEF rec, T
<1>8. /\ told' \in Seq(T) /\ Len(told') = Len(told) + 1 /\ told'[Len(told')] = rec
      /\ \A i \in 1 .. Len(told) : told'[i] = told[i]
      /\ Len(told) \in Nat
  BY <1>6, <1>7
<1>9. Jobs(set) = [i \in 1 .. Len(set) |-> Job(set, i)]
  BY DEF Jobs, Job
<1>10. Jobs(set) \in Seq(AllJobs)
  <2>1. ASSUME NEW i \in 1 .. Len(set) PROVE Job(set, i) \in AllJobs
    <3>1. set[i] \in Entries
      BY <1>3 DEF Sets
    <3>2. Len(set) - i \in Nat
      BY <1>3
    <3> QED BY <3>1, <3>2 DEF Job, AllJobs
  <2> DEFINE J(i) == Job(set, i)
  <2>2. Jobs(set) = [i \in 1 .. Len(set) |-> J(i)]
    BY <1>9
  <2> HIDE DEF J, set
  <2> QED BY <1>3, <2>1, <2>2 DEF J
<1>11. mbox' = Jobs(set)
  BY <1>10
<1>12. Pending' /\ StatusCode' = StatusCode
  BY DEF Pending, StatusCode
<1>13. Owed'
  <2>1. told' # <<>>
    BY <1>8
  <2> QED BY <1>6, <1>8, <2>1 DEF Owed
<1>14. TypeInv'
  <2>1. told' \in Seq([set : Sets, no : Nat])
    BY <1>8 DEF T
  <2> QED BY <1>1, <1>10, <1>11, <2>1 DEF TypeInv
<1>15. Pending' = TRUE /\ Owed' = TRUE
  BY <1>12, <1>13 DEF Pending, Owed
<1>16. Sound(h', Pending', Owed', lost')
  BY <1>15
<1>17. ToldMeant'
  <2> SUFFICES ASSUME NEW i \in 1 .. Len(told')
               PROVE  told'[i].no \in 1 .. Len(frozen) /\ told'[i].set = Meant(told'[i].no)
    BY <1>5 DEF ToldMeant
  <2>1. CASE i = Len(told')
    BY <1>2, <1>6, <1>8, <2>1
  <2>2. CASE i # Len(told')
    <3>1. i \in 1 .. Len(told)
      BY <1>8, <2>2
    <3>2. ToldMeant
      BY DEF IInv, DlInv
    <3> QED BY <1>8, <3>1, <3>2 DEF ToldMeant
  <2> QED BY <2>1, <2>2
<1>18. DlInv'
  <2>1. Commanding(h)'
    BY DEF Sound, Commanding
  <2> QED BY <1>12, <1>14, <1>16, <1>17, <2>1 DEF DlInv, Sound, OctetsKnown
<1>19. Gathering'
  <2>1. al'.cnt = 0 /\ al'.state = "Event_idle" /\ Len(told') = Len(reports') + 1
    BY <1>4, <1>8 DEF Waiting
  <2>2. told'[Len(told')].set = set
    BY <1>6, <1>8
  <2> HIDE DEF set
  <2>3. mbox' = [i \in 1 .. Len(set) - al'.cnt |-> Job(set, al'.cnt + i)]
    <3>1. Len(set) - al'.cnt = Len(set)
      BY <1>3, <2>1
    <3>2. \A i \in 1 .. Len(set) : al'.cnt + i = i
      BY <2>1
    <3> QED BY <1>9, <1>11, <3>1, <3>2
  <2>4. al'.cnt \in 0 .. Len(set) - 1
    BY <1>3, <2>1
  <2>5. \A i \in 1 .. al'.cnt : al'.events[i - 1] = set[i]
    BY <2>1
  <2> QED BY <2>1, <2>2, <2>3, <2>4, <2>5 DEF Gathering, GatheringOf, Job
<1>20. Handling(h', Pending')
  BY DEF Handling
<1>21. SlotsKnown'
  BY <1>5 DEF IInv, SlotsKnown
<1> QED BY <1>18, <1>19, <1>20, <1>21 DEF IInv, Collection

(* The reply of the cyclic exchange is handled. *)
LEMMA Reply16Kept ==
  ASSUME IInv, app = "idle", Reply16
  PROVE  IInv'
<1> DEFINE r == Device([h EXCEPT !.flag = Answered])
<1> DEFINE x == PL_MessageDownload_req(Master(r))
<1>1. /\ DlInv /\ TypeInv /\ h.mh = "AW_REPLY_16" /\ h.message # NoMessage
      /\ UNCHANGED <<al, frozen, reports, app, used>>
      /\ settled' = IF Confirmed THEN Len(frozen) ELSE settled
  BY DEF IInv, DlInv, Reply16
<1>2. HandledQuietly(r) \/ HandledSet(r)
  BY <1>1, ReplyHandled
<1>3. Settle(x)
  BY DEF Reply16, Exchange, Answered
<1>4. /\ Pending' = Answered /\ StatusCode' = AnsweredCode
      /\ Answered \in BOOLEAN /\ settled' \in {settled, Len(frozen)}
  BY <1>1, AnsweredNext
<1>5. Owed \in BOOLEAN /\ lost \in BOOLEAN /\ Len(frozen) \in Nat /\ used \in [DOMAIN Limit -> Nat]
  BY <1>1, StatusType DEF TypeInv, Owed
<1>6. h.mdh = "OPERATE" /\ ~h.comlost
  BY <1>1, Cyclic
<1>7. Known([s \in Slots |-> Unread], Len(frozen))
  BY <1>5, UnreadKnown
<1> HIDE DEF r
<1>8. CASE HandledQuietly(r)
  <2>1. /\ r \in HandlersWith({<<>>}) /\ Ready(r, Answered, Owed, lost, AnsweredCode)
        /\ r.mdh = "OPERATE" /\ r.mh = "AW_REPLY_16" /\ r.cycle /\ r.retry <= MaxRetry
        /\ Known(r.events, Len(frozen)) /\ (h.confirmation => r.confirmation)
    BY <1>8 DEF HandledQuietly, Handlers
  <2>2. /\ x \in HandlersWith({<<>>})
        /\ Sound(x, Answered, Owed, lost) /\ Reading(x, AnsweredCode)
        /\ x.events = r.events \/ x.events = [s \in Slots |-> Unread]
        /\ r.confirmation => x.confirmation \/ x.message = Confirm
    BY <1>4, <1>5, <2>1, CyclicSent
  <2> HIDE DEF x
  <2>3. h' = x /\ mbox' = mbox /\ told' = told /\ lost' = lost
    BY <1>1, <1>3, <2>2, SettleQuiet DEF Handlers
  <2>4. Known(h'.events, Len(frozen))
    BY <1>7, <2>1, <2>2, <2>3
  <2>5. Busy => Handling(h', Pending')
    <3> SUFFICES ASSUME Busy, Answered PROVE h'.confirmation \/ h'.message = Confirm
      BY <1>4 DEF Handling
    <3>1. Pending /\ h.message # Confirm
      BY DEF Answered, Confirmed
    <3>2. h.confirmation
      BY <1>6, <3>1 DEF IInv, Handling, Away
    <3> QED BY <2>1, <2>2, <2>3, <3>2
  <2>6. Sound(h', Pending', Owed, lost') /\ Reading(h', StatusCode')
    BY <1>4, <2>2, <2>3
  <2> QED BY <1>1, <1>4, <1>5, <2>2, <2>3, <2>4, <2>5, <2>6, QuietStep DEF Handlers
<1>9. CASE HandledSet(r)
  <2> DEFINE n == Len(frozen)
  <2> DEFINE S == {<<Meant(n)>>}
  <2>1. /\ Pending /\ ~Confirmed /\ ~h.confirmation /\ h.message # Confirm
        /\ r \in HandlersWith(S) /\ Ready(r, TRUE, TRUE, FALSE, StatusCode)
        /\ r.mdh = "OPERATE" /\ r.mh = "AW_REPLY_16" /\ r.cycle /\ r.retry <= MaxRetry
        /\ Known(r.events, Len(frozen)) /\ r.confirmation
    BY <1>9 DEF HandledSet, Ready
  <2>2. mbox = <<>>
    BY <1>6, <2>1 DEF IInv, Busy, Handling, Away
  <2>3. n \in 1 .. Len(frozen)
    BY <1>1, <2>1, StatusType
  <2> HIDE DEF S
  <2>4. /\ x \in HandlersWith(S)
        /\ Sound(x, TRUE, TRUE, FALSE) /\ Reading(x, StatusCode)
        /\ x.events = r.events \/ x.events = [s \in Slots |-> Unread]
        /\ r.confirmation => x.confirmation \/ x.message = Confirm
    BY <2>1, CyclicSent
  <2> HIDE DEF x
  <2>5. /\ h' = [x EXCEPT !.signals = <<>>] /\ mbox' = mbox \o Jobs(Meant(n))
        /\ told' = Append(told, [set |-> Meant(n), no |-> n]) /\ lost' = FALSE
    BY <1>1, <1>3, <2>3, <2>4, SettleSet DEF S
  <2>6. /\ h' \in Handlers /\ Sound(h', TRUE, TRUE, FALSE) /\ Reading(h', StatusCode)
        /\ h'.events = x.events /\ h'.confirmation = x.confirmation /\ h'.message = x.message
    BY <2>4, <2>5, SignalsTaken
  <2>7. Known(h'.events, Len(frozen))
    BY <1>7, <2>1, <2>4, <2>6
  <2>8. settled' = settled
    BY <1>1, <2>1
  <2> QED BY <1>1, <2>1, <2>2, <2>4, <2>5, <2>6, <2>7, <2>8, SetIsGathered
<1> QED BY <1>2, <1>8, <1>9

-----------------------------------------------------------------------------
(* The other steps of the DL signal nothing, and read nothing.             *)

(* A step that only changes the record of the handlers. *)
LEMMA HandlerStep ==
  ASSUME IInv, UNCHANGED <<al, mbox, frozen, settled, told, reports, lost, app>>,
         used' \in [DOMAIN Limit -> Nat],
         h' \in Handlers, Sound(h', Pending, Owed, lost), Reading(h', StatusCode),
         h'.events = h.events \/ h'.events = [s \in Slots |-> Unread],
         Busy => Handling(h', Pending)
  PROVE  IInv'
<1>1. Pending' = Pending /\ StatusCode' = StatusCode
  BY DEF Pending, StatusCode
<1>2. lost' \in BOOLEAN /\ settled' \in {settled, Len(frozen)}
  BY DEF IInv, DlInv, TypeInv
<1>3. Known(h'.events, Len(frozen))
  <2>1. Known(h.events, Len(frozen)) /\ Len(frozen) \in Nat
    BY DEF IInv, DlInv, TypeInv, OctetsKnown
  <2>2. Known([s \in Slots |-> Unread], Len(frozen))
    BY <2>1, UnreadKnown
  <2> QED BY <2>1, <2>2
<1>4. Sound(h', Pending', Owed, lost') /\ Reading(h', StatusCode')
  BY <1>1
<1>5. Busy => Handling(h', Pending')
  BY <1>1
<1> QED BY <1>2, <1>3, <1>4, <1>5, QuietStep

(* Nothing is handed over. *)
Unsignalled == told' = told /\ lost' = lost

(* A step of the DL thread that does so. *)
LEMMA ThreadStep ==
  ASSUME IInv, UNCHANGED <<al, frozen, settled, reports, app, used>>,
         NEW y \in Handlers, Settle(y), Sound(y, Pending, Owed, lost), Reading(y, StatusCode),
         y.events = h.events \/ y.events = [s \in Slots |-> Unread],
         Busy => Handling(y, Pending)
  PROVE  IInv' /\ Unsignalled
<1>1. h' = y /\ mbox' = mbox /\ told' = told /\ lost' = lost
  BY SettleQuiet DEF IInv, DlInv
<1>2. used' \in [DOMAIN Limit -> Nat]
  BY DEF IInv, DlInv, TypeInv
<1> QED BY <1>1, <1>2, HandlerStep DEF Unsignalled

(* What holds in PREOPERATE while a reply is awaited. *)
LEMMA AwaitingReply9 ==
  ASSUME DlInv, h.mh = "AW_REPLY_9"
  PROVE  /\ h.mdh = "PREOPERATE" /\ h.mode = "PREOPERATE" /\ ~Pending /\ ~h.comlost
         /\ h.preop # "confirmed" /\ ~h.confirmation
         /\ h.od \in {"ISDU", "COMMAND", "EVENT"} /\ (h.od = "COMMAND" => ~h.code)
         /\ h \in Handlers
<1>1. h \in Handlers /\ h.mdh \in MdhStates /\ h.mode \in Modes /\ h.od \in OdStates
  BY DEF DlInv, TypeInv, Handlers, HandlersWith
<1>2. h.mdh = "PREOPERATE"
  BY <1>1 DEF DlInv, Levels, MdhStates
<1>3. h.preop # "confirmed" /\ h.mode = "PREOPERATE"
  BY <1>2 DEF DlInv, Asked, Exchanging
<1>4. ~Pending /\ ~h.confirmation
  BY <1>2 DEF DlInv, Changing, Confirming
<1>5. ~h.comlost /\ h.od # "INACTIVE" /\ (h.od = "COMMAND" => ~h.code)
  BY <1>2 DEF DlInv, Levels, Commanding, Exchanging
<1> QED BY <1>1, <1>2, <1>3, <1>4, <1>5 DEF OdStates

(* What the handled reply leaves, in all cases. *)
LEMMA Reply9Handled ==
  ASSUME DlInv, h.mh = "AW_REPLY_9",
         NEW t \in Triggers, NEW o \in BOOLEAN, NEW p \in Preops,
         p = "confirmed" => ~h.code /\ ~o,
         p = "none" => h.preop = "none",
         NEW y, y = [h EXCEPT !.flag = FALSE, !.trigger = t, !.od = "ISDU", !.operate = o,
                              !.preop = p, !.message = NoMessage, !.dataready = TRUE,
                              !.mh = "PREOPERATE_6"]
  PROVE  /\ y \in Handlers /\ Sound(y, Pending, Owed, lost) /\ Reading(y, StatusCode)
         /\ y.events = h.events
<1>1. /\ h.mdh = "PREOPERATE" /\ h.mode = "PREOPERATE" /\ ~Pending /\ ~h.comlost
      /\ h.preop # "confirmed" /\ ~h.confirmation
      /\ h.od \in {"ISDU", "COMMAND", "EVENT"} /\ (h.od = "COMMAND" => ~h.code)
      /\ h \in HandlersWith({<<>>})
  BY AwaitingReply9 DEF Handlers
<1>2. y \in HandlersWith({<<>>})
  BY <1>1, Update, MessageTypes, ZenonT(60) DEF OdStates, MhStates
<1>3. /\ y.mdh = h.mdh /\ y.mode = h.mode /\ y.comlost = h.comlost /\ y.retry = h.retry
      /\ y.cycle = h.cycle /\ y.cmdh = h.cmdh /\ y.chActive = h.chActive /\ y.code = h.code
      /\ y.ev = h.ev /\ y.ehActive = h.ehActive /\ y.confirmation = h.confirmation
  BY <1>1 DEF HandlersWith
<1>4. /\ y.addr = h.addr /\ y.cnt = h.cnt /\ y.current = h.current /\ y.num = h.num
      /\ y.status = h.status /\ y.events = h.events
  BY <1>1 DEF HandlersWith
<1>5. /\ y.flag = FALSE /\ y.trigger = t /\ y.od = "ISDU" /\ y.operate = o /\ y.preop = p
      /\ y.message = NoMessage /\ y.dataready = TRUE /\ y.mh = "PREOPERATE_6"
  BY <1>1 DEF HandlersWith
<1>6. /\ Levels(h) /\ Asked(h) /\ Commanding(h) /\ Flagged(h) /\ Changing(h, Pending)
      /\ Confirming(h, Pending, Owed, lost) /\ Reading(h, StatusCode)
  BY DEF DlInv
<1>7. Levels(y) /\ Asked(y)
  BY <1>1, <1>3, <1>5, <1>6 DEF Levels, Asked, Exchanging
<1>8. Commanding(y) /\ Flagged(y)
  BY <1>1, <1>3, <1>5, <1>6 DEF Commanding, Flagged, Exchanging, Sending
<1>9. Changing(y, Pending) /\ Confirming(y, Pending, Owed, lost)
  BY <1>1, <1>3, <1>5, MessageTypes DEF Changing, Confirming
<1>10. Reading(y, StatusCode)
  BY <1>3, <1>4, <1>6 DEF Reading, ReadSoFar, Part
<1> QED BY <1>2, <1>4, <1>7, <1>8, <1>9, <1>10 DEF Sound, Handlers

(* The reply of the exchange in PREOPERATE is handled. *)
LEMMA Reply9Kept ==
  ASSUME IInv, Reply9
  PROVE  IInv' /\ Unsignalled
<1> DEFINE d == [h EXCEPT !.flag = Pending]
<1> DEFINE y == AwaitReply9(d)
<1>1. /\ DlInv /\ h.mh = "AW_REPLY_9" /\ Settle(y)
      /\ UNCHANGED <<al, frozen, settled, reports, app, used>>
  BY DEF IInv, Reply9
<1>2. /\ h.mdh = "PREOPERATE" /\ h.mode = "PREOPERATE" /\ ~Pending /\ ~h.comlost
      /\ h.preop # "confirmed" /\ ~h.confirmation
      /\ h.od \in {"ISDU", "COMMAND", "EVENT"} /\ (h.od = "COMMAND" => ~h.code)
      /\ h \in HandlersWith({<<>>})
  BY <1>1, AwaitingReply9 DEF Handlers
<1>3. d = [h EXCEPT !.flag = FALSE]
  <2>1. Pending = FALSE
    BY <1>2 DEF Pending
  <2> QED BY <2>1
<1> HIDE DEF d
<1>4. d \in HandlersWith({<<>>})
  BY <1>2, <1>3, Update
<1>5. /\ d.flag = FALSE /\ d.od = h.od /\ d.code = h.code /\ d.mode = "PREOPERATE"
      /\ d.mdh = "PREOPERATE" /\ d.operate = h.operate /\ d.preop = h.preop
  BY <1>2, <1>3 DEF HandlersWith
<1> DEFINE z == Device(d)
<1>6. y = [z EXCEPT !.message = NoMessage, !.dataready = TRUE, !.mh = "PREOPERATE_6"]
  <2> HIDE DEF z
  <2> DEFINE handled == [z EXCEPT !.message = NoMessage, !.dataready = TRUE]
  <2>1. y = IF d.mode = "OPERATE" /\ d.mdh = "OPERATE" THEN [handled EXCEPT !.mh = "AW_REPLY_16"]
            ELSE IF d.mdh # "OPERATE" /\ ~d.flag THEN [handled EXCEPT !.mh = "PREOPERATE_6"]
            ELSE handled
    BY DEF AwaitReply9, z
  <2>2. y = [handled EXCEPT !.mh = "PREOPERATE_6"]
    BY <1>5, <2>1
  <2> QED BY <2>2
<1> HIDE DEF y
<1> DEFINE Result(t, o, p) ==
      [h EXCEPT !.flag = FALSE, !.trigger = t, !.od = "ISDU", !.operate = o,
                !.preop = p, !.message = NoMessage, !.dataready = TRUE, !.mh = "PREOPERATE_6"]
<1>7. h.operate \in BOOLEAN /\ h.preop \in Preops
  BY <1>2 DEF HandlersWith
<1>8. ASSUME NEW t \in Triggers, NEW o \in BOOLEAN, NEW p \in Preops,
             p = "confirmed" => ~h.code /\ ~o, p = "none" => h.preop = "none",
             y = Result(t, o, p)
      PROVE  IInv' /\ Unsignalled
  <2>1. /\ y \in Handlers /\ Sound(y, Pending, Owed, lost) /\ Reading(y, StatusCode)
        /\ y.events = h.events
    BY <1>1, <1>8, Reply9Handled
  <2>2. Busy => Handling(y, Pending)
    BY <1>2 DEF Handling
  <2> QED BY <1>1, <2>1, <2>2, ThreadStep
<1>9. CASE h.od = "ISDU"
  <2>1. z = [d EXCEPT !.trigger = "NONE"]
    BY <1>4, <1>5, <1>9, DeviceIsdu DEF Handlers
  <2> HIDE DEF z
  <2>2. y = [z EXCEPT !.message = NoMessage, !.dataready = TRUE, !.mh = "PREOPERATE_6"]
    BY <1>6
  <2>3. y = Result("NONE", h.operate, h.preop)
    BY <1>2, <1>3, <1>9, <2>1, <2>2, ZenonT(60) DEF HandlersWith
  <2> QED BY <1>2, <1>7, <1>8, <2>3 DEF Triggers
<1>10. CASE h.od = "EVENT"
  <2>1. z = [d EXCEPT !.trigger = "DEVICE", !.od = "ISDU"]
    BY <1>4, <1>5, <1>10, DeviceFlagGone DEF Handlers
  <2> HIDE DEF z
  <2>2. y = [z EXCEPT !.message = NoMessage, !.dataready = TRUE, !.mh = "PREOPERATE_6"]
    BY <1>6
  <2>3. y = Result("DEVICE", h.operate, h.preop)
    BY <1>2, <1>3, <2>1, <2>2 DEF HandlersWith
  <2> QED BY <1>2, <1>7, <1>8, <2>3 DEF Triggers
<1>11. CASE h.od = "COMMAND"
  <2> DEFINE p == IF h.operate THEN "confirmed" ELSE h.preop
  <2>1. p \in Preops /\ (p = "none" => h.preop = "none")
    BY <1>7 DEF Preops
  <2> HIDE DEF p
  <2>2. z = [d EXCEPT !.trigger = "NONE", !.operate = FALSE, !.preop = p, !.od = "ISDU"]
    BY <1>2, <1>4, <1>5, <1>11, DeviceCommand DEF Handlers, p
  <2> HIDE DEF z
  <2>3. y = [z EXCEPT !.message = NoMessage, !.dataready = TRUE, !.mh = "PREOPERATE_6"]
    BY <1>6
  <2>4. y = Result("NONE", FALSE, p)
    BY <1>2, <1>3, <2>2, <2>3, ZenonT(60) DEF HandlersWith
  <2> QED BY <1>2, <1>8, <1>11, <2>1, <2>4 DEF Triggers
<1> QED BY <1>2, <1>9, <1>10, <1>11

(* The bounded events are counted. *)
LEMMA SpendTypes ==
  ASSUME TypeInv, NEW bound, Spend(bound)
  PROVE  used' \in [DOMAIN Limit -> Nat]
<1>1. used \in [DOMAIN Limit -> Nat] /\ used' = [used EXCEPT ![bound] = used[bound] + 1]
  BY DEF TypeInv, Spend
<1>2. CASE bound \in DOMAIN Limit
  BY <1>1, <1>2
<1>3. CASE bound \notin DOMAIN Limit
  BY <1>1, <1>3
<1> QED BY <1>2, <1>3

(* A confirmation that reaches the device settles the set. *)
LEMMA MaySettle ==
  ASSUME TypeInv, UNCHANGED frozen,
         settled' \in {settled, IF Confirmed THEN Len(frozen) ELSE settled}
  PROVE  \/ Pending' = Pending /\ StatusCode' = StatusCode
         \/ Pending' = FALSE /\ h.message = Confirm
<1>1. CASE settled' = settled
  BY <1>1 DEF Pending, StatusCode
<1>2. CASE settled' # settled
  <2>1. settled' = Len(frozen) /\ h.message = Confirm /\ Len(frozen) \in Nat
    BY <1>2 DEF Confirmed, TypeInv
  <2> QED BY <2>1 DEF Pending
<1> QED BY <1>1, <1>2

(* A message or its reply is lost: it is repeated. *)
LEMMA RetryKept ==
  ASSUME IInv, MessageLost, h.retry < MaxRetry
  PROVE  IInv'
<1>1. /\ DlInv /\ TypeInv /\ h \in HandlersWith({<<>>}) /\ lost \in BOOLEAN /\ Len(frozen) \in Nat
      /\ settled \in Nat /\ Levels(h) /\ Asked(h) /\ Commanding(h) /\ Flagged(h)
      /\ Changing(h, Pending) /\ Confirming(h, Pending, Owed, lost) /\ Reading(h, StatusCode)
  BY DEF IInv, DlInv, TypeInv, Handlers
<1>2. /\ h' = [h EXCEPT !.retry = h.retry + 1] /\ lost' = lost
      /\ h.mh \in Awaiting /\ h.message # NoMessage
      /\ settled' \in {settled, IF Confirmed THEN Len(frozen) ELSE settled}
      /\ UNCHANGED <<al, mbox, frozen, told, reports, app>>
  <2>1. h.retry \in Nat /\ MaxRetry \in Nat
    BY <1>1, EventAssumption DEF HandlersWith, Retries
  <2> QED BY <2>1 DEF MessageLost, Awaiting
<1>3. used' \in [DOMAIN Limit -> Nat]
  BY <1>1, SpendTypes DEF MessageLost
<1>4. h' \in HandlersWith({<<>>})
  <2>1. h.retry + 1 \in Retries
    BY <1>1, EventAssumption DEF HandlersWith, Retries
  <2> QED BY <1>1, <1>2, <2>1, Update
<1>5. /\ h'.mdh = h.mdh /\ h'.mode = h.mode /\ h'.comlost = h.comlost /\ h'.mh = h.mh
      /\ h'.retry = h.retry + 1 /\ h'.dataready = h.dataready /\ h'.cycle = h.cycle
      /\ h'.message = h.message /\ h'.od = h.od /\ h'.trigger = h.trigger
      /\ h'.cmdh = h.cmdh /\ h'.chActive = h.chActive /\ h'.code = h.code
      /\ h'.operate = h.operate /\ h'.preop = h.preop
  BY <1>1, <1>2 DEF HandlersWith
<1>6. /\ h'.ev = h.ev /\ h'.ehActive = h.ehActive /\ h'.flag = h.flag
      /\ h'.confirmation = h.confirmation /\ h'.addr = h.addr /\ h'.cnt = h.cnt
      /\ h'.current = h.current /\ h'.num = h.num /\ h'.status = h.status
      /\ h'.events = h.events
  BY <1>1, <1>2 DEF HandlersWith
<1>7. Levels(h') /\ Asked(h')
  <2>1. h.retry + 1 <= MaxRetry
    BY <1>1, EventAssumption DEF HandlersWith, Retries
  <2> QED BY <1>1, <1>5, <1>6, <2>1 DEF Levels, Asked
<1>8. Commanding(h') /\ Flagged(h')
  BY <1>1, <1>5, <1>6 DEF Commanding, Flagged
<1>9. \/ Pending' = Pending /\ StatusCode' = StatusCode
      \/ Pending' = FALSE /\ h.message = Confirm
  BY <1>1, <1>2, MaySettle
<1>10. Changing(h', Pending') /\ Confirming(h', Pending', Owed, lost')
  <2>1. CASE Pending' = Pending
    BY <1>1, <1>2, <1>5, <1>6, <2>1 DEF Changing, Confirming
  <2>2. CASE Pending' = FALSE /\ h.message = Confirm
    BY <1>1, <1>2, <1>5, <1>6, <2>2 DEF Changing, Confirming
  <2> QED BY <1>9, <2>1, <2>2
<1>11. Reading(h', StatusCode')
  <2>1. CASE StatusCode' = StatusCode
    BY <1>1, <1>5, <1>6, <2>1 DEF Reading, ReadSoFar, Part
  <2>2. CASE h.message = Confirm
    BY <1>1, <1>6, <2>2 DEF Reading, Confirming
  <2> QED BY <1>9, <2>1, <2>2
<1>12. Busy => Handling(h', Pending')
  BY <1>5, <1>6, <1>9 DEF IInv, Handling, Away
<1>13. Known(h'.events, Len(frozen)) /\ settled' \in {settled, Len(frozen)}
  BY <1>1, <1>2, <1>6 DEF DlInv, OctetsKnown
<1> QED BY <1>1, <1>2, <1>3, <1>4, <1>7, <1>8, <1>10, <1>11, <1>12, <1>13, QuietStep DEF Sound, Handlers

(* Communication is lost. *)
LEMMA ComLostKept ==
  ASSUME IInv, MessageLost, h.retry >= MaxRetry
  PROVE  IInv'
<1>1. /\ DlInv /\ TypeInv /\ h \in HandlersWith({<<>>}) /\ lost \in BOOLEAN /\ Len(frozen) \in Nat
      /\ settled \in Nat /\ Levels(h) /\ Asked(h) /\ Commanding(h) /\ Flagged(h)
      /\ Changing(h, Pending) /\ Confirming(h, Pending, Owed, lost) /\ Reading(h, StatusCode)
  BY DEF IInv, DlInv, TypeInv, Handlers
<1> DEFINE o == h.mh = "AW_REPLY_16" /\ h.operate
<1> DEFINE n == IF h.mh = "AW_REPLY_16" THEN h.retry + 1 ELSE h.retry
<1>2. /\ h' = ComLost(h) /\ lost' = TRUE /\ h.mh \in Awaiting /\ h.message # NoMessage
      /\ settled' \in {settled, IF Confirmed THEN Len(frozen) ELSE settled}
      /\ UNCHANGED <<al, mbox, frozen, told, reports, app>>
  <2>1. h.retry \in Nat /\ MaxRetry \in Nat
    BY <1>1, EventAssumption DEF HandlersWith, Retries
  <2> QED BY <2>1 DEF MessageLost, Awaiting
<1>3. o \in BOOLEAN /\ n \in Retries
  BY <1>1, EventAssumption DEF HandlersWith, Retries, Levels
<1>4. h' = [h EXCEPT !.mh = "INACTIVE", !.message = NoMessage, !.comlost = TRUE,
                     !.mdhEvent = TRUE, !.operate = o, !.retry = n]
  BY <1>1, <1>2 DEF ComLost, HandlersWith
<1>5. used' \in [DOMAIN Limit -> Nat]
  BY <1>1, SpendTypes DEF MessageLost
<1> HIDE DEF o, n
<1>6. h' \in HandlersWith({<<>>})
  BY <1>1, <1>3, <1>4, Update, MessageTypes DEF MhStates
<1>7. /\ h'.mdh = h.mdh /\ h'.mode = h.mode /\ h'.comlost = TRUE /\ h'.mh = "INACTIVE"
      /\ h'.message = NoMessage /\ h'.od = h.od /\ h'.trigger = h.trigger
      /\ h'.cmdh = h.cmdh /\ h'.chActive = h.chActive /\ h'.code = h.code
      /\ h'.preop = h.preop
  BY <1>1, <1>4 DEF HandlersWith
<1>8. /\ h'.ev = h.ev /\ h'.ehActive = h.ehActive /\ h'.flag = h.flag
      /\ h'.confirmation = h.confirmation /\ h'.addr = h.addr /\ h'.cnt = h.cnt
      /\ h'.current = h.current /\ h'.num = h.num /\ h'.status = h.status
      /\ h'.events = h.events
  BY <1>1, <1>4 DEF HandlersWith
<1>9. h.mdh \in Exchanging /\ (h.mdh = "PREOPERATE" => h.preop # "confirmed")
  <2>1. h.mdh \in MdhStates
    BY <1>1 DEF HandlersWith
  <2> QED BY <1>1, <1>2, <2>1 DEF Levels, Asked, Awaiting, Exchanging, MdhStates
<1>10. Levels(h') /\ Asked(h')
  BY <1>1, <1>7, <1>8, <1>9 DEF Levels, Asked, Exchanging
<1>11. Commanding(h') /\ Flagged(h')
  BY <1>1, <1>7, <1>8 DEF Commanding, Flagged, Sending
<1>12. \/ Pending' = Pending /\ StatusCode' = StatusCode
       \/ Pending' = FALSE /\ h.message = Confirm
  BY <1>1, <1>2, MaySettle
<1>13. Changing(h', Pending') /\ Confirming(h', Pending', Owed, lost')
  <2>1. CASE Pending' = Pending
    BY <1>1, <1>2, <1>7, <1>8, <2>1, MessageTypes DEF Changing, Confirming
  <2>2. CASE Pending' = FALSE /\ h.message = Confirm
    BY <1>1, <1>2, <1>7, <1>8, <2>2, MessageTypes DEF Changing, Confirming
  <2> QED BY <1>12, <2>1, <2>2
<1>14. Reading(h', StatusCode')
  <2>1. CASE StatusCode' = StatusCode
    BY <1>1, <1>7, <1>8, <2>1 DEF Reading, ReadSoFar, Part
  <2>2. CASE h.message = Confirm
    BY <1>1, <1>8, <2>2 DEF Reading, Confirming
  <2> QED BY <1>12, <2>1, <2>2
<1>15. Busy => Handling(h', Pending')
  BY <1>1, <1>7, <1>9, <1>12 DEF Handling, Away, Changing, Exchanging
<1>16. Known(h'.events, Len(frozen)) /\ settled' \in {settled, Len(frozen)}
  BY <1>1, <1>2, <1>8 DEF DlInv, OctetsKnown
<1> QED BY <1>1, <1>2, <1>5, <1>6, <1>10, <1>11, <1>13, <1>14, <1>15, <1>16, QuietStep DEF Sound, Handlers

(* The message handler looks for something to send in PREOPERATE. *)
LEMMA Preoperate6Kept ==
  ASSUME IInv, Preoperate6
  PROVE  IInv'
<1>1. /\ DlInv /\ TypeInv /\ h \in HandlersWith({<<>>})
      /\ Levels(h) /\ Asked(h) /\ Commanding(h) /\ Flagged(h)
      /\ Changing(h, Pending) /\ Confirming(h, Pending, Owed, lost) /\ Reading(h, StatusCode)
  BY DEF IInv, DlInv, TypeInv, Handlers
<1> DEFINE m == IF h.mh = "PREOPERATE_6" /\ (h.operate \/ h.flag) THEN "GETOD_7" ELSE h.mh
<1>2. h' = [h EXCEPT !.mhEvent = FALSE, !.mh = m]
  BY DEF Preoperate6
<1>3. m \in MhStates
  BY <1>1 DEF HandlersWith, MhStates
<1>4. m = h.mh \/ (h.mh = "PREOPERATE_6" /\ m = "GETOD_7" /\ (h.operate \/ h.flag))
  OBVIOUS
<1> HIDE DEF m
<1>5. h' \in HandlersWith({<<>>})
  BY <1>1, <1>2, <1>3, Update
<1>6. /\ h'.mdh = h.mdh /\ h'.mode = h.mode /\ h'.comlost = h.comlost /\ h'.mh = m
      /\ h'.retry = h.retry /\ h'.dataready = h.dataready /\ h'.cycle = h.cycle
      /\ h'.message = h.message /\ h'.od = h.od /\ h'.trigger = h.trigger
      /\ h'.cmdh = h.cmdh /\ h'.chActive = h.chActive /\ h'.code = h.code
      /\ h'.operate = h.operate /\ h'.preop = h.preop
  BY <1>1, <1>2 DEF HandlersWith
<1>7. /\ h'.ev = h.ev /\ h'.ehActive = h.ehActive /\ h'.flag = h.flag
      /\ h'.confirmation = h.confirmation /\ h'.addr = h.addr /\ h'.cnt = h.cnt
      /\ h'.current = h.current /\ h'.num = h.num /\ h'.status = h.status
      /\ h'.events = h.events
  BY <1>1, <1>2 DEF HandlersWith
<1>8. h.mdh \in MdhStates /\ (h.mh = "PREOPERATE_6" => h.mdh = "PREOPERATE")
  BY <1>1 DEF HandlersWith, Levels, MdhStates
<1>9. Levels(h') /\ Asked(h')
  BY <1>1, <1>4, <1>6, <1>7, <1>8 DEF Levels, Asked, Awaiting
<1>10. Commanding(h') /\ Flagged(h')
  BY <1>1, <1>4, <1>6, <1>7 DEF Commanding, Flagged, Sending
<1>11. Changing(h', Pending) /\ Confirming(h', Pending, Owed, lost)
  BY <1>1, <1>6, <1>7 DEF Changing, Confirming
<1>12. Reading(h', StatusCode)
  BY <1>1, <1>7 DEF Reading, ReadSoFar, Part
<1>13. Busy => Handling(h', Pending)
  BY <1>6, <1>7 DEF IInv, Handling, Away
<1>14. used' \in [DOMAIN Limit -> Nat] /\ UNCHANGED <<al, mbox, frozen, settled, told, reports, lost, app>>
  BY <1>1 DEF Preoperate6, TypeInv
<1> QED BY <1>5, <1>7, <1>9, <1>10, <1>11, <1>12, <1>13, <1>14, HandlerStep DEF Sound, Handlers

(* The message handler sends: in PREOPERATE for a command or an event, in  *)
(* OPERATE the first message of the cyclic exchange.                       *)
LEMMA SendingReady ==
  ASSUME DlInv, app = "idle", h.mh \in {"GETOD_7", "OPERATE_12"}
  PROVE  /\ Ready(h, Pending, Owed, lost, StatusCode)
         /\ h.mdh = IF h.mh = "GETOD_7" THEN "PREOPERATE" ELSE "OPERATE"
<1>1. /\ h \in HandlersWith({<<>>})
      /\ Levels(h) /\ Asked(h) /\ Commanding(h) /\ Flagged(h)
      /\ Changing(h, Pending) /\ Confirming(h, Pending, Owed, lost) /\ Reading(h, StatusCode)
  BY DEF DlInv, TypeInv, Handlers
<1>2. /\ h.mdh \in MdhStates /\ h.mode \in Modes /\ h.od \in OdStates /\ h.ev \in EvStates
      /\ h.cmdh \in CmdStates
  BY <1>1 DEF HandlersWith
<1>3. h.mdh = IF h.mh = "GETOD_7" THEN "PREOPERATE" ELSE "OPERATE"
  BY <1>1, <1>2 DEF Levels, MdhStates
<1>4. h.mdh \in Exchanging /\ h.ehActive /\ h.chActive /\ ~h.comlost /\ h.message = NoMessage
  BY <1>1, <1>3 DEF Levels, Exchanging, Awaiting
<1>5. h.od \in {"ISDU", "EVENT"} /\ h.ev \in {"IDLE", "READEVENT"}
  BY <1>1, <1>2, <1>4 DEF Levels, Commanding, Sending, OdStates, EvStates
<1>6. (h.od = "EVENT" => h.flag) /\ (h.flag => h.ev = "IDLE")
  BY <1>1 DEF Flagged, Sending
<1>7. /\ h.mdh = "PREOPERATE" => h.mode = "PREOPERATE" /\ ~Pending /\ h.preop # "confirmed"
      /\ h.mdh = "PREOPERATE" /\ h.preop = "none" => ~h.code
      /\ h.mdh = "OPERATE" => h.mode # "PREOPERATE"
  BY <1>1, <1>3 DEF Asked, Changing, Exchanging
<1>8. (h.code => h.cmdh = "MASTERCOMMAND") /\ (~h.code => h.cmdh = "IDLE")
  BY <1>1, <1>3 DEF Commanding
<1>9. /\ h.confirmation => Pending /\ Owed /\ h.ev = "IDLE"
      /\ Owed /\ Pending /\ ~lost => h.confirmation
  BY <1>1, <1>4, <1>5, MessageTypes DEF Confirming
<1> QED BY <1>1, <1>3, <1>4, <1>5, <1>6, <1>7, <1>8, <1>9 DEF Ready

(* TInitcyc has passed: the next message is sent. *)
LEMMA TimeoutKept ==
  ASSUME IInv, app = "idle", Timeout
  PROVE  IInv' /\ Unsignalled
<1> DEFINE m == Master(h)
<1> DEFINE mh == IF h.mh = "GETOD_7" THEN "AW_REPLY_9" ELSE "AW_REPLY_16"
<1> DEFINE cycle == IF h.mh = "GETOD_7" THEN h.cycle ELSE TRUE
<1> DEFINE y == Sent(m, 0, mh, cycle)
<1>1. /\ DlInv /\ TypeInv /\ h \in HandlersWith({<<>>}) /\ Levels(h)
      /\ UNCHANGED <<al, frozen, settled, reports, app, used>> /\ Settle(TimedOut(h))
  BY DEF IInv, DlInv, TypeInv, Handlers, Timeout
<1>2. h.mh \in {"GETOD_7", "OPERATE_12"}
  BY <1>1 DEF Timeout, Levels
<1>3. /\ Ready(h, Pending, Owed, lost, StatusCode)
      /\ h.mdh = IF h.mh = "GETOD_7" THEN "PREOPERATE" ELSE "OPERATE"
  BY <1>1, <1>2, SendingReady
<1>4. Pending \in BOOLEAN /\ Owed \in BOOLEAN /\ lost \in BOOLEAN
  BY <1>1 DEF Pending, Owed, TypeInv
<1>5. 0 \in Retries /\ 0 <= MaxRetry /\ mh \in Awaiting /\ cycle \in BOOLEAN
  <2>1. h.cycle \in BOOLEAN
    BY <1>1 DEF HandlersWith
  <2>2. cycle \in BOOLEAN
    BY <2>1
  <2>3. mh \in Awaiting
    BY DEF Awaiting
  <2>4. 0 \in Retries /\ 0 <= MaxRetry
    BY EventAssumption DEF Retries
  <2> QED BY <2>2, <2>3, <2>4
<1>6. m \in HandlersWith({<<>>}) /\ m.cycle = h.cycle
  BY <1>1, <1>3, MasterKeeps
<1>7. (h.mdh = "OPERATE" => mh = "AW_REPLY_16" /\ cycle) /\ (h.mdh = "PREOPERATE" => mh = "AW_REPLY_9")
  BY <1>3
<1> HIDE DEF m
<1>8. TimedOut(h) = y
  <2>1. CASE h.mh = "GETOD_7"
    <3>1. TimedOut(h) = [[m EXCEPT !.message = m.tx, !.dataready = FALSE, !.retry = 0]
                            EXCEPT !.mh = "AW_REPLY_9"]
      BY <2>1 DEF TimedOut, PL_Transfer_req, m
    <3>2. y = [m EXCEPT !.message = m.tx, !.dataready = FALSE, !.retry = 0,
                        !.mh = "AW_REPLY_9", !.cycle = m.cycle]
      BY <1>6, <2>1 DEF Sent
    <3> DEFINE z == [m EXCEPT !.message = m.tx, !.dataready = FALSE, !.retry = 0,
                              !.mh = "AW_REPLY_9"]
    <3>3. z = [f \in DOMAIN z |-> z[f]] /\ z.cycle = m.cycle
      BY <1>6 DEF HandlersWith
    <3>4. TimedOut(h) = z
      BY <1>6, <3>1 DEF HandlersWith
    <3>5. y = [z EXCEPT !.cycle = m.cycle]
      BY <1>6, <3>2 DEF HandlersWith
    <3> HIDE DEF z, y
    <3> QED BY <3>3, <3>4, <3>5
  <2>2. CASE h.mh = "OPERATE_12"
    <3>1. TimedOut(h) = [[m EXCEPT !.message = m.tx, !.dataready = FALSE, !.retry = 0]
                            EXCEPT !.mh = "AW_REPLY_16", !.cycle = TRUE]
      BY <2>2 DEF TimedOut, PL_Transfer_req, m
    <3>2. y = [m EXCEPT !.message = m.tx, !.dataready = FALSE, !.retry = 0,
                        !.mh = "AW_REPLY_16", !.cycle = TRUE]
      BY <2>2 DEF Sent
    <3> QED BY <1>6, <3>1, <3>2 DEF HandlersWith
  <2> QED BY <1>2, <2>1, <2>2
<1> HIDE DEF mh, cycle
<1>9. Leaves({<<>>}, h, y, Pending, Owed, lost, StatusCode)
  BY <1>1, <1>3, <1>4, <1>5, <1>7, SentIsSound DEF m
<1> HIDE DEF y
<1>10. /\ y \in Handlers /\ Sound(y, Pending, Owed, lost) /\ Reading(y, StatusCode)
       /\ y.events = h.events \/ y.events = [s \in Slots |-> Unread]
       /\ h.confirmation => y.confirmation \/ y.message = Confirm
  BY <1>9 DEF Leaves, Handlers
<1>11. Busy => Handling(y, Pending)
  <2> SUFFICES ASSUME Busy, Pending PROVE y.confirmation \/ y.message = Confirm
    BY DEF Handling
  <2>1. h.message # Confirm /\ ~Away(h)
    BY <1>1, <1>2, <1>3, MessageTypes DEF Levels, Awaiting, Away, Ready, Exchanging
  <2>2. h.confirmation
    BY <2>1 DEF IInv, Handling
  <2> QED BY <1>10, <2>2
<1> QED BY <1>1, <1>8, <1>10, <1>11, ThreadStep

-----------------------------------------------------------------------------
(* The mode handler.                                                       *)

Calmed == [h EXCEPT !.mdhEvent = FALSE]

(* Its event is taken: nothing else changes. *)
LEMMA CalmedFields ==
  ASSUME DlInv
  PROVE  /\ Calmed \in Handlers /\ Calmed \in HandlersWith({<<>>})
         /\ Calmed.mdh = h.mdh /\ Calmed.mode = h.mode /\ Calmed.comlost = h.comlost
         /\ Calmed.mh = h.mh /\ Calmed.retry = h.retry /\ Calmed.dataready = h.dataready
         /\ Calmed.cycle = h.cycle /\ Calmed.message = h.message /\ Calmed.od = h.od
         /\ Calmed.trigger = h.trigger /\ Calmed.cmdh = h.cmdh /\ Calmed.chActive = h.chActive
         /\ Calmed.code = h.code /\ Calmed.operate = h.operate /\ Calmed.preop = h.preop
         /\ Calmed.ev = h.ev /\ Calmed.ehActive = h.ehActive /\ Calmed.flag = h.flag
         /\ Calmed.confirmation = h.confirmation
         /\ Calmed.addr = h.addr /\ Calmed.cnt = h.cnt /\ Calmed.current = h.current
         /\ Calmed.num = h.num /\ Calmed.status = h.status /\ Calmed.events = h.events
<1>1. h \in HandlersWith({<<>>})
  BY DEF DlInv, TypeInv, Handlers
<1>2. Calmed \in HandlersWith({<<>>})
  BY <1>1, Update DEF Calmed
<1>3. /\ Calmed.mdh = h.mdh /\ Calmed.mode = h.mode /\ Calmed.comlost = h.comlost
      /\ Calmed.mh = h.mh /\ Calmed.retry = h.retry /\ Calmed.dataready = h.dataready
      /\ Calmed.cycle = h.cycle /\ Calmed.message = h.message /\ Calmed.od = h.od
      /\ Calmed.trigger = h.trigger /\ Calmed.cmdh = h.cmdh /\ Calmed.chActive = h.chActive
      /\ Calmed.code = h.code /\ Calmed.operate = h.operate /\ Calmed.preop = h.preop
  BY <1>1 DEF HandlersWith, Calmed
<1>4. /\ Calmed.ev = h.ev /\ Calmed.ehActive = h.ehActive /\ Calmed.flag = h.flag
      /\ Calmed.confirmation = h.confirmation
      /\ Calmed.addr = h.addr /\ Calmed.cnt = h.cnt /\ Calmed.current = h.current
      /\ Calmed.num = h.num /\ Calmed.status = h.status /\ Calmed.events = h.events
  BY <1>1 DEF HandlersWith, Calmed
<1> QED BY <1>2, <1>3, <1>4 DEF Handlers

(* The parts of the invariant that are about the record of the handlers. *)
LEMMA InvParts ==
  ASSUME DlInv
  PROVE  /\ h \in HandlersWith({<<>>}) /\ TypeInv
         /\ Levels(h) /\ Asked(h) /\ Commanding(h) /\ Flagged(h)
         /\ Changing(h, Pending) /\ Confirming(h, Pending, Owed, lost) /\ Reading(h, StatusCode)
BY DEF DlInv, TypeInv, Handlers

(* The port is given up: no message is under way, nothing is active. *)
LEMMA GivenUpKept ==
  ASSUME IInv, app = "idle", h.mh \in {"OPERATE_12", "AW_REPLY_16", "INACTIVE"}, h.mode # "STARTUP",
         h.mh = "INACTIVE" \/ ~Pending, h.ev = "READEVENT" => h.comlost,
         Run(GotoIdle(Calmed))
  PROVE  IInv' /\ Unsignalled
<1> DEFINE x == GotoIdle(Calmed)
<1>1. DlInv
  BY DEF IInv
<1>2. /\ h \in HandlersWith({<<>>}) /\ TypeInv
      /\ Levels(h) /\ Asked(h) /\ Commanding(h) /\ Flagged(h)
      /\ Changing(h, Pending) /\ Confirming(h, Pending, Owed, lost) /\ Reading(h, StatusCode)
  BY <1>1, InvParts
<1>3. /\ x \in Handlers
      /\ x.mdh = "IDLE" /\ x.mh = "INACTIVE" /\ ~x.comlost /\ x.message = NoMessage
      /\ ~x.ehActive /\ ~x.chActive /\ x.ev = "INACTIVE" /\ ~x.code
      /\ x.cmdh \in {"IDLE", "INACTIVE"}
      /\ x.od = IF h.od = "COMMAND" THEN "COMMAND" ELSE "INACTIVE"
      /\ x.trigger = h.trigger /\ x.mode = h.mode /\ x.confirmation = h.confirmation
      /\ x.events = h.events /\ x.flag = h.flag
  <2>1. h.mh = "INACTIVE" => h.message = NoMessage
    BY <1>2 DEF Levels, Awaiting
  <2>2. /\ h.code => h.cmdh = "MASTERCOMMAND" /\ h.od # "COMMAND"
        /\ h.cmdh = "MASTERCOMMAND" => h.code
    BY <1>2 DEF Commanding
  <2>3. h \in Handlers
    BY <1>2 DEF Handlers
  <2> HIDE DEF x
  <2>4. /\ Calmed \in Handlers /\ Calmed.mh = h.mh
        /\ Calmed.ev = h.ev /\ Calmed.comlost = h.comlost /\ Calmed.message = h.message
        /\ Calmed.code = h.code /\ Calmed.cmdh = h.cmdh /\ Calmed.od = h.od
        /\ Calmed.trigger = h.trigger /\ Calmed.mode = h.mode
        /\ Calmed.confirmation = h.confirmation /\ Calmed.events = h.events
        /\ Calmed.flag = h.flag
    BY <1>1, CalmedFields
  <2> QED BY <2>1, <2>2, <2>3, <2>4, GivenUp DEF x
<1> HIDE DEF x
<1>4. Levels(x) /\ Asked(x)
  BY <1>2, <1>3, MessageTypes DEF Levels, Asked, Exchanging
<1>5. Commanding(x) /\ Flagged(x)
  BY <1>2, <1>3 DEF Commanding, Flagged, Sending
<1>6. Changing(x, Pending)
  BY <1>2, <1>3 DEF Changing
<1>7. Confirming(x, Pending, Owed, lost)
  <2>1. h.mh = "INACTIVE" => h.message # Confirm
    BY <1>2, MessageTypes DEF Levels, Awaiting
  <2> QED BY <1>2, <1>3, <2>1, MessageTypes DEF Confirming
<1>8. Reading(x, StatusCode)
  BY <1>3 DEF Reading
<1>9. Handling(x, Pending)
  BY <1>3 DEF Handling, Away
<1>10. Settle(x) /\ UNCHANGED <<al, frozen, settled, reports, app, used>>
  BY DEF Run, x
<1> QED BY <1>3, <1>4, <1>5, <1>6, <1>7, <1>8, <1>9, <1>10, ThreadStep DEF Sound

(* The handlers of on-request data start: two cases leave the same fields. *)
LEMMA Started ==
  ASSUME DlInv, h.mdh = "STARTUP", h.mh = "STARTUP_2"
  PROVE  LET x == HandlersActive(Calmed)
         IN  /\ x \in HandlersWith({<<>>})
             /\ x.mode = h.mode /\ x.comlost = h.comlost /\ x.mh = h.mh
             /\ x.message = h.message /\ x.cmdh = h.cmdh /\ x.chActive = h.chActive
             /\ x.code = h.code /\ x.flag = h.flag /\ x.confirmation = h.confirmation
             /\ x.events = h.events
             /\ x.ehActive = TRUE /\ x.ev = "IDLE" /\ x.od \in {"ISDU", "EVENT"}
             /\ x.od = "EVENT" => h.flag
<1> DEFINE x == HandlersActive(Calmed)
<1>1. /\ h \in HandlersWith({<<>>}) /\ Levels(h) /\ Commanding(h)
  BY InvParts
<1>2. /\ h.od \in {"INACTIVE", "COMMAND"} /\ h.ev = "INACTIVE" /\ ~h.code
      /\ h.od = "COMMAND" => h.trigger = "MASTER"
  BY <1>1 DEF Levels, Commanding, Exchanging
<1>3. /\ Calmed \in Handlers /\ Calmed \in HandlersWith({<<>>})
      /\ Calmed.mode = h.mode /\ Calmed.comlost = h.comlost /\ Calmed.mh = h.mh
      /\ Calmed.message = h.message /\ Calmed.od = h.od
      /\ Calmed.trigger = h.trigger /\ Calmed.cmdh = h.cmdh /\ Calmed.chActive = h.chActive
      /\ Calmed.code = h.code /\ Calmed.operate = h.operate /\ Calmed.preop = h.preop
      /\ Calmed.ev = h.ev /\ Calmed.flag = h.flag
      /\ Calmed.confirmation = h.confirmation /\ Calmed.events = h.events
  BY CalmedFields
<1>4. CASE h.od = "INACTIVE"
  <2>1. x = [Calmed EXCEPT !.od = "ISDU", !.ehActive = TRUE, !.ev = "IDLE"]
    <3>1. Calmed \in Handlers /\ Calmed.od = "INACTIVE" /\ Calmed.ev = "INACTIVE"
      BY <1>2, <1>3, <1>4
    <3> QED BY <3>1, StartedIdle
  <2> HIDE DEF x
  <2>2. x \in HandlersWith({<<>>})
    BY <1>3, <2>1, Update DEF OdStates, EvStates
  <2>3. /\ x.mode = h.mode /\ x.comlost = h.comlost /\ x.mh = h.mh
        /\ x.message = h.message /\ x.cmdh = h.cmdh /\ x.chActive = h.chActive
        /\ x.code = h.code /\ x.flag = h.flag /\ x.confirmation = h.confirmation
        /\ x.events = h.events
        /\ x.ehActive = TRUE /\ x.ev = "IDLE" /\ x.od = "ISDU"
    BY <1>3, <2>1 DEF HandlersWith
  <2> QED BY <2>2, <2>3 DEF x
<1>5. CASE h.od = "COMMAND"
  <2> DEFINE od == IF Calmed.flag THEN "EVENT" ELSE "ISDU"
  <2> DEFINE p == IF Calmed.operate THEN "confirmed" ELSE Calmed.preop
  <2>1. od \in OdStates /\ p \in Preops /\ od \in {"ISDU", "EVENT"} /\ (od = "EVENT" => h.flag)
    <3>1. Calmed.preop \in Preops
      BY <1>3 DEF HandlersWith
    <3> QED BY <1>3, <3>1 DEF OdStates, Preops
  <2>2. x = [Calmed EXCEPT !.trigger = "NONE", !.operate = FALSE, !.preop = p, !.od = od,
                           !.ehActive = TRUE, !.ev = "IDLE"]
    <3>1. /\ Calmed \in Handlers /\ Calmed.od = "COMMAND" /\ Calmed.ev = "INACTIVE"
          /\ Calmed.trigger = "MASTER" /\ ~Calmed.code
      BY <1>2, <1>3, <1>5
    <3> QED BY <3>1, StartedCommand
  <2> HIDE DEF x, od, p
  <2>3. x \in HandlersWith({<<>>})
    BY <1>3, <2>1, <2>2, Update DEF Triggers, EvStates
  <2>4. /\ x.mode = h.mode /\ x.comlost = h.comlost /\ x.mh = h.mh
        /\ x.message = h.message /\ x.cmdh = h.cmdh /\ x.chActive = h.chActive
        /\ x.code = h.code /\ x.flag = h.flag /\ x.confirmation = h.confirmation
        /\ x.events = h.events
        /\ x.ehActive = TRUE /\ x.ev = "IDLE" /\ x.od = od
    BY <1>3, <2>2 DEF HandlersWith
  <2> QED BY <2>1, <2>3, <2>4 DEF x
<1> QED BY <1>2, <1>4, <1>5

(* STARTUP is left for PREOPERATE. *)
LEMMA ToPreoperate ==
  ASSUME IInv, h.mdh = "STARTUP", h.mode = "PREOPERATE",
         Run([HandlersActive(Calmed) EXCEPT
                !.mdh = "PREOPERATE", !.mh = "PREOPERATE_6", !.preop = "none"])
  PROVE  IInv' /\ Unsignalled
<1> DEFINE s == HandlersActive(Calmed)
<1> DEFINE x == [s EXCEPT !.mdh = "PREOPERATE", !.mh = "PREOPERATE_6", !.preop = "none"]
<1>1. DlInv
  BY DEF IInv
<1>2. /\ h \in HandlersWith({<<>>}) /\ TypeInv
      /\ Levels(h) /\ Asked(h) /\ Commanding(h) /\ Flagged(h)
      /\ Changing(h, Pending) /\ Confirming(h, Pending, Owed, lost) /\ Reading(h, StatusCode)
  BY <1>1, InvParts
<1>3. /\ h.mh = "STARTUP_2" /\ ~Pending /\ ~h.code /\ h.cmdh = "IDLE" /\ ~h.confirmation
      /\ ~h.comlost /\ h.chActive /\ h.message = NoMessage
  BY <1>2 DEF Levels, Asked, Commanding, Changing, Confirming, Exchanging, Awaiting
<1>4. /\ s \in HandlersWith({<<>>})
      /\ s.mode = h.mode /\ s.comlost = h.comlost
      /\ s.message = h.message /\ s.cmdh = h.cmdh /\ s.chActive = h.chActive
      /\ s.code = h.code /\ s.flag = h.flag /\ s.confirmation = h.confirmation
      /\ s.events = h.events
      /\ s.ehActive = TRUE /\ s.ev = "IDLE" /\ s.od \in {"ISDU", "EVENT"}
      /\ s.od = "EVENT" => h.flag
  BY <1>1, <1>3, Started
<1>5. Settle(x) /\ UNCHANGED <<al, frozen, settled, reports, app, used>>
  BY DEF Run
<1> HIDE DEF s
<1>6. x \in HandlersWith({<<>>})
  BY <1>4, Update DEF MdhStates, MhStates, Preops
<1>7. /\ x.mode = s.mode /\ x.comlost = s.comlost /\ x.message = s.message
      /\ x.cmdh = s.cmdh /\ x.chActive = s.chActive /\ x.code = s.code /\ x.flag = s.flag
      /\ x.confirmation = s.confirmation /\ x.events = s.events /\ x.ehActive = s.ehActive
      /\ x.ev = s.ev /\ x.od = s.od
      /\ x.mdh = "PREOPERATE" /\ x.mh = "PREOPERATE_6" /\ x.preop = "none"
  BY <1>4 DEF HandlersWith
<1> HIDE DEF x
<1>8. Levels(x) /\ Asked(x)
  BY <1>3, <1>4, <1>7 DEF Levels, Asked, Exchanging
<1>9. Commanding(x) /\ Flagged(x)
  BY <1>3, <1>4, <1>7 DEF Commanding, Flagged
<1>10. Changing(x, Pending) /\ Confirming(x, Pending, Owed, lost) /\ Reading(x, StatusCode)
  BY <1>3, <1>4, <1>7, MessageTypes DEF Changing, Confirming, Reading
<1>11. Busy => Handling(x, Pending)
  BY <1>3 DEF Handling
<1> QED BY <1>4, <1>5, <1>6, <1>7, <1>8, <1>9, <1>10, <1>11, ThreadStep DEF Sound, Handlers

(* STARTUP is left for OPERATE. *)
LEMMA StartupToOperate ==
  ASSUME IInv, h.mdh = "STARTUP", h.mode = "OPERATE", Run(GotoOperate(HandlersActive(Calmed)))
  PROVE  IInv' /\ Unsignalled
<1> DEFINE s == HandlersActive(Calmed)
<1> DEFINE x == [s EXCEPT !.mdh = "OPERATE", !.mh = "OPERATE_12"]
<1>1. DlInv
  BY DEF IInv
<1>2. /\ h \in HandlersWith({<<>>}) /\ TypeInv
      /\ Levels(h) /\ Asked(h) /\ Commanding(h) /\ Flagged(h)
      /\ Changing(h, Pending) /\ Confirming(h, Pending, Owed, lost) /\ Reading(h, StatusCode)
  BY <1>1, InvParts
<1>3. /\ h.mh = "STARTUP_2" /\ ~h.code /\ h.cmdh = "IDLE"
      /\ ~h.comlost /\ h.chActive /\ h.message = NoMessage
  BY <1>2 DEF Levels, Asked, Commanding, Exchanging, Awaiting
<1>4. /\ s \in HandlersWith({<<>>})
      /\ s.mode = h.mode /\ s.comlost = h.comlost /\ s.mh = h.mh
      /\ s.message = h.message /\ s.cmdh = h.cmdh /\ s.chActive = h.chActive
      /\ s.code = h.code /\ s.flag = h.flag /\ s.confirmation = h.confirmation
      /\ s.events = h.events
      /\ s.ehActive = TRUE /\ s.ev = "IDLE" /\ s.od \in {"ISDU", "EVENT"}
      /\ s.od = "EVENT" => h.flag
  BY <1>1, <1>3, Started
<1> HIDE DEF s
<1>5. GotoOperate(s) = x
  <2> DEFINE z == [s EXCEPT !.mdh = "OPERATE"]
  <2>1. z.mh = "STARTUP_2"
    BY <1>3, <1>4 DEF HandlersWith
  <2>2. x = [z EXCEPT !.mh = "OPERATE_12"]
    BY <1>4 DEF HandlersWith
  <2> HIDE DEF z, x
  <2>3. MH_ConfOperate(z) = [z EXCEPT !.mh = "OPERATE_12"]
    BY <2>1 DEF MH_ConfOperate
  <2> QED BY <2>2, <2>3 DEF GotoOperate, z
<1>6. Settle(x) /\ UNCHANGED <<al, frozen, settled, reports, app, used>>
  BY <1>5 DEF Run, s
<1>7. x \in HandlersWith({<<>>})
  BY <1>4, Update DEF MdhStates, MhStates
<1>8. /\ x.mode = s.mode /\ x.comlost = s.comlost /\ x.message = s.message
      /\ x.cmdh = s.cmdh /\ x.chActive = s.chActive /\ x.code = s.code /\ x.flag = s.flag
      /\ x.confirmation = s.confirmation /\ x.events = s.events /\ x.ehActive = s.ehActive
      /\ x.ev = s.ev /\ x.od = s.od
      /\ x.mdh = "OPERATE" /\ x.mh = "OPERATE_12"
  BY <1>4 DEF HandlersWith
<1> HIDE DEF x
<1>9. Levels(x) /\ Asked(x)
  BY <1>3, <1>4, <1>8 DEF Levels, Asked, Exchanging
<1>10. Commanding(x) /\ Flagged(x)
  BY <1>3, <1>4, <1>8 DEF Commanding, Flagged
<1>11. Changing(x, Pending) /\ Confirming(x, Pending, Owed, lost) /\ Reading(x, StatusCode)
  BY <1>2, <1>3, <1>4, <1>8, MessageTypes DEF Changing, Confirming, Reading
<1>12. Busy => Handling(x, Pending)
  BY <1>3, <1>4, <1>8, MessageTypes DEF IInv, Handling, Away
<1> QED BY <1>4, <1>6, <1>7, <1>8, <1>9, <1>10, <1>11, <1>12, ThreadStep DEF Sound, Handlers

(* PREOPERATE is left for OPERATE. *)
LEMMA PreoperateToOperate ==
  ASSUME IInv, h.mdh = "PREOPERATE", h.mode = "OPERATE", Run(GotoOperate(Calmed))
  PROVE  IInv' /\ Unsignalled
<1> DEFINE s == Calmed
<1> DEFINE x == [s EXCEPT !.mdh = "OPERATE", !.mh = "OPERATE_12"]
<1>1. DlInv
  BY DEF IInv
<1>2. /\ h \in HandlersWith({<<>>}) /\ TypeInv
      /\ Levels(h) /\ Asked(h) /\ Commanding(h) /\ Flagged(h)
      /\ Changing(h, Pending) /\ Confirming(h, Pending, Owed, lost) /\ Reading(h, StatusCode)
  BY <1>1, InvParts
<1>3. /\ h.mh = "PREOPERATE_6" /\ ~h.code /\ ~h.flag /\ h.cmdh = "IDLE" /\ ~Pending
      /\ ~h.confirmation /\ ~h.comlost /\ h.chActive /\ h.ehActive /\ h.message = NoMessage
      /\ h.od # "INACTIVE" /\ h.od # "COMMAND" /\ h.od # "EVENT" /\ h.ev # "INACTIVE"
  BY <1>2 DEF Levels, Asked, Commanding, Changing, Confirming, Flagged, Exchanging, Awaiting, Sending
<1>4. /\ s \in HandlersWith({<<>>})
      /\ s.mode = h.mode /\ s.comlost = h.comlost /\ s.mh = h.mh
      /\ s.message = h.message /\ s.cmdh = h.cmdh /\ s.chActive = h.chActive
      /\ s.code = h.code /\ s.flag = h.flag /\ s.confirmation = h.confirmation
      /\ s.ehActive = h.ehActive /\ s.ev = h.ev /\ s.od = h.od
      /\ s.addr = h.addr /\ s.cnt = h.cnt /\ s.current = h.current
      /\ s.num = h.num /\ s.status = h.status /\ s.events = h.events
  BY <1>1, CalmedFields
<1> HIDE DEF s
<1>5. GotoOperate(s) = x
  <2> DEFINE z == [s EXCEPT !.mdh = "OPERATE"]
  <2>1. z.mh = "PREOPERATE_6"
    BY <1>3, <1>4 DEF HandlersWith
  <2>2. x = [z EXCEPT !.mh = "OPERATE_12"]
    BY <1>4 DEF HandlersWith
  <2> HIDE DEF z, x
  <2>3. MH_ConfOperate(z) = [z EXCEPT !.mh = "OPERATE_12"]
    BY <2>1 DEF MH_ConfOperate
  <2> QED BY <2>2, <2>3 DEF GotoOperate, z
<1>6. Settle(x) /\ UNCHANGED <<al, frozen, settled, reports, app, used>>
  BY <1>5 DEF Run, s
<1>7. x \in HandlersWith({<<>>})
  BY <1>4, Update DEF MdhStates, MhStates
<1>8. /\ x.mode = s.mode /\ x.comlost = s.comlost /\ x.message = s.message
      /\ x.cmdh = s.cmdh /\ x.chActive = s.chActive /\ x.code = s.code /\ x.flag = s.flag
      /\ x.confirmation = s.confirmation /\ x.ehActive = s.ehActive
      /\ x.ev = s.ev /\ x.od = s.od /\ x.mdh = "OPERATE" /\ x.mh = "OPERATE_12"
      /\ x.addr = s.addr /\ x.cnt = s.cnt /\ x.current = s.current
      /\ x.num = s.num /\ x.status = s.status /\ x.events = s.events
  BY <1>4 DEF HandlersWith
<1> HIDE DEF x
<1>9. Levels(x) /\ Asked(x)
  BY <1>3, <1>4, <1>8 DEF Levels, Asked, Exchanging
<1>10. Commanding(x) /\ Flagged(x)
  BY <1>3, <1>4, <1>8 DEF Commanding, Flagged
<1>11. Changing(x, Pending) /\ Confirming(x, Pending, Owed, lost)
  BY <1>2, <1>3, <1>4, <1>8, MessageTypes DEF Changing, Confirming
<1>12. Reading(x, StatusCode)
  BY <1>2, <1>4, <1>8 DEF Reading, ReadSoFar, Part
<1>13. Busy => Handling(x, Pending)
  BY <1>3 DEF Handling
<1> QED BY <1>4, <1>6, <1>7, <1>8, <1>9, <1>10, <1>11, <1>12, <1>13, ThreadStep DEF Sound, Handlers

(* OPERATE is left for STARTUP. *)
LEMMA OperateToStartup ==
  ASSUME IInv, h.mdh = "OPERATE", h.mode = "STARTUP", Run(GotoStartup(Calmed))
  PROVE  IInv' /\ Unsignalled
<1>1. DlInv
  BY DEF IInv
<1>2. /\ h \in HandlersWith({<<>>}) /\ TypeInv
      /\ Levels(h) /\ Asked(h) /\ Commanding(h) /\ Flagged(h)
      /\ Changing(h, Pending) /\ Confirming(h, Pending, Owed, lost) /\ Reading(h, StatusCode)
  BY <1>1, InvParts
<1>3. /\ ~Pending /\ ~h.code /\ ~h.flag /\ h.od = "ISDU" /\ h.ev = "IDLE" /\ h.cmdh = "IDLE"
      /\ ~h.confirmation /\ h.chActive /\ (h.comlost <=> h.mh = "INACTIVE")
      /\ h.mh \in {"OPERATE_12", "AW_REPLY_16", "INACTIVE"}
      /\ h.mh = "INACTIVE" => h.message = NoMessage
  BY <1>2 DEF Levels, Commanding, Changing, Confirming, Awaiting
<1>4. /\ Calmed \in Handlers /\ Calmed \in HandlersWith({<<>>})
      /\ Calmed.mode = h.mode /\ Calmed.comlost = h.comlost /\ Calmed.mh = h.mh
      /\ Calmed.message = h.message /\ Calmed.od = h.od
      /\ Calmed.trigger = h.trigger /\ Calmed.cmdh = h.cmdh /\ Calmed.chActive = h.chActive
      /\ Calmed.code = h.code /\ Calmed.ev = h.ev /\ Calmed.flag = h.flag
      /\ Calmed.confirmation = h.confirmation /\ Calmed.events = h.events
  BY <1>1, CalmedFields
<1> DEFINE s == HandlersInactive(Calmed)
<1>5. s = [Calmed EXCEPT !.od = "INACTIVE", !.ehActive = FALSE, !.ev = "INACTIVE"]
  <2>1. Calmed \in Handlers /\ Calmed.od # "COMMAND" /\ Calmed.ev # "READEVENT"
    BY <1>3, <1>4
  <2> QED BY <2>1, StoppedIdle
<1> HIDE DEF s
<1>6. s \in HandlersWith({<<>>})
  BY <1>4, <1>5, Update DEF OdStates, EvStates
<1>7. /\ s.mode = "STARTUP" /\ s.comlost = h.comlost /\ s.mh = h.mh
      /\ s.message = h.message /\ s.cmdh = h.cmdh /\ s.chActive = h.chActive
      /\ s.code = h.code /\ s.flag = h.flag /\ s.confirmation = h.confirmation
      /\ s.events = h.events /\ s.od = "INACTIVE" /\ s.ehActive = FALSE /\ s.ev = "INACTIVE"
  BY <1>4, <1>5 DEF HandlersWith
<1> DEFINE x == [Stop(s, "STARTUP_2") EXCEPT !.mdh = "STARTUP"]
<1>8. /\ x \in HandlersWith({<<>>})
      /\ x.mode = s.mode /\ x.comlost = s.comlost /\ x.cmdh = s.cmdh
      /\ x.chActive = s.chActive /\ x.code = s.code /\ x.flag = s.flag
      /\ x.confirmation = s.confirmation /\ x.events = s.events /\ x.od = s.od
      /\ x.ehActive = s.ehActive /\ x.ev = s.ev
      /\ x.mdh = "STARTUP" /\ x.message = NoMessage
      /\ x.mh = IF h.mh = "INACTIVE" THEN "INACTIVE" ELSE "STARTUP_2"
  <2>1. CASE h.mh = "INACTIVE"
    <3>1. x = [s EXCEPT !.cycle = FALSE, !.mdh = "STARTUP"]
      <4> DEFINE z == [s EXCEPT !.cycle = FALSE]
      <4>1. Stop(s, "STARTUP_2") = z
        BY <1>7, <2>1 DEF Stop
      <4>2. [z EXCEPT !.mdh = "STARTUP"] = [s EXCEPT !.cycle = FALSE, !.mdh = "STARTUP"]
        OBVIOUS
      <4> QED BY <4>1, <4>2
    <3> HIDE DEF x
    <3>2. x \in HandlersWith({<<>>})
      BY <1>6, <3>1, Update DEF MdhStates
    <3>3. /\ x.mode = s.mode /\ x.comlost = s.comlost /\ x.cmdh = s.cmdh
          /\ x.chActive = s.chActive /\ x.code = s.code /\ x.flag = s.flag
          /\ x.confirmation = s.confirmation /\ x.events = s.events /\ x.od = s.od
          /\ x.ehActive = s.ehActive /\ x.ev = s.ev
          /\ x.mdh = "STARTUP" /\ x.message = s.message /\ x.mh = s.mh
      BY <1>6, <3>1 DEF HandlersWith
    <3> QED BY <1>3, <1>7, <2>1, <3>2, <3>3
  <2>2. CASE h.mh # "INACTIVE"
    <3>1. x = [s EXCEPT !.mh = "STARTUP_2", !.message = NoMessage, !.cycle = FALSE,
                        !.dataready = FALSE, !.mdh = "STARTUP"]
      <4> DEFINE z == [s EXCEPT !.mh = "STARTUP_2", !.message = NoMessage, !.cycle = FALSE,
                                !.dataready = FALSE]
      <4>1. Stop(s, "STARTUP_2") = z
        BY <1>3, <1>7, <2>2 DEF Stop
      <4>2. [z EXCEPT !.mdh = "STARTUP"] =
              [s EXCEPT !.mh = "STARTUP_2", !.message = NoMessage, !.cycle = FALSE,
                        !.dataready = FALSE, !.mdh = "STARTUP"]
        OBVIOUS
      <4> QED BY <4>1, <4>2
    <3> HIDE DEF x
    <3>2. x \in HandlersWith({<<>>})
      BY <1>6, <3>1, Update, MessageTypes DEF MdhStates, MhStates
    <3>3. /\ x.mode = s.mode /\ x.comlost = s.comlost /\ x.cmdh = s.cmdh
          /\ x.chActive = s.chActive /\ x.code = s.code /\ x.flag = s.flag
          /\ x.confirmation = s.confirmation /\ x.events = s.events /\ x.od = s.od
          /\ x.ehActive = s.ehActive /\ x.ev = s.ev
          /\ x.mdh = "STARTUP" /\ x.message = NoMessage /\ x.mh = "STARTUP_2"
      BY <1>6, <3>1 DEF HandlersWith
    <3> QED BY <2>2, <3>2, <3>3
  <2> QED BY <2>1, <2>2
<1>9. Settle(x) /\ UNCHANGED <<al, frozen, settled, reports, app, used>>
  BY DEF Run, GotoStartup, s
<1> HIDE DEF x
<1>10. Levels(x) /\ Asked(x)
  BY <1>3, <1>7, <1>8 DEF Levels, Asked, Exchanging
<1>11. Commanding(x) /\ Flagged(x)
  BY <1>3, <1>7, <1>8 DEF Commanding, Flagged, Sending
<1>12. Changing(x, Pending) /\ Confirming(x, Pending, Owed, lost) /\ Reading(x, StatusCode)
  BY <1>3, <1>7, <1>8, MessageTypes DEF Changing, Confirming, Reading
<1>13. Busy => Handling(x, Pending)
  BY <1>3 DEF Handling
<1> QED BY <1>7, <1>8, <1>9, <1>10, <1>11, <1>12, <1>13, ThreadStep DEF Sound, Handlers

(* The steps of the mode handler. *)
LEMMA ModeHandlerKept ==
  ASSUME IInv, app = "idle", ModeHandler
  PROVE  IInv' /\ Unsignalled
<1>1. /\ h \in HandlersWith({<<>>}) /\ TypeInv
      /\ Levels(h) /\ Asked(h) /\ Commanding(h) /\ Flagged(h)
      /\ Changing(h, Pending) /\ Confirming(h, Pending, Owed, lost) /\ Reading(h, StatusCode)
      /\ DlInv
  BY InvParts DEF IInv
<1>2. \/ /\ h.mdh = "STARTUP" /\ h.mode = "PREOPERATE"
         /\ Run([HandlersActive(Calmed) EXCEPT
                   !.mdh = "PREOPERATE", !.mh = "PREOPERATE_6", !.preop = "none"])
      \/ h.mdh = "STARTUP" /\ h.mode = "OPERATE" /\ Run(GotoOperate(HandlersActive(Calmed)))
      \/ h.mdh = "STARTUP" /\ h.mode = "INACTIVE" /\ Run(GotoIdle(Calmed))
      \/ h.mdh = "PREOPERATE" /\ h.comlost /\ Run(GotoIdle(Calmed))
      \/ h.mdh = "PREOPERATE" /\ ~h.comlost /\ h.mode = "OPERATE" /\ Run(GotoOperate(Calmed))
      \/ h.mdh = "OPERATE" /\ h.mode = "STARTUP" /\ Run(GotoStartup(Calmed))
      \/ /\ h.mdh = "OPERATE" /\ h.mode # "STARTUP" /\ (h.mode = "INACTIVE" \/ h.comlost)
         /\ Run(GotoIdle(Calmed))
      \/ h.mdh = "IDLE" /\ h.mode # "STARTUP" /\ Run(Calmed)
  BY DEF ModeHandler, Calmed
<1>3. CASE h.mdh = "STARTUP" /\ h.mode = "INACTIVE" /\ Run(GotoIdle(Calmed))
  <2>1. h.mh = "INACTIVE" /\ h.ev = "INACTIVE"
    BY <1>1, <1>3 DEF Asked, Levels, Exchanging
  <2> QED BY <1>3, <2>1, GivenUpKept
<1>4. CASE h.mdh = "PREOPERATE" /\ h.comlost /\ Run(GotoIdle(Calmed))
  <2>1. h.mh = "INACTIVE" /\ h.mode # "STARTUP"
    BY <1>1, <1>4 DEF Asked, Levels, Exchanging
  <2> QED BY <1>4, <2>1, GivenUpKept
<1>5. CASE /\ h.mdh = "OPERATE" /\ h.mode # "STARTUP" /\ (h.mode = "INACTIVE" \/ h.comlost)
           /\ Run(GotoIdle(Calmed))
  <2>1. h.mh \in {"OPERATE_12", "AW_REPLY_16", "INACTIVE"} /\ (h.comlost => h.mh = "INACTIVE")
    BY <1>1, <1>5 DEF Levels
  <2>2. h.mode = "INACTIVE" => ~Pending /\ h.ev = "IDLE"
    BY <1>1, <1>5 DEF Changing
  <2> QED BY <1>5, <2>1, <2>2, GivenUpKept
<1>6. CASE h.mdh = "IDLE" /\ h.mode # "STARTUP" /\ Run(Calmed)
  <2> DEFINE x == Calmed
  <2>1. /\ x \in Handlers
        /\ x.mdh = h.mdh /\ x.mode = h.mode /\ x.comlost = h.comlost
        /\ x.mh = h.mh /\ x.retry = h.retry /\ x.dataready = h.dataready
        /\ x.cycle = h.cycle /\ x.message = h.message /\ x.od = h.od
        /\ x.trigger = h.trigger /\ x.cmdh = h.cmdh /\ x.chActive = h.chActive
        /\ x.code = h.code /\ x.operate = h.operate /\ x.preop = h.preop
        /\ x.ev = h.ev /\ x.ehActive = h.ehActive /\ x.flag = h.flag
        /\ x.confirmation = h.confirmation
        /\ x.addr = h.addr /\ x.cnt = h.cnt /\ x.current = h.current
        /\ x.num = h.num /\ x.status = h.status /\ x.events = h.events
    BY <1>1, CalmedFields
  <2>2. Settle(x) /\ UNCHANGED <<al, frozen, settled, reports, app, used>>
    BY <1>6 DEF Run
  <2> HIDE DEF x
  <2>3. Levels(x) /\ Asked(x)
    BY <1>1, <2>1 DEF Levels, Asked
  <2>4. Commanding(x) /\ Flagged(x)
    BY <1>1, <2>1 DEF Commanding, Flagged
  <2>5. Changing(x, Pending) /\ Confirming(x, Pending, Owed, lost)
    BY <1>1, <2>1 DEF Changing, Confirming
  <2>6. Reading(x, StatusCode)
    BY <1>1, <2>1 DEF Reading, ReadSoFar, Part
  <2>7. Busy => Handling(x, Pending)
    BY <2>1 DEF IInv, Handling, Away
  <2> QED BY <2>1, <2>2, <2>3, <2>4, <2>5, <2>6, <2>7, ThreadStep DEF Sound
<1> QED BY <1>2, <1>3, <1>4, <1>5, <1>6, ToPreoperate, StartupToOperate, PreoperateToOperate,
           OperateToStartup

(* The port is woken up. *)
LEMMA WakeUpKept ==
  ASSUME IInv, WakeUp
  PROVE  IInv'
<1>1. /\ h \in HandlersWith({<<>>}) /\ TypeInv
      /\ Levels(h) /\ Asked(h) /\ Commanding(h) /\ Flagged(h)
      /\ Changing(h, Pending) /\ Confirming(h, Pending, Owed, lost) /\ Reading(h, StatusCode)
  BY InvParts DEF IInv
<1>2. /\ h.mdh = "IDLE" /\ h.mode = "STARTUP" /\ h.mh = "INACTIVE" /\ ~h.comlost
      /\ h.message = NoMessage /\ ~h.code /\ ~h.ehActive /\ h.cmdh \in {"IDLE", "INACTIVE"}
      /\ h.od \in {"INACTIVE", "COMMAND"} /\ h.ev = "INACTIVE"
  <2>1. h.cmdh \in CmdStates
    BY <1>1 DEF HandlersWith
  <2> QED BY <1>1, <2>1 DEF WakeUp, Levels, Commanding, Exchanging, Awaiting, CmdStates
<1>3. h' = [h EXCEPT !.mdhEvent = FALSE, !.mdh = "STARTUP", !.mh = "STARTUP_2",
                     !.cycle = FALSE, !.dataready = FALSE, !.mhEvent = TRUE,
                     !.chActive = TRUE, !.cmdh = "IDLE"]
  <2> DEFINE z == [h EXCEPT !.mdhEvent = FALSE, !.mdh = "STARTUP", !.mh = "STARTUP_2",
                            !.cycle = FALSE, !.dataready = FALSE, !.mhEvent = TRUE]
  <2> DEFINE c == [z EXCEPT !.chActive = TRUE]
  <2>1. c.cmdh = h.cmdh /\ c.chActive /\ c.code = h.code
    BY <1>1 DEF HandlersWith
  <2>2. h' = CmdHandler(c)
    BY DEF WakeUp, CH_Conf
  <2>3. c = [h EXCEPT !.mdhEvent = FALSE, !.mdh = "STARTUP", !.mh = "STARTUP_2",
                      !.cycle = FALSE, !.dataready = FALSE, !.mhEvent = TRUE,
                      !.chActive = TRUE]
    OBVIOUS
  <2> HIDE DEF c
  <2>4. CmdHandler(c) = [c EXCEPT !.cmdh = "IDLE"]
    <3>1. CASE h.cmdh = "INACTIVE"
      BY <2>1, <3>1 DEF CmdHandler
    <3>2. CASE h.cmdh = "IDLE"
      <4>1. CmdHandler(c) = c
        BY <1>2, <2>1, <3>2 DEF CmdHandler
      <4>2. c = [f \in DOMAIN c |-> c[f]]
        BY <2>3
      <4>3. c = [c EXCEPT !.cmdh = c.cmdh]
        BY <4>2
      <4> QED BY <2>1, <3>2, <4>1, <4>3
    <3> QED BY <1>2, <3>1, <3>2
  <2> QED BY <2>2, <2>3, <2>4
<1>4. h' \in HandlersWith({<<>>})
  <2> DEFINE z == [h EXCEPT !.mdhEvent = FALSE, !.mdh = "STARTUP", !.mh = "STARTUP_2",
                            !.cycle = FALSE, !.dataready = FALSE]
  <2>1. z \in HandlersWith({<<>>})
    BY <1>1, Update DEF MdhStates, MhStates
  <2>2. h' = [z EXCEPT !.mhEvent = TRUE, !.chActive = TRUE, !.cmdh = "IDLE"]
    BY <1>3
  <2> HIDE DEF z
  <2> QED BY <2>1, <2>2, Update DEF CmdStates
<1>5. /\ h'.mode = h.mode /\ h'.comlost = h.comlost /\ h'.message = h.message /\ h'.od = h.od
      /\ h'.trigger = h.trigger /\ h'.code = h.code /\ h'.ev = h.ev
      /\ h'.ehActive = h.ehActive /\ h'.flag = h.flag
      /\ h'.confirmation = h.confirmation /\ h'.events = h.events
      /\ h'.mdh = "STARTUP" /\ h'.mh = "STARTUP_2" /\ h'.chActive = TRUE /\ h'.cmdh = "IDLE"
  BY <1>1, <1>3 DEF HandlersWith
<1>6. Levels(h') /\ Asked(h')
  BY <1>2, <1>5 DEF Levels, Asked, Exchanging
<1>7. Commanding(h') /\ Flagged(h')
  BY <1>1, <1>2, <1>5 DEF Commanding, Flagged, Sending
<1>8. Changing(h', Pending) /\ Confirming(h', Pending, Owed, lost) /\ Reading(h', StatusCode)
  BY <1>1, <1>2, <1>5, MessageTypes DEF Changing, Confirming, Reading
<1>9. Busy => Handling(h', Pending)
  BY <1>2, <1>5, MessageTypes DEF IInv, Handling, Away
<1>10. /\ used' \in [DOMAIN Limit -> Nat]
       /\ UNCHANGED <<al, mbox, frozen, settled, told, reports, lost, app>>
  BY <1>1 DEF WakeUp, TypeInv
<1> QED BY <1>4, <1>5, <1>6, <1>7, <1>8, <1>9, <1>10, HandlerStep DEF Sound, Handlers

-----------------------------------------------------------------------------
(* The system management, the application, and the device.                 *)

(* The SM asks for a mode. *)
LEMMA SetModeKept ==
  ASSUME IInv, NEW mode \in Modes, DL_SetMode_req(mode), used' \in [DOMAIN Limit -> Nat],
         Asked([h EXCEPT !.mode = mode]), Changing([h EXCEPT !.mode = mode], Pending),
         Busy => ~Pending
  PROVE  IInv'
<1>1. /\ h \in HandlersWith({<<>>}) /\ TypeInv
      /\ Levels(h) /\ Asked(h) /\ Commanding(h) /\ Flagged(h)
      /\ Changing(h, Pending) /\ Confirming(h, Pending, Owed, lost) /\ Reading(h, StatusCode)
  BY InvParts DEF IInv
<1> DEFINE z == [h EXCEPT !.mode = mode]
<1>2. /\ h' = [z EXCEPT !.mdhEvent = TRUE]
      /\ UNCHANGED <<al, mbox, frozen, settled, told, reports, lost, app>>
  BY DEF DL_SetMode_req
<1>3. z \in HandlersWith({<<>>}) /\ Asked(z) /\ Changing(z, Pending)
  BY <1>1, Update
<1>4. /\ z.mdh = h.mdh /\ z.comlost = h.comlost /\ z.mh = h.mh
      /\ z.retry = h.retry /\ z.dataready = h.dataready /\ z.cycle = h.cycle
      /\ z.message = h.message /\ z.od = h.od /\ z.trigger = h.trigger
      /\ z.cmdh = h.cmdh /\ z.chActive = h.chActive /\ z.code = h.code
      /\ z.operate = h.operate /\ z.preop = h.preop
  BY <1>1 DEF HandlersWith
<1>5. /\ z.ev = h.ev /\ z.ehActive = h.ehActive /\ z.flag = h.flag
      /\ z.confirmation = h.confirmation /\ z.addr = h.addr /\ z.cnt = h.cnt
      /\ z.current = h.current /\ z.num = h.num /\ z.status = h.status
      /\ z.events = h.events
  BY <1>1 DEF HandlersWith
<1> HIDE DEF z
<1>6. h' \in HandlersWith({<<>>})
  BY <1>2, <1>3, Update
<1>7. /\ h'.mdh = z.mdh /\ h'.mode = z.mode /\ h'.comlost = z.comlost /\ h'.mh = z.mh
      /\ h'.retry = z.retry /\ h'.dataready = z.dataready /\ h'.cycle = z.cycle
      /\ h'.message = z.message /\ h'.od = z.od /\ h'.trigger = z.trigger
      /\ h'.cmdh = z.cmdh /\ h'.chActive = z.chActive /\ h'.code = z.code
      /\ h'.operate = z.operate /\ h'.preop = z.preop
  BY <1>2, <1>3 DEF HandlersWith
<1>8. /\ h'.ev = z.ev /\ h'.ehActive = z.ehActive /\ h'.flag = z.flag
      /\ h'.confirmation = z.confirmation /\ h'.addr = z.addr /\ h'.cnt = z.cnt
      /\ h'.current = z.current /\ h'.num = z.num /\ h'.status = z.status
      /\ h'.events = z.events
  BY <1>2, <1>3 DEF HandlersWith
<1>9. Levels(h') /\ Asked(h')
  BY <1>1, <1>3, <1>4, <1>5, <1>7, <1>8 DEF Levels, Asked
<1>10. Commanding(h') /\ Flagged(h')
  BY <1>1, <1>4, <1>5, <1>7, <1>8 DEF Commanding, Flagged
<1>11. Changing(h', Pending)
  BY <1>3, <1>4, <1>5, <1>7, <1>8 DEF Changing
<1>12. Confirming(h', Pending, Owed, lost)
  BY <1>1, <1>4, <1>5, <1>7, <1>8 DEF Confirming
<1>13. Reading(h', StatusCode)
  BY <1>1, <1>5, <1>8 DEF Reading, ReadSoFar, Part
<1>14. Busy => Handling(h', Pending)
  BY DEF Handling
<1> QED BY <1>2, <1>5, <1>6, <1>8, <1>9, <1>10, <1>11, <1>12, <1>13, <1>14, HandlerStep
        DEF Sound, Handlers

(* On the way up, and on the way down from OPERATE. *)
LEMMA ModesKept ==
  ASSUME IInv, Undisturbed,
         \/ SmStartup \/ SmPreoperate \/ SmOperate \/ SmGiveUp
         \/ \E mode \in {"STARTUP", "INACTIVE"} : Reconfigure(mode)
  PROVE  IInv'
<1>1. /\ h \in HandlersWith({<<>>}) /\ TypeInv /\ used \in [DOMAIN Limit -> Nat]
      /\ Asked(h) /\ Changing(h, Pending)
  BY InvParts DEF IInv, TypeInv
<1>2. ASSUME NEW mode \in Modes
      PROVE  LET z == [h EXCEPT !.mode = mode]
             IN  /\ z.mode = mode /\ z.mdh = h.mdh /\ z.mh = h.mh /\ z.preop = h.preop
                 /\ z.code = h.code /\ z.od = h.od /\ z.flag = h.flag /\ z.operate = h.operate
                 /\ z.ev = h.ev
  BY <1>1 DEF HandlersWith
<1>3. CASE SmStartup
  <2> DEFINE z == [h EXCEPT !.mode = "STARTUP"]
  <2>1. z.mode = "STARTUP" /\ z.mdh = "IDLE"
    BY <1>2, <1>3 DEF SmStartup, Modes
  <2> HIDE DEF z
  <2>2. Asked(z) /\ Changing(z, Pending)
    BY <2>1 DEF Asked, Changing
  <2> QED BY <1>1, <1>3, <2>2, SetModeKept DEF SmStartup, Modes, Busy, z
<1>4. CASE SmPreoperate
  <2> DEFINE z == [h EXCEPT !.mode = "PREOPERATE"]
  <2>1. z.mode = "PREOPERATE" /\ z.mdh = "STARTUP" /\ z.mh = "STARTUP_2" /\ ~Pending
    BY <1>2, <1>4 DEF SmPreoperate, Undisturbed, Modes
  <2> HIDE DEF z
  <2>2. Asked(z) /\ Changing(z, Pending)
    BY <2>1 DEF Asked, Changing
  <2> QED BY <1>1, <1>4, <2>2, SetModeKept DEF SmPreoperate, Modes, Busy, z
<1>5. CASE SmOperate
  <2> DEFINE z == [h EXCEPT !.mode = "OPERATE"]
  <2>1. /\ z.mode = "OPERATE" /\ z.mdh = h.mdh /\ z.mh = h.mh /\ z.preop = h.preop
        /\ z.code = h.code /\ z.od = h.od /\ z.flag = h.flag /\ z.operate = h.operate
    BY <1>2 DEF Modes
  <2>2. \/ h.mdh = "STARTUP" /\ h.mh = "STARTUP_2"
        \/ h.mdh = "PREOPERATE" /\ h.mode = "PREOPERATE" /\ h.preop = "confirmed"
    BY <1>5 DEF SmOperate
  <2> HIDE DEF z
  <2>3. Asked(z)
    BY <1>1, <2>1, <2>2 DEF Asked, Exchanging
  <2>4. Changing(z, Pending)
    BY <1>1, <2>1, <2>2 DEF Changing
  <2> QED BY <1>1, <1>5, <2>3, <2>4, SetModeKept DEF SmOperate, Modes, Busy, z
<1>6. CASE SmGiveUp
  <2> DEFINE z == [h EXCEPT !.mode = "INACTIVE"]
  <2>1. z.mode = "INACTIVE" /\ z.mdh = "STARTUP" /\ z.mh = "INACTIVE"
    BY <1>2, <1>6 DEF SmGiveUp, Modes
  <2> HIDE DEF z
  <2>2. Asked(z) /\ Changing(z, Pending)
    BY <2>1 DEF Asked, Changing, Exchanging
  <2> QED BY <1>1, <1>6, <2>2, SetModeKept DEF SmGiveUp, Modes, Busy, z
<1>7. ASSUME NEW mode \in {"STARTUP", "INACTIVE"}, Reconfigure(mode)
      PROVE  IInv'
  <2> DEFINE z == [h EXCEPT !.mode = mode]
  <2>1. mode \in Modes /\ mode # "PREOPERATE"
    BY DEF Modes
  <2>2. /\ h.mdh = "OPERATE" /\ ~Pending /\ ~h.code /\ ~h.flag /\ h.od = "ISDU" /\ h.ev = "IDLE"
        /\ DL_SetMode_req(mode)
    BY <1>7 DEF Reconfigure, Undisturbed
  <2>3. /\ z.mode = mode /\ z.mdh = "OPERATE" /\ ~z.code /\ ~z.flag /\ z.od = "ISDU"
        /\ z.ev = "IDLE"
    BY <1>2, <2>1, <2>2
  <2> HIDE DEF z
  <2>4. Asked(z) /\ Changing(z, Pending)
    BY <2>1, <2>2, <2>3 DEF Asked, Changing
  <2>5. used' \in [DOMAIN Limit -> Nat]
    BY <1>1, <1>7, SpendTypes DEF Reconfigure
  <2> QED BY <2>1, <2>2, <2>4, <2>5, SetModeKept DEF z
<1> QED BY <1>3, <1>4, <1>5, <1>6, <1>7

(* The MasterCommand that takes a device from PREOPERATE to OPERATE. *)
LEMMA DevicemodeKept ==
  ASSUME IInv, DL_Write_Devicemode_req
  PROVE  IInv'
<1>1. /\ h \in HandlersWith({<<>>}) /\ TypeInv
      /\ Levels(h) /\ Asked(h) /\ Commanding(h) /\ Flagged(h)
      /\ Changing(h, Pending) /\ Confirming(h, Pending, Owed, lost) /\ Reading(h, StatusCode)
  BY InvParts DEF IInv
<1>2. /\ h.mdh = "PREOPERATE" /\ h.preop = "none" /\ mbox = <<>>
      /\ ~h.code /\ h.od # "COMMAND" /\ h.cmdh = "IDLE" /\ h.chActive
  BY <1>1 DEF DL_Write_Devicemode_req, Asked, Commanding, Levels
<1>3. h' = [h EXCEPT !.operate = TRUE, !.code = TRUE, !.cmdh = "MASTERCOMMAND",
                     !.preop = "asked", !.mhEvent = TRUE]
  <2> DEFINE z == [h EXCEPT !.operate = TRUE, !.code = TRUE]
  <2>1. z.cmdh = "IDLE" /\ z.chActive /\ z.code
    BY <1>1, <1>2 DEF HandlersWith
  <2>2. h' = [CmdHandler(z) EXCEPT !.preop = "asked", !.mhEvent = TRUE]
    BY DEF DL_Write_Devicemode_req
  <2>3. z = [h EXCEPT !.operate = TRUE, !.code = TRUE]
    OBVIOUS
  <2> HIDE DEF z
  <2>4. CmdHandler(z) = [z EXCEPT !.cmdh = "MASTERCOMMAND"]
    BY <2>1 DEF CmdHandler
  <2> QED BY <2>2, <2>3, <2>4
<1>4. h' \in HandlersWith({<<>>})
  BY <1>1, <1>3, Update DEF CmdStates, Preops
<1>5. /\ h'.mdh = h.mdh /\ h'.mode = h.mode /\ h'.comlost = h.comlost /\ h'.mh = h.mh
      /\ h'.retry = h.retry /\ h'.dataready = h.dataready /\ h'.cycle = h.cycle
      /\ h'.message = h.message /\ h'.od = h.od /\ h'.trigger = h.trigger
      /\ h'.cmdh = "MASTERCOMMAND" /\ h'.chActive = h.chActive /\ h'.code = TRUE
      /\ h'.preop = "asked"
  BY <1>1, <1>3 DEF HandlersWith
<1>6. /\ h'.ev = h.ev /\ h'.ehActive = h.ehActive /\ h'.flag = h.flag
      /\ h'.confirmation = h.confirmation /\ h'.addr = h.addr /\ h'.cnt = h.cnt
      /\ h'.current = h.current /\ h'.num = h.num /\ h'.status = h.status
      /\ h'.events = h.events
  BY <1>1, <1>3 DEF HandlersWith
<1>7. Levels(h') /\ Asked(h')
  BY <1>1, <1>2, <1>5, <1>6 DEF Levels, Asked
<1>8. Commanding(h') /\ Flagged(h')
  BY <1>1, <1>2, <1>5, <1>6 DEF Commanding, Flagged, Exchanging
<1>9. Changing(h', Pending) /\ Confirming(h', Pending, Owed, lost)
  BY <1>1, <1>2, <1>5, <1>6 DEF Changing, Confirming
<1>10. Reading(h', StatusCode)
  BY <1>1, <1>6 DEF Reading, ReadSoFar, Part
<1>11. /\ used' \in [DOMAIN Limit -> Nat] /\ (Busy => Handling(h', Pending))
       /\ UNCHANGED <<al, mbox, frozen, settled, told, reports, lost, app>>
  BY <1>1, <1>2 DEF DL_Write_Devicemode_req, TypeInv, Busy
<1> QED BY <1>4, <1>6, <1>7, <1>8, <1>9, <1>10, <1>11, HandlerStep DEF Sound, Handlers

(* A step of the application in DL_Control_req. *)
LEMMA CallStep ==
  ASSUME IInv, UNCHANGED <<al, mbox, frozen, settled, told, reports, lost>>,
         used' \in [DOMAIN Limit -> Nat], app' \in Calls,
         h' \in Handlers, Levels(h'), Asked(h'), Commanding(h)', Flagged(h'),
         Changing(h', Pending), Confirming(h', Pending, Owed, lost),
         Reading(h', StatusCode), h'.events = h.events, Busy => Handling(h', Pending)
  PROVE  IInv'
<1>1. Pending' = Pending /\ StatusCode' = StatusCode
  BY DEF Pending, StatusCode
<1>2. lost' \in BOOLEAN /\ settled' \in {settled, Len(frozen)}
  BY DEF IInv, DlInv, TypeInv
<1>3. Known(h'.events, Len(frozen))
  BY DEF IInv, DlInv, OctetsKnown
<1>4. /\ Changing(h', Pending') /\ Confirming(h', Pending', Owed, lost')
      /\ Reading(h', StatusCode') /\ (Busy => Handling(h', Pending'))
  BY <1>1
<1> QED BY <1>2, <1>3, <1>4, RecordStep

(* A control code is given: the command handler has not seen it yet. *)
LEMMA ControlKept ==
  ASSUME IInv, Undisturbed, DL_Control_req
  PROVE  IInv'
<1>1. /\ h \in HandlersWith({<<>>}) /\ TypeInv
      /\ Levels(h) /\ Asked(h) /\ Commanding(h) /\ Flagged(h)
      /\ Changing(h, Pending) /\ Confirming(h, Pending, Owed, lost) /\ Reading(h, StatusCode)
  BY InvParts DEF IInv
<1>2. /\ h.mdh = "OPERATE" /\ h.mode = "OPERATE" /\ app' = "cmd"
      /\ ~h.code /\ h.od # "COMMAND" /\ h.cmdh = "IDLE" /\ h.chActive
  BY <1>1 DEF DL_Control_req, Undisturbed, Commanding, Levels
<1>3. h' = [h EXCEPT !.code = TRUE]
  BY DEF DL_Control_req
<1>4. h' \in HandlersWith({<<>>})
  BY <1>1, <1>3, Update
<1>5. /\ h'.mdh = h.mdh /\ h'.mode = h.mode /\ h'.comlost = h.comlost /\ h'.mh = h.mh
      /\ h'.retry = h.retry /\ h'.dataready = h.dataready /\ h'.cycle = h.cycle
      /\ h'.message = h.message /\ h'.od = h.od /\ h'.trigger = h.trigger
      /\ h'.cmdh = h.cmdh /\ h'.chActive = h.chActive /\ h'.code = TRUE
      /\ h'.preop = h.preop
  BY <1>1, <1>3 DEF HandlersWith
<1>6. /\ h'.ev = h.ev /\ h'.ehActive = h.ehActive /\ h'.flag = h.flag
      /\ h'.confirmation = h.confirmation /\ h'.addr = h.addr /\ h'.cnt = h.cnt
      /\ h'.current = h.current /\ h'.num = h.num /\ h'.status = h.status
      /\ h'.events = h.events
  BY <1>1, <1>3 DEF HandlersWith
<1>7. Levels(h') /\ Asked(h') /\ Flagged(h')
  BY <1>1, <1>2, <1>5, <1>6 DEF Levels, Asked, Flagged
<1>8. Commanding(h)'
  BY <1>1, <1>2, <1>5, <1>6 DEF Commanding, Exchanging
<1>9. Changing(h', Pending) /\ Confirming(h', Pending, Owed, lost)
  BY <1>1, <1>2, <1>5, <1>6 DEF Changing, Confirming
<1>10. Reading(h', StatusCode)
  BY <1>1, <1>6 DEF Reading, ReadSoFar, Part
<1>11. Busy => Handling(h', Pending)
  BY <1>5, <1>6 DEF IInv, Handling, Away
<1>12. /\ used' \in [DOMAIN Limit -> Nat] /\ app' \in Calls
       /\ UNCHANGED <<al, mbox, frozen, settled, told, reports, lost>>
  BY <1>1, <1>2, SpendTypes DEF DL_Control_req, Calls
<1> QED BY <1>1, <1>4, <1>6, <1>7, <1>8, <1>9, <1>10, <1>11, <1>12, CallStep DEF Handlers

(* What a step of the application leaves as it was. *)
Called ==
    app = "cmd" =>
        h.code /\ h.cmdh = "IDLE" /\ h.mdh = "OPERATE" /\ h.od # "COMMAND"

(* The application takes it to the command handler. *)
LEMMA ControlCmdKept ==
  ASSUME IInv, Called, ControlCmd
  PROVE  IInv'
<1>1. /\ h \in HandlersWith({<<>>}) /\ TypeInv
      /\ Levels(h) /\ Asked(h) /\ Commanding(h) /\ Flagged(h)
      /\ Changing(h, Pending) /\ Confirming(h, Pending, Owed, lost) /\ Reading(h, StatusCode)
  BY InvParts DEF IInv
<1>2. /\ h.mdh = "OPERATE" /\ h.code /\ h.od # "COMMAND" /\ h.cmdh = "IDLE" /\ h.chActive
      /\ app' = "idle"
  BY <1>1 DEF ControlCmd, Called, Levels
<1>3. h' = [h EXCEPT !.cmdh = "MASTERCOMMAND"]
  BY <1>2 DEF ControlCmd, CmdHandler
<1>4. h' \in HandlersWith({<<>>})
  BY <1>1, <1>3, Update DEF CmdStates
<1>5. /\ h'.mdh = h.mdh /\ h'.mode = h.mode /\ h'.comlost = h.comlost /\ h'.mh = h.mh
      /\ h'.retry = h.retry /\ h'.dataready = h.dataready /\ h'.cycle = h.cycle
      /\ h'.message = h.message /\ h'.od = h.od /\ h'.trigger = h.trigger
      /\ h'.cmdh = "MASTERCOMMAND" /\ h'.chActive = h.chActive /\ h'.code = h.code
      /\ h'.preop = h.preop
  BY <1>1, <1>3 DEF HandlersWith
<1>6. /\ h'.ev = h.ev /\ h'.ehActive = h.ehActive /\ h'.flag = h.flag
      /\ h'.confirmation = h.confirmation /\ h'.addr = h.addr /\ h'.cnt = h.cnt
      /\ h'.current = h.current /\ h'.num = h.num /\ h'.status = h.status
      /\ h'.events = h.events
  BY <1>1, <1>3 DEF HandlersWith
<1>7. Levels(h') /\ Asked(h') /\ Flagged(h')
  BY <1>1, <1>2, <1>5, <1>6 DEF Levels, Asked, Flagged
<1>8. Commanding(h)'
  BY <1>1, <1>2, <1>5, <1>6 DEF Commanding, Exchanging
<1>9. Changing(h', Pending) /\ Confirming(h', Pending, Owed, lost)
  BY <1>1, <1>2, <1>5, <1>6 DEF Changing, Confirming
<1>10. Reading(h', StatusCode)
  BY <1>1, <1>6 DEF Reading, ReadSoFar, Part
<1>11. Busy => Handling(h', Pending)
  BY <1>5, <1>6 DEF IInv, Handling, Away
<1>12. /\ used' \in [DOMAIN Limit -> Nat] /\ app' \in Calls
       /\ UNCHANGED <<al, mbox, frozen, settled, told, reports, lost>>
  BY <1>1, <1>2 DEF ControlCmd, Calls, TypeInv
<1> QED BY <1>1, <1>4, <1>6, <1>7, <1>8, <1>9, <1>10, <1>11, <1>12, CallStep DEF Handlers

(* The device restarts and forgets its set. *)
LEMMA RestartKept ==
  ASSUME IInv, Undisturbed, DeviceRestart
  PROVE  IInv'
<1>1. /\ h \in HandlersWith({<<>>}) /\ TypeInv /\ Len(frozen) \in Nat /\ lost \in BOOLEAN
      /\ Levels(h) /\ Asked(h) /\ Commanding(h) /\ Flagged(h)
      /\ Changing(h, Pending) /\ Confirming(h, Pending, Owed, lost) /\ Reading(h, StatusCode)
  BY InvParts DEF IInv, TypeInv
<1>2. /\ h.mdh = "IDLE" /\ ~h.confirmation /\ settled' = Len(frozen) /\ h' = h
      /\ UNCHANGED <<al, mbox, frozen, told, reports, lost, app>>
  BY DEF DeviceRestart, Undisturbed
<1>3. Pending' = FALSE
  BY <1>1, <1>2 DEF Pending
<1>4. h.ev = "INACTIVE" /\ h.message = NoMessage
  BY <1>1, <1>2 DEF Levels, Exchanging, Awaiting
<1>5. Changing(h, FALSE) /\ Confirming(h, FALSE, Owed, lost)
  BY <1>2, <1>4, MessageTypes DEF Changing, Confirming
<1>6. Sound(h', Pending', Owed, lost') /\ Reading(h', StatusCode')
  <2>1. Sound(h, FALSE, Owed, lost)
    BY <1>1, <1>5 DEF Sound
  <2>2. \A c : Reading(h, c)
    BY <1>4 DEF Reading
  <2> QED BY <1>2, <1>3, <2>1, <2>2
<1>7. Known(h'.events, Len(frozen)) /\ (Busy => Handling(h', Pending'))
  BY <1>2, <1>3 DEF IInv, DlInv, OctetsKnown, Handling
<1>8. used' \in [DOMAIN Limit -> Nat]
  BY <1>1, SpendTypes DEF DeviceRestart
<1> QED BY <1>1, <1>2, <1>6, <1>7, <1>8, QuietStep DEF Handlers

(* Raising a set does not touch those before it. *)
LEMMA MeantKept ==
  ASSUME frozen \in Seq(Kinds), NEW kind \in Kinds, frozen' = Append(frozen, kind),
         NEW n \in 1 .. Len(frozen)
  PROVE  Meant(n)' = Meant(n) /\ frozen'[n] = frozen[n]
<1>1. frozen'[n] = frozen[n]
  OBVIOUS
<1> QED BY <1>1 DEF Meant

(* The device raises a set. *)
LEMMA RaiseKept ==
  ASSUME IInv, Undisturbed, NEW kind \in Kinds, Raise(kind)
  PROVE  IInv'
<1>1. /\ h \in HandlersWith({<<>>}) /\ TypeInv /\ Len(frozen) \in Nat /\ frozen \in Seq(Kinds)
      /\ settled \in 0 .. Len(frozen)
      /\ Levels(h) /\ Asked(h) /\ Commanding(h) /\ Flagged(h)
      /\ Changing(h, Pending) /\ Confirming(h, Pending, Owed, lost) /\ Reading(h, StatusCode)
      /\ ToldMeant /\ OctetsKnown
  BY InvParts DEF IInv, TypeInv, DlInv
<1>2. /\ ~Pending /\ h.message # Confirm /\ mbox = <<>>
      /\ "PREOPERATE" \notin {h.mdh, h.mode} /\ (h.mdh = "OPERATE" => h.mode = "OPERATE")
      /\ frozen' = Append(frozen, kind)
      /\ UNCHANGED <<h, al, mbox, settled, told, reports, lost, app>>
  BY DEF Raise, Undisturbed, Quiet
<1>3. used' \in [DOMAIN Limit -> Nat]
  BY <1>1, SpendTypes DEF Raise
<1>4. Len(frozen') = Len(frozen) + 1 /\ frozen' \in Seq(Kinds)
  BY <1>1, <1>2
<1>5. Pending' = TRUE
  BY <1>1, <1>2, <1>4 DEF Pending
<1>6. \A n \in 1 .. Len(frozen) : Meant(n)' = Meant(n)
  BY <1>1, <1>2, MeantKept
<1>7. ~Owed'
  <2> SUFFICES ASSUME told # <<>>, told[Len(told)].no = Len(frozen) + 1
               PROVE  FALSE
    BY <1>2, <1>4 DEF Owed
  <2>1. Len(told) \in 1 .. Len(told)
    BY <1>1 DEF TypeInv
  <2>2. told[Len(told)].no \in 1 .. Len(frozen)
    BY <1>1, <2>1 DEF ToldMeant
  <2> QED BY <1>1, <2>2
<1>8. TypeInv'
  BY <1>1, <1>2, <1>3, <1>4 DEF TypeInv
<1>9. Changing(h, TRUE) /\ Confirming(h, TRUE, FALSE, lost)
  BY <1>1, <1>2 DEF Changing, Confirming
<1>10. Changing(h', Pending') /\ Confirming(h', Pending', Owed', lost')
  <2>1. Owed' = FALSE
    BY <1>7 DEF Owed
  <2> QED BY <1>2, <1>5, <1>9, <2>1
<1>11. Reading(h', StatusCode')
  <2>1. StatusCode = NoStatus
    BY <1>2 DEF StatusCode
  <2>2. h.ev = "READEVENT" => h.addr = 0 /\ h.num = 0 /\ h.current = 0
    BY <1>1, <2>1 DEF Reading, ReadSoFar, NoStatus
  <2> QED BY <1>2, <2>2 DEF Reading
<1>12. OctetsKnown'
  <2>1. \A s \in Slots, i \in 1 .. 3 : h.events[s][i].no \in Nat /\ h.events[s][i].no <= Len(frozen)
    BY <1>1 DEF OctetsKnown, Known, HandlersWith, Memories, SomeOctets
  <2> QED BY <1>1, <1>2, <1>4, <2>1 DEF OctetsKnown, Known
<1>13. ToldMeant'
  <2> SUFFICES ASSUME NEW i \in 1 .. Len(told)
               PROVE  told[i].no \in 1 .. Len(frozen') /\ told[i].set = Meant(told[i].no)'
    BY <1>2 DEF ToldMeant
  <2>1. told[i].no \in 1 .. Len(frozen) /\ told[i].set = Meant(told[i].no)
    BY <1>1 DEF ToldMeant
  <2> DEFINE n == told[i].no
  <2>2. n \in 1 .. Len(frozen) /\ told[i].set = Meant(n) /\ Meant(n)' = Meant(n) /\ n' = n
    BY <1>2, <1>6, <2>1
  <2> QED BY <1>1, <1>2, <1>4, <2>2
<1>14. DlInv'
  <2>1. Commanding(h)'
    BY <1>1, <1>2 DEF Commanding
  <2> QED BY <1>1, <1>2, <1>8, <1>10, <1>11, <1>12, <1>13, <2>1 DEF DlInv
<1>15. Waiting
  BY <1>2, IdleWaits
<1>16. Waiting'
  BY <1>2, <1>15 DEF Waiting
<1>17. SlotsKnown'
  <2> SUFFICES ASSUME NEW s \in Slots
               PROVE  \/ al'.events[s] = <<>>
                      \/ \E m \in 1 .. Len(frozen') :
                           s + 1 \in 1 .. Len(Meant(m)') /\ al'.events[s] = Meant(m)'[s + 1]
    BY DEF SlotsKnown
  <2>1. CASE al.events[s] = <<>>
    BY <1>2, <2>1
  <2>2. CASE al.events[s] # <<>>
    <3>1. PICK n \in 1 .. Len(frozen) :
            s + 1 \in 1 .. Len(Meant(n)) /\ al.events[s] = Meant(n)[s + 1]
      BY <2>2 DEF IInv, SlotsKnown
    <3>2. n \in 1 .. Len(frozen') /\ Meant(n)' = Meant(n)
      BY <1>1, <1>4, <1>6
    <3> QED BY <1>2, <3>1, <3>2
  <2> QED BY <2>1, <2>2
<1>18. ~Busy'
  BY <1>2 DEF Busy
<1> QED BY <1>14, <1>16, <1>17, <1>18 DEF IInv, Collection

-----------------------------------------------------------------------------
(* The event machine of the AL.                                            *)

(* The set that is being gathered is one the device meant. *)
LEMMA GatheredSet ==
  ASSUME IInv, Gathering
  PROVE  LET set == told[Len(told)].set
         IN  /\ set \in Sets /\ Len(set) \in 1 .. MaxEvents
             /\ \E n \in 1 .. Len(frozen) : set = Meant(n)
<1> DEFINE T == [set : Sets, no : Nat]
<1>1. TypeInv /\ ToldMeant
  BY DEF IInv, DlInv
<1>2. told \in Seq(T) /\ Len(reports) \in Nat
  BY <1>1 DEF TypeInv
<1> HIDE DEF T
<1>3. Len(told) \in 1 .. Len(told)
  BY <1>2 DEF Gathering
<1>4. /\ told[Len(told)].no \in 1 .. Len(frozen)
      /\ told[Len(told)].set = Meant(told[Len(told)].no)
  BY <1>1, <1>3 DEF ToldMeant
<1> QED BY <1>1, <1>4, MeantSets DEF TypeInv

(* The tail of a sequence given by its elements, and the elements of both. *)
LEMMA TailOfElements ==
  ASSUME NEW T, NEW n \in Nat, n # 0, NEW f \in [1 .. n -> T]
  PROVE  Tail(f) \in [1 .. n - 1 -> T]
<1>1. f \in Seq(T) /\ Len(f) = n
  OBVIOUS
<1>2. f # <<>>
  BY <1>1
<1> DEFINE t == Tail(f)
<1>3. t \in Seq(T) /\ Len(t) = n - 1
  BY <1>1, <1>2
<1> HIDE DEF t
<1>4. t \in [1 .. n - 1 -> T]
  BY <1>3
<1> QED BY <1>4 DEF t

LEMMA ElementsOfTail ==
  ASSUME NEW T, NEW n \in Nat, n # 0, NEW f \in [1 .. n -> T]
  PROVE  f # <<>> /\ Head(f) = f[1] /\ \A i \in 1 .. n - 1 : Tail(f)[i] = f[i + 1]
<1>1. f \in Seq(T) /\ Len(f) = n
  OBVIOUS
<1>2. f # <<>> /\ Head(f) = f[1]
  BY <1>1
<1>3. \A i \in 1 .. n - 1 : Tail(f)[i] = f[i + 1]
  BY <1>1, <1>2
<1> QED BY <1>2, <1>3

(* One job in an empty mailbox. *)
LEMMA AppendToNone ==
  ASSUME NEW x
  PROVE  Append(<<>>, x) = <<x>>
OBVIOUS

(* The jobs that are left when k entries of a set have been taken. *)
Left(set, k) == [i \in 1 .. Len(set) - k |-> Job(set, k + i)]

(* The next of them is that of the next entry; after the last none is left. *)
LEMMA LeftJobs ==
  ASSUME NEW set \in Seq(Entries), NEW k \in 0 .. Len(set) - 1
  PROVE  /\ Left(set, k) # <<>> /\ Head(Left(set, k)) = Job(set, k + 1)
         /\ Tail(Left(set, k)) = Left(set, k + 1)
         /\ k + 1 = Len(set) => Tail(Left(set, k)) = <<>>
<1> DEFINE L == Len(set)
<1> DEFINE n == L - k
<1>1. L \in Nat /\ k \in 0 .. L - 1 /\ \A i \in 1 .. L : set[i] \in Entries
  OBVIOUS
<1> HIDE DEF L
<1>2. n \in Nat \ {0} /\ k \in Nat /\ L - (k + 1) = n - 1
  BY <1>1
<1>3. \A i \in 1 .. n : k + i \in 1 .. L /\ L - (k + i) \in Nat
  BY <1>1
<1>4. \A i \in 1 .. n - 1 : k + (i + 1) = (k + 1) + i /\ i + 1 \in 1 .. n
  BY <1>1
<1>5. n = 1 <=> k + 1 = L
  BY <1>1
<1>6. \A i \in 1 .. n : Job(set, k + i) \in AllJobs
  <2> HIDE DEF n
  <2> SUFFICES ASSUME NEW i \in 1 .. n PROVE Job(set, k + i) \in AllJobs
    OBVIOUS
  <2>1. set[k + i] \in Entries /\ L - (k + i) \in Nat
    BY <1>1, <1>3
  <2> QED BY <2>1 DEF Job, AllJobs, L
<1> DEFINE f == Left(set, k)
<1>7. f = [i \in 1 .. n |-> Job(set, k + i)]
  BY DEF Left, L
<1>8. Left(set, k + 1) = [i \in 1 .. n - 1 |-> Job(set, (k + 1) + i)]
  <2>1. Left(set, k + 1) = [i \in 1 .. L - (k + 1) |-> Job(set, (k + 1) + i)]
    BY DEF Left, L
  <2> QED BY <1>2, <2>1
<1> HIDE DEF f, n
<1>9. f \in [1 .. n -> AllJobs] /\ \A i \in 1 .. n : f[i] = Job(set, k + i)
  BY <1>6, <1>7
<1>10. /\ f # <<>> /\ Head(f) = f[1]
       /\ Tail(f) \in [1 .. n - 1 -> AllJobs]
       /\ \A i \in 1 .. n - 1 : Tail(f)[i] = f[i + 1]
  <2>1. n \in Nat /\ n # 0 /\ f \in [1 .. n -> AllJobs]
    BY <1>2, <1>9
  <2>2. Tail(f) \in [1 .. n - 1 -> AllJobs]
    BY <2>1, TailOfElements
  <2>3. f # <<>> /\ Head(f) = f[1] /\ \A i \in 1 .. n - 1 : Tail(f)[i] = f[i + 1]
    BY <2>1, ElementsOfTail
  <2> QED BY <2>2, <2>3
<1>11. \A i \in 1 .. n - 1 : f[i + 1] = Job(set, (k + 1) + i)
  <2> SUFFICES ASSUME NEW i \in 1 .. n - 1 PROVE f[i + 1] = Job(set, (k + 1) + i)
    OBVIOUS
  <2>1. f[i + 1] = Job(set, k + (i + 1))
    BY <1>4, <1>9
  <2> QED BY <1>4, <2>1
<1>12. Tail(f) = Left(set, k + 1)
  <2> DEFINE t == Tail(f)
  <2>1. t = [i \in 1 .. n - 1 |-> t[i]]
    BY <1>10
  <2> HIDE DEF t
  <2>2. \A i \in 1 .. n - 1 : t[i] = Job(set, (k + 1) + i)
    BY <1>10, <1>11 DEF t
  <2>3. t = [i \in 1 .. n - 1 |-> Job(set, (k + 1) + i)]
    BY <2>1, <2>2
  <2> QED BY <1>8, <2>3 DEF t
<1>13. n = 1 => Tail(f) = <<>>
  <2> SUFFICES ASSUME n = 1 PROVE Tail(f) = <<>>
    OBVIOUS
  <2>1. 1 .. n - 1 = {}
    BY <1>2
  <2> QED BY <1>10, <2>1
<1>14. f[1] = Job(set, k + 1)
  BY <1>2, <1>9
<1> QED BY <1>5, <1>10, <1>12, <1>13, <1>14 DEF f, L

(* An entry arrives: the set is complete with the last, or goes on. *)
LEMMA EntryCollected ==
  ASSUME IInv, AlEventInd
  PROVE  LET set == told[Len(told)].set
             k == al.cnt
         IN  /\ Gathering /\ set \in Sets /\ Len(set) \in 1 .. MaxEvents
             /\ k \in 0 .. Len(set) - 1 /\ k \in Slots
             /\ al'.events = [al.events EXCEPT ![k] = set[k + 1]] /\ al'.cnt = k + 1
             /\ \A i \in 1 .. k + 1 : al'.events[i - 1] = set[i]
             /\ al' \in Machines
             /\ \/ /\ k + 1 < Len(set) /\ al'.state = "Read_Event_Set" /\ reports' = reports
                   /\ mbox' = Left(set, k + 1)
                \/ /\ k + 1 = Len(set) /\ al'.state = "DU_Event_handling"
                   /\ reports' = Append(reports, Report(al')) /\ mbox' = <<Response>>
<1> DEFINE set == told[Len(told)].set
<1> DEFINE k == al.cnt
<1>1. Gathering
  <2>1. ~Waiting
    BY DEF AlEventInd, Waiting
  <2>2. ~Answering
    BY DEF AlEventInd, Answering, Response
  <2> QED BY <2>1, <2>2 DEF IInv, Collection
<1>2. set \in Sets /\ Len(set) \in 1 .. MaxEvents
  BY <1>1, GatheredSet
<1> HIDE DEF set
<1>3. /\ k \in 0 .. Len(set) - 1
      /\ al.state = IF k = 0 THEN "Event_idle" ELSE "Read_Event_Set"
      /\ mbox = Left(set, k)
      /\ \A i \in 1 .. k : al.events[i - 1] = set[i]
  BY <1>1 DEF Gathering, GatheringOf, Left, set
<1>4. k \in Slots /\ k \in Nat /\ Len(set) \in Nat /\ k + 1 \in Counts /\ k + 1 \in 1 .. Len(set)
  BY <1>2, <1>3, EventAssumption DEF Slots, Counts
<1>5. /\ mbox # <<>> /\ Head(mbox) = Job(set, k + 1)
      /\ Tail(mbox) = Left(set, k + 1)
      /\ k + 1 = Len(set) => Tail(mbox) = <<>>
  <2>1. set \in Seq(Entries)
    BY <1>2 DEF Sets
  <2> HIDE DEF k
  <2> QED BY <1>3, <2>1, LeftJobs
<1> DEFINE job == Job(set, k + 1)
<1>6. job.entry = set[k + 1] /\ job.left = Len(set) - (k + 1) /\ set[k + 1] \in Entries
  BY <1>2, <1>4 DEF Job, Sets
<1> HIDE DEF job
<1>7. al \in Machines
  BY DEF IInv, DlInv, TypeInv
<1> DEFINE events == [al.events EXCEPT ![k] = set[k + 1]]
<1> DEFINE got == [al EXCEPT !.events = events, !.cnt = k + 1]
<1>8. events \in [Slots -> Entries]
  BY <1>4, <1>6, <1>7 DEF Machines
<1>9. Collecting(al)
  BY <1>3 DEF Collecting
<1>10. al' = IF job.left > 0 THEN [got EXCEPT !.state = "Read_Event_Set"]
             ELSE [got EXCEPT !.state = "DU_Event_handling"]
  <2>1. al' = Collect(al, job)
    BY <1>5 DEF AlEventInd, job
  <2>2. [al EXCEPT !.events[al.cnt] = job.entry, !.cnt = @ + 1] = got
    BY <1>6, <1>7 DEF Machines
  <2> HIDE DEF got
  <2> QED BY <1>4, <1>9, <2>1, <2>2 DEF Collect
<1>11. got \in Machines /\ got.events = events /\ got.cnt = k + 1
  BY <1>4, <1>7, <1>8 DEF Machines
<1>12. \A i \in 1 .. k + 1 : events[i - 1] = set[i]
  <2>1. \A i \in 1 .. k + 1 : i = k + 1 \/ (i \in 1 .. k /\ i - 1 # k)
    BY <1>4
  <2>2. DOMAIN al.events = Slots
    BY <1>7 DEF Machines
  <2>3. \A i \in 1 .. k + 1 : i - 1 \in Slots
    BY <1>4, EventAssumption DEF Slots
  <2> QED BY <1>3, <1>4, <2>1, <2>2, <2>3
<1> DEFINE done == Collecting(al) /\ al'.state = "DU_Event_handling"
<1>13. /\ reports' = IF done THEN Append(reports, Report(al')) ELSE reports
       /\ mbox' = IF done THEN Append(Tail(mbox), Response) ELSE Tail(mbox)
  BY DEF AlEventInd, Response
<1> HIDE DEF got, events
<1>14. CASE k + 1 < Len(set)
  <2>1. al' = [got EXCEPT !.state = "Read_Event_Set"]
    BY <1>4, <1>6, <1>10, <1>14
  <2>2. /\ al' \in Machines /\ al'.events = events /\ al'.cnt = k + 1
        /\ al'.state = "Read_Event_Set"
    BY <1>11, <2>1 DEF Machines
  <2>3. ~done
    BY <2>2
  <2> QED BY <1>1, <1>2, <1>3, <1>4, <1>5, <1>12, <1>13, <1>14, <2>2, <2>3 DEF set, events
<1>15. CASE k + 1 = Len(set)
  <2>1. al' = [got EXCEPT !.state = "DU_Event_handling"]
    BY <1>4, <1>6, <1>10, <1>15
  <2>2. /\ al' \in Machines /\ al'.events = events /\ al'.cnt = k + 1
        /\ al'.state = "DU_Event_handling"
    BY <1>11, <2>1 DEF Machines
  <2>3. done
    BY <1>9, <2>2
  <2>4. mbox' = <<Response>>
    <3>1. mbox' = Append(Tail(mbox), Response)
      BY <1>13, <2>3
    <3>2. Tail(mbox) = <<>>
      BY <1>5, <1>15
    <3> QED BY <3>1, <3>2, AppendToNone
  <2> QED BY <1>1, <1>2, <1>3, <1>4, <1>12, <1>13, <1>15, <2>2, <2>3, <2>4 DEF set, events
<1>16. k + 1 < Len(set) \/ k + 1 = Len(set)
  BY <1>4
<1> QED BY <1>14, <1>15, <1>16

(* An entry arrives. *)
LEMMA EventIndKept ==
  ASSUME IInv, AlEventInd
  PROVE  IInv'
<1> DEFINE set == told[Len(told)].set
<1> DEFINE k == al.cnt
<1>1. /\ Gathering /\ set \in Sets /\ Len(set) \in 1 .. MaxEvents
      /\ k \in 0 .. Len(set) - 1 /\ k \in Slots
      /\ al'.events = [al.events EXCEPT ![k] = set[k + 1]] /\ al'.cnt = k + 1
      /\ \A i \in 1 .. k + 1 : al'.events[i - 1] = set[i]
      /\ al' \in Machines
  BY EntryCollected
<1>2. \/ /\ k + 1 < Len(set) /\ al'.state = "Read_Event_Set" /\ reports' = reports
         /\ mbox' = Left(set, k + 1)
      \/ /\ k + 1 = Len(set) /\ al'.state = "DU_Event_handling"
         /\ reports' = Append(reports, Report(al')) /\ mbox' = <<Response>>
  BY EntryCollected
<1>3. UNCHANGED <<h, frozen, settled, told, lost, app, used>> /\ mbox # <<>>
  BY DEF AlEventInd
<1>4. \E n \in 1 .. Len(frozen) : set = Meant(n)
  BY <1>1, GatheredSet
<1>5. DlInv /\ TypeInv /\ al \in Machines /\ reports \in Seq([to : {"DS", "application"}, set : Sets])
  BY DEF IInv, DlInv, TypeInv
<1>6. Pending' = Pending /\ StatusCode' = StatusCode /\ Owed' = Owed /\ \A n : Meant(n)' = Meant(n)
  BY <1>3 DEF Pending, StatusCode, Owed, Meant
<1>7. set' = set
  BY <1>3
<1> HIDE DEF set
<1>8. Len(set) \in Nat /\ k \in Nat /\ Len(set) - (k + 1) \in Int
  BY <1>1
<1>9. Len(told) = Len(reports) + 1
  BY <1>1 DEF Gathering
<1> HIDE DEF k
<1>10. mbox' \in Seq(AllJobs)
  <2>1. CASE mbox' = <<Response>>
    <3>1. Response \in AllJobs
      BY DEF Response, AllJobs
    <3> HIDE DEF Response
    <3> QED BY <2>1, <3>1
  <2>2. CASE k + 1 < Len(set) /\ mbox' = Left(set, k + 1)
    <3> DEFINE L == Len(set)
    <3> DEFINE n == L - (k + 1)
    <3>1. n \in Nat
      BY <1>8, <2>2
    <3>2. \A i \in 1 .. n : (k + 1) + i \in 1 .. L /\ L - ((k + 1) + i) \in Nat
      BY <1>8
    <3>3. \A i \in 1 .. L : set[i] \in Entries
      BY <1>1 DEF Sets
    <3> DEFINE J(i) == Job(set, (k + 1) + i)
    <3>4. mbox' = [i \in 1 .. n |-> J(i)]
      BY <2>2 DEF Left
    <3> HIDE DEF n
    <3>5. \A i \in 1 .. n : J(i) \in AllJobs
      <4> SUFFICES ASSUME NEW i \in 1 .. n PROVE J(i) \in AllJobs
        OBVIOUS
      <4>1. set[(k + 1) + i] \in Entries /\ L - ((k + 1) + i) \in Nat
        BY <3>2, <3>3
      <4> QED BY <4>1 DEF Job, AllJobs
    <3> HIDE DEF L
    <3>6. mbox' \in [1 .. n -> AllJobs]
      BY <3>4, <3>5
    <3> QED BY <3>1, <3>6
  <2> QED BY <1>2, <2>1, <2>2
<1>11. reports' \in Seq([to : {"DS", "application"}, set : Sets])
  <2> DEFINE T == [to : {"DS", "application"}, set : Sets]
  <2>1. reports \in Seq(T)
    BY <1>5
  <2>2. Report(al') \in T
    <3>1. DS_Upload \in T
      <4>1. <<>> \in Sets
        BY DEF Sets
      <4> QED BY <4>1 DEF DS_Upload
    <3>2. Told(Collected(al')) \in T
      <4>1. al'.cnt \in Nat /\ al'.cnt <= MaxEvents /\ MaxEvents \in Nat
        BY <1>1, EventAssumption DEF Machines, Counts
      <4>2. \A i \in 1 .. al'.cnt : al'.events[i - 1] \in Entries
        <5>1. al'.events \in [Slots -> Entries]
          BY <1>1 DEF Machines
        <5>2. \A i \in 1 .. al'.cnt : i - 1 \in Slots
          BY <4>1 DEF Slots
        <5> QED BY <5>1, <5>2
      <4>3. Collected(al') \in [1 .. al'.cnt -> Entries]
        BY <4>2 DEF Collected
      <4>4. Collected(al') \in Sets
        BY <4>1, <4>3 DEF Sets
      <4> QED BY <4>4 DEF Told
    <3> HIDE DEF T
    <3> QED BY <3>1, <3>2 DEF Report
  <2> HIDE DEF T
  <2>3. Append(reports, Report(al')) \in Seq(T)
    BY <2>1, <2>2
  <2>4. reports' \in Seq(T)
    BY <1>2, <2>1, <2>3
  <2> QED BY <2>4 DEF T
<1>12. TypeInv'
  BY <1>1, <1>3, <1>5, <1>10, <1>11 DEF TypeInv
<1>13. DlInv'
  <2>1. OctetsKnown' /\ ToldMeant'
    BY <1>3, <1>5, <1>6 DEF DlInv, OctetsKnown, ToldMeant
  <2>2. Changing(h', Pending') /\ Confirming(h', Pending', Owed', lost') /\ Reading(h', StatusCode')
    BY <1>3, <1>5, <1>6 DEF DlInv
  <2>3. Commanding(h)'
    BY <1>3, <1>5 DEF DlInv, Commanding
  <2> QED BY <1>3, <1>5, <1>12, <2>1, <2>2, <2>3 DEF DlInv
<1>14. Busy' => Handling(h', Pending')
  BY <1>3, <1>6 DEF IInv, Busy
<1>15. Collection'
  <2>1. CASE k + 1 < Len(set) /\ al'.state = "Read_Event_Set" /\ reports' = reports /\ mbox' = Left(set, k + 1)
    <3>1. al'.cnt \in 0 .. Len(set) - 1 /\ al'.cnt # 0
      BY <1>1, <1>8, <2>1
    <3>2. mbox' = [i \in 1 .. Len(set) - al'.cnt |-> Job(set, al'.cnt + i)]
      BY <1>1, <2>1 DEF Left
    <3>3. \A i \in 1 .. al'.cnt : al'.events[i - 1] = set[i]
      BY <1>1
    <3>4. Len(told') = Len(reports') + 1 /\ told'[Len(told')].set = set
      BY <1>3, <1>9, <2>1 DEF set
    <3>5. Gathering'
      BY <2>1, <3>1, <3>2, <3>3, <3>4 DEF Gathering, GatheringOf, Job
    <3> QED BY <3>5 DEF Collection
  <2>2. CASE /\ al'.state = "DU_Event_handling" /\ mbox' = <<Response>>
             /\ reports' = Append(reports, Report(al'))
    <3>1. Len(reports') = Len(reports) + 1
      BY <1>5, <2>2
    <3> QED BY <1>3, <1>9, <2>2, <3>1 DEF Collection, Answering, Response
  <2> QED BY <1>2, <2>1, <2>2
<1>16. SlotsKnown'
  <2> SUFFICES ASSUME NEW s \in Slots
               PROVE  \/ al'.events[s] = <<>>
                      \/ \E m \in 1 .. Len(frozen') :
                           s + 1 \in 1 .. Len(Meant(m)') /\ al'.events[s] = Meant(m)'[s + 1]
    BY DEF SlotsKnown
  <2>1. al.events \in [Slots -> Entries]
    BY <1>5 DEF Machines
  <2>2. CASE s = k
    <3>1. PICK n \in 1 .. Len(frozen) : set = Meant(n)
      BY <1>4
    <3>2. s + 1 \in 1 .. Len(Meant(n)) /\ al'.events[s] = Meant(n)[s + 1]
      BY <1>1, <1>8, <2>1, <2>2, <3>1
    <3> QED BY <1>3, <1>6, <3>2
  <2>3. CASE s # k
    <3>1. al'.events[s] = al.events[s]
      BY <1>1, <2>1, <2>3
    <3>2. CASE al.events[s] = <<>>
      BY <3>1, <3>2
    <3>3. CASE al.events[s] # <<>>
      <4>1. PICK n \in 1 .. Len(frozen) :
              s + 1 \in 1 .. Len(Meant(n)) /\ al.events[s] = Meant(n)[s + 1]
        BY <3>3 DEF IInv, SlotsKnown
      <4> QED BY <1>3, <1>6, <3>1, <4>1
    <3> QED BY <3>2, <3>3
  <2> QED BY <2>2, <2>3
<1> QED BY <1>13, <1>14, <1>15, <1>16 DEF IInv

(* The AL is told that the set has been handled. *)
LEMMA EventRspKept ==
  ASSUME IInv, AlEventRsp
  PROVE  IInv'
<1>1. Answering
  <2>1. ~Waiting
    BY DEF AlEventRsp, Waiting
  <2>2. ~Gathering
    <3> SUFFICES ASSUME Gathering PROVE FALSE
      OBVIOUS
    <3> DEFINE set == told[Len(told)].set
    <3>1. set \in Seq(Entries)
      BY GatheredSet DEF Sets
    <3> HIDE DEF set
    <3>2. al.cnt \in 0 .. Len(set) - 1 /\ mbox = Left(set, al.cnt)
      BY DEF Gathering, GatheringOf, Left, set
    <3>3. Head(mbox) = Job(set, al.cnt + 1)
      BY <3>1, <3>2, LeftJobs
    <3> QED BY <3>3 DEF AlEventRsp, Job
  <2> QED BY <2>1, <2>2 DEF IInv, Collection
<1>2. mbox' = <<>>
  BY <1>1 DEF AlEventRsp, Answering
<1>3. al \in Machines /\ DlInv /\ TypeInv
  BY DEF IInv, DlInv, TypeInv
<1>4. /\ al' \in Machines /\ al'.state = "Event_idle" /\ al'.cnt = 0 /\ al'.events = al.events
  <2>1. al' = [al EXCEPT !.state = "Event_idle", !.cnt = 0]
    BY <1>1 DEF AlEventRsp, Answering
  <2>2. 0 \in Counts
    BY MessageTypes
  <2> QED BY <1>3, <2>1, <2>2 DEF Machines
<1>5. UNCHANGED <<h, frozen, settled, told, reports, lost, app, used>>
  BY DEF AlEventRsp
<1>6. Pending' = Pending /\ StatusCode' = StatusCode /\ Owed' = Owed /\ \A n : Meant(n)' = Meant(n)
  BY <1>5 DEF Pending, StatusCode, Owed, Meant
<1>7. TypeInv'
  BY <1>2, <1>3, <1>4, <1>5 DEF TypeInv
<1>8. DlInv'
  <2>1. OctetsKnown' /\ ToldMeant'
    BY <1>3, <1>5, <1>6 DEF DlInv, OctetsKnown, ToldMeant
  <2>2. Changing(h', Pending') /\ Confirming(h', Pending', Owed', lost') /\ Reading(h', StatusCode')
    BY <1>3, <1>5, <1>6 DEF DlInv
  <2>3. Commanding(h)'
    BY <1>3, <1>5 DEF DlInv, Commanding
  <2> QED BY <1>3, <1>5, <1>7, <2>1, <2>2, <2>3 DEF DlInv
<1>9. Waiting'
  BY <1>1, <1>2, <1>4, <1>5 DEF Waiting, Answering
<1>10. SlotsKnown'
  BY <1>4, <1>5, <1>6 DEF IInv, SlotsKnown
<1> QED BY <1>2, <1>8, <1>9, <1>10 DEF IInv, Busy, Collection

-----------------------------------------------------------------------------
(* The invariant holds at the start, and every step keeps it. *)
LEMMA InitInv ==
  ASSUME Init
  PROVE  IInv
<1>1. /\ frozen = <<>> /\ settled = 0 /\ mbox = <<>> /\ told = <<>> /\ reports = <<>>
      /\ lost = FALSE /\ app = "idle" /\ used = [b \in DOMAIN Limit |-> 0]
      /\ al = [state |-> "Event_idle", cnt |-> 0, events |-> [s \in Slots |-> <<>>]]
  BY DEF Init
<1>2. ~Pending /\ Pending = FALSE
  BY <1>1 DEF Pending
<1>3. h \in HandlersWith({<<>>})
  <2> DEFINE none == [s \in Slots |-> Unread]
  <2>1. none \in Memories /\ NoMessage \in Messages /\ Service \in Messages
        /\ 0 \in Addresses /\ 0 \in Counts
    BY MessageTypes
  <2>2. 0 \in Retries
    BY EventAssumption DEF Retries
  <2>3. NoStatus \in Statuses
    BY DEF NoStatus, Statuses
  <2> HIDE DEF none
  <2>4. h = [mdh |-> "IDLE", mode |-> "INACTIVE", comlost |-> FALSE, mdhEvent |-> FALSE,
             mh |-> "INACTIVE", mhEvent |-> FALSE, retry |-> 0, dataready |-> FALSE,
             cycle |-> FALSE, tx |-> Service, message |-> NoMessage,
             od |-> "INACTIVE", trigger |-> "NONE",
             cmdh |-> "INACTIVE", chActive |-> FALSE, code |-> FALSE, operate |-> FALSE,
             preop |-> "none",
             ev |-> "INACTIVE", ehActive |-> FALSE, flag |-> FALSE, confirmation |-> FALSE,
             addr |-> 0, cnt |-> 0, current |-> 0, num |-> 0, status |-> NoStatus,
             events |-> none, signals |-> <<>>]
    BY DEF Init, none
  <2> QED BY <2>1, <2>2, <2>3, <2>4 DEF HandlersWith, MdhStates, Modes, MhStates, OdStates,
             Triggers, CmdStates, Preops, EvStates
<1>4. /\ h.mdh = "IDLE" /\ h.mode = "INACTIVE" /\ h.comlost = FALSE /\ h.mh = "INACTIVE"
      /\ h.message = NoMessage /\ h.od = "INACTIVE" /\ h.cmdh = "INACTIVE"
      /\ h.chActive = FALSE /\ h.code = FALSE /\ h.ev = "INACTIVE" /\ h.ehActive = FALSE
      /\ h.flag = FALSE /\ h.confirmation = FALSE /\ h.events = [s \in Slots |-> Unread]
  BY DEF Init
<1>5. Levels(h) /\ Asked(h)
  BY <1>4 DEF Levels, Asked, Exchanging
<1>6. Commanding(h) /\ Flagged(h)
  BY <1>4 DEF Commanding, Flagged
<1>7. Changing(h, Pending) /\ Confirming(h, Pending, Owed, lost) /\ Reading(h, StatusCode)
  BY <1>2, <1>4, MessageTypes DEF Changing, Confirming, Reading
<1>8. OctetsKnown
  <2>1. Known([s \in Slots |-> Unread], 0)
    BY UnreadKnown
  <2> QED BY <1>1, <1>4, <2>1 DEF OctetsKnown
<1>9. ToldMeant
  BY <1>1 DEF ToldMeant
<1>10. al \in Machines
  <2>1. <<>> \in Entries /\ 0 \in Counts
    BY MessageTypes DEF Entries
  <2> QED BY <1>1, <2>1 DEF Machines
<1>11. TypeInv
  <2>1. used \in [DOMAIN Limit -> Nat]
    BY <1>1
  <2>2. settled \in 0 .. Len(frozen) /\ lost \in BOOLEAN
    <3>1. Len(frozen) = 0
      BY <1>1
    <3>2. settled \in 0 .. Len(frozen)
      BY <1>1, <3>1
    <3>3. lost \in BOOLEAN
      BY <1>1, Zenon
    <3> QED BY <3>2, <3>3
  <2>3. \A T : <<>> \in Seq(T)
    OBVIOUS
  <2>4. mbox \in Seq(AllJobs) /\ frozen \in Seq(Kinds)
    BY <1>1, <2>3, Zenon
  <2>5. told \in Seq([set : Sets, no : Nat])
    BY <1>1, <2>3, Zenon
  <2>6. reports \in Seq([to : {"DS", "application"}, set : Sets])
    BY <1>1, <2>3, Zenon
  <2>7. app \in Calls
    BY <1>1 DEF Calls
  <2> QED BY <1>1, <1>3, <1>10, <2>1, <2>2, <2>4, <2>5, <2>6, <2>7 DEF TypeInv, Handlers
<1>12. Waiting /\ SlotsKnown /\ ~Busy
  BY <1>1 DEF Waiting, SlotsKnown, Busy
<1> QED BY <1>5, <1>6, <1>7, <1>8, <1>9, <1>11, <1>12 DEF IInv, DlInv, Collection

LEMMA InitCalled ==
  ASSUME Init
  PROVE  IInv /\ Called
BY InitInv DEF Init, Called

(* A stuttering step disturbs nothing.                                    *)
LEMMA StutterKept ==
  ASSUME IInv, UNCHANGED vars
  PROVE  IInv'
<1>1. /\ h \in Handlers /\ used \in [DOMAIN Limit -> Nat]
      /\ Sound(h, Pending, Owed, lost) /\ Reading(h, StatusCode)
      /\ Busy => Handling(h, Pending)
  BY DEF IInv, DlInv, TypeInv, Sound
<1>2. UNCHANGED <<h, al, mbox, frozen, settled, told, reports, lost, app, used>>
  BY DEF vars
<1> QED BY <1>1, <1>2, HandlerStep

(* While the application is in its call, no other step comes near the      *)
(* handlers it is going to call.                                           *)
LEMMA CalledKept ==
  ASSUME IInv, Called, Undisturbed, [Next]_vars
  PROVE  Called'
<1>1. h \in HandlersWith({<<>>}) /\ Levels(h) /\ Commanding(h)
  BY InvParts DEF IInv
<1>2. CASE app # "cmd"
  <2>1. CASE DL_Control_req
    <3>1. /\ h.mdh = "OPERATE" /\ ~h.code /\ h.od # "COMMAND" /\ h.cmdh = "IDLE"
          /\ h' = [h EXCEPT !.code = TRUE]
      BY <1>1, <2>1 DEF DL_Control_req, Undisturbed, Commanding, Levels
    <3>2. h'.code /\ h'.cmdh = "IDLE" /\ h'.mdh = "OPERATE" /\ h'.od # "COMMAND"
      BY <1>1, <3>1 DEF HandlersWith
    <3> QED BY <3>2 DEF Called
  <2>2. CASE ~DL_Control_req
    <3>1. app' # "cmd"
      BY <1>2, <2>2
         DEF Next, Raise, DeviceRestart, MessageLost, DlThread, Reply9, Reply16, Preoperate6, Timeout,
             ModeHandler, Run, WakeUp, MainThread, AlEventInd, AlEventRsp, Bringup, SmStartup,
             SmPreoperate, DL_Write_Devicemode_req, SmOperate, SmGiveUp, DL_SetMode_req,
             Reconfigure, ControlCmd, vars
    <3> QED BY <3>1 DEF Called
  <2> QED BY <2>1, <2>2
<1>3. CASE app = "cmd"
  <2>1. /\ h.code /\ h.cmdh = "IDLE" /\ h.mdh = "OPERATE" /\ h.od # "COMMAND"
        /\ ~HandlerFree /\ Calm
    BY <1>3 DEF Called, Undisturbed, HandlerFree
  <2>2. CASE MessageLost \/ Preoperate6
    <3>1. \/ h' = [h EXCEPT !.retry = @ + 1]
          \/ h' = ComLost(h)
          \/ h' = [h EXCEPT !.mhEvent = FALSE,
                            !.mh = IF @ = "PREOPERATE_6" /\ (h.operate \/ h.flag)
                                   THEN "GETOD_7" ELSE @]
      BY <2>2 DEF MessageLost, Preoperate6
    <3>2. h'.code = h.code /\ h'.cmdh = h.cmdh /\ h'.mdh = h.mdh /\ h'.od = h.od
      BY <1>1, <3>1 DEF HandlersWith, ComLost
    <3> QED BY <2>1, <3>2 DEF Called
  <2>3. CASE ControlCmd
    BY <2>3 DEF ControlCmd, Called
  <2>4. CASE MainThread \/ UNCHANGED vars \/ \E kind \in Kinds : Raise(kind)
    <3>1. UNCHANGED <<h, app>>
      BY <2>4 DEF MainThread, AlEventInd, AlEventRsp, Raise, vars
    <3> QED BY <2>1, <3>1 DEF Called
  <2>5. ~DeviceRestart /\ ~Reply9 /\ ~Reply16 /\ ~Timeout /\ ~ModeHandler /\ ~WakeUp
    BY <2>1 DEF DeviceRestart, Reply9, Reply16, Timeout, ModeHandler, WakeUp
  <2>6. /\ ~Bringup /\ ~DL_Control_req
        /\ ~\E mode \in {"STARTUP", "INACTIVE"} : Reconfigure(mode)
    BY <1>3, <2>1 DEF Bringup, SmStartup, SmPreoperate, DL_Write_Devicemode_req, SmOperate,
                      SmGiveUp, DL_Control_req, Reconfigure
  <2> QED BY <2>2, <2>3, <2>4, <2>5, <2>6 DEF Next, DlThread
<1> QED BY <1>2, <1>3

(* The DL thread runs the handlers only when the application is not in its *)
(* call.                                                                   *)
LEMMA NotCalling ==
  ASSUME IInv, Undisturbed, HandlerFree
  PROVE  app = "idle"
BY DEF Undisturbed, HandlerFree

(* Every step of the threads, the device and the SM keeps the invariant.   *)
LEMMA StepKept ==
  ASSUME IInv, Called, Undisturbed, [Next]_vars
  PROVE  IInv'
<1>1. ASSUME NEW kind \in Kinds, Raise(kind) PROVE IInv'
  BY <1>1, RaiseKept
<1>2. CASE DeviceRestart
  BY <1>2, RestartKept
<1>3. CASE MessageLost
  <2>1. h.retry < MaxRetry \/ h.retry >= MaxRetry
    BY EventAssumption DEF IInv, DlInv, TypeInv, Handlers, HandlersWith, Retries
  <2> QED BY <1>3, <2>1, RetryKept, ComLostKept
<1>4. CASE DlThread
  <2>1. Reply16 \/ Timeout \/ ModeHandler => app = "idle"
    BY NotCalling DEF Reply16, Timeout, ModeHandler
  <2> QED BY <1>4, <2>1, Reply9Kept, Reply16Kept, Preoperate6Kept, TimeoutKept, ModeHandlerKept,
             WakeUpKept DEF DlThread
<1>5. CASE MainThread
  BY <1>5, EventIndKept, EventRspKept DEF MainThread
<1>6. CASE Bringup
  BY <1>6, ModesKept, DevicemodeKept DEF Bringup
<1>7. ASSUME NEW mode \in {"STARTUP", "INACTIVE"}, Reconfigure(mode) PROVE IInv'
  BY <1>7, ModesKept
<1>8. CASE DL_Control_req \/ ControlCmd
  BY <1>8, ControlKept, ControlCmdKept
<1>9. CASE UNCHANGED vars
  BY <1>9, StutterKept
<1> QED BY <1>1, <1>2, <1>3, <1>4, <1>5, <1>6, <1>7, <1>8, <1>9 DEF Next

(* An entry as the device meant it has one octet or three, of a set that   *)
(* was raised.                                                             *)
LEMMA MeantEntry ==
  ASSUME frozen \in Seq(Kinds), NEW n \in 1 .. Len(frozen), NEW i \in 1 .. Len(Meant(n))
  PROVE  Entry(Meant(n)[i])
<1> DEFINE slot == Ascending(frozen[n].bits)[i]
<1>1. /\ slot \in frozen[n].bits /\ frozen[n] \in Kinds
      /\ Meant(n)[i] = IF frozen[n].details THEN Details(n, slot) ELSE NoDetails(n, slot)
  BY MeantSets
<1>2. frozen[n].bits \subseteq Slots
  BY <1>1, EventAssumption
<1> HIDE DEF slot
<1>3. slot \in 0 .. MaxEvents - 1 /\ MaxEvents \in Nat
  BY <1>1, <1>2, EventAssumption DEF Slots
<1>4. \A j \in 1 .. 3 : Octet(n, 3 * slot + j) \in Octets
  BY <1>3 DEF Octet, Octets
<1>5. Octet(n, slot) \in Octets
  BY <1>3 DEF Octet, Octets
<1>6. Entry(Details(n, slot))
  BY <1>4 DEF Details, Entry
<1>7. Entry(NoDetails(n, slot))
  BY <1>5 DEF NoDetails, Entry
<1> QED BY <1>1, <1>6, <1>7

(* The invariant holds every state, counter and octet in its range.        *)
LEMMA InvTypes ==
  ASSUME IInv
  PROVE  TypeOK
<1>1. /\ h \in HandlersWith({<<>>}) /\ al \in Machines /\ settled \in 0 .. Len(frozen)
      /\ frozen \in Seq(Kinds) /\ OctetsKnown /\ Len(frozen) \in Nat
  BY DEF IInv, DlInv, TypeInv, Handlers
<1>2. /\ h.mdh \in {"IDLE", "STARTUP", "PREOPERATE", "OPERATE"}
      /\ h.mh \in {"INACTIVE", "STARTUP_2", "PREOPERATE_6", "GETOD_7", "AW_REPLY_9",
                    "OPERATE_12", "AW_REPLY_16"}
      /\ h.od \in {"INACTIVE", "ISDU", "COMMAND", "EVENT"}
      /\ h.cmdh \in {"INACTIVE", "IDLE", "MASTERCOMMAND"}
      /\ h.ev \in {"INACTIVE", "IDLE", "READEVENT"}
  BY <1>1 DEF HandlersWith, MdhStates, MhStates, OdStates, CmdStates, EvStates
<1>3. /\ h.retry \in 0 .. MaxRetry + 1
      /\ h.addr \in 0 .. 3 * MaxEvents /\ h.cnt \in 0 .. MaxEvents
      /\ h.num \in 0 .. MaxEvents /\ h.current \in 0 .. MaxEvents
  BY <1>1 DEF HandlersWith, Retries, Addresses, Counts
<1>4. \A s \in Slots : h.events[s] \in [1 .. 3 -> Octets]
  <2> SUFFICES ASSUME NEW s \in Slots PROVE h.events[s] \in [1 .. 3 -> Octets]
    OBVIOUS
  <2>1. h.events[s] \in [1 .. 3 -> SomeOctets]
    BY <1>1 DEF HandlersWith, Memories
  <2>2. \A i \in 1 .. 3 : h.events[s][i].no <= Len(frozen)
    BY <1>1 DEF OctetsKnown, Known
  <2>3. \A o \in SomeOctets : o.no <= Len(frozen) => o \in Octets
    BY <1>1 DEF SomeOctets, Octets
  <2> QED BY <2>1, <2>2, <2>3
<1>5. /\ al.state \in {"Event_idle", "Read_Event_Set", "DU_Event_handling"}
      /\ al.cnt \in 0 .. MaxEvents
  BY <1>1 DEF Machines, Counts
<1>6. \A i \in 1 .. Len(mbox) : mbox[i].type = "DL_EVENT_IND" => Entry(mbox[i].entry)
  <2>1. CASE Waiting
    BY <2>1 DEF Waiting
  <2>2. CASE Answering
    BY <2>2 DEF Answering, Response
  <2>3. CASE Gathering
    <3> DEFINE set == told[Len(told)].set
    <3>1. set \in Sets /\ Len(set) \in Nat
      BY <2>3, GatheredSet DEF Sets
    <3>2. PICK n \in 1 .. Len(frozen) : set = Meant(n)
      BY <2>3, GatheredSet
    <3> HIDE DEF set
    <3>3. /\ al.cnt \in 0 .. Len(set) - 1
          /\ mbox = [i \in 1 .. Len(set) - al.cnt |-> Job(set, al.cnt + i)]
      BY <2>3 DEF Gathering, GatheringOf, set
    <3> DEFINE L == Len(set)
    <3> DEFINE m == L - al.cnt
    <3>4. m \in Nat /\ \A i \in 1 .. m : al.cnt + i \in 1 .. L
      BY <3>1, <3>3
    <3>5. DOMAIN mbox = 1 .. m /\ \A i \in 1 .. m : mbox[i] = Job(set, al.cnt + i)
      BY <3>3
    <3> HIDE DEF m
    <3>6. Len(mbox) = m
      <4>1. mbox \in Seq(AllJobs)
        BY DEF IInv, DlInv, TypeInv
      <4> QED BY <3>4, <3>5, <4>1
    <3>7. ASSUME NEW i \in 1 .. m PROVE Entry(mbox[i].entry)
      <4>1. mbox[i].entry = Meant(n)[al.cnt + i]
        BY <3>2, <3>5 DEF Job
      <4>2. al.cnt + i \in 1 .. Len(Meant(n))
        BY <3>2, <3>4
      <4> QED BY <1>1, <4>1, <4>2, MeantEntry
    <3> QED BY <3>6, <3>7
  <2> QED BY <2>1, <2>2, <2>3 DEF IInv, Collection
<1> QED BY <1>1, <1>2, <1>3, <1>4, <1>5, <1>6 DEF TypeOK

(* The handlers keep within their states and arrays: whatever the sets a   *)
(* device raises, however messages are lost, the AL never counts past its  *)
(* array, and the event handler asks for octets of the memory only.        *)
THEOREM TypeCorrect ==
  ASSUME Undisturbed
  PROVE  Spec => []TypeOK
<1> DEFINE Inv == IInv /\ Called
<1>1. Init => Inv
  BY InitCalled
<1>2. Inv /\ [Next]_vars => Inv'
  BY StepKept, CalledKept
<1>3. Inv => TypeOK
  BY InvTypes
<1> HIDE DEF Inv
<1> QED BY <1>1, <1>2, <1>3, PTL DEF Spec

-----------------------------------------------------------------------------
(* The event channel keeps its promise to the device: each step is one of  *)
(* EventTransfer, or none.                                                 *)

TransferStep == [Transfer!Next]_(Transfer!vars)
ToldGrows ==
    told' = told \/ \E set \in Sets, no \in Nat : told' = Append(told, [set |-> set, no |-> no])

(* The numbers of the sets handed over. *)
Numbers == [i \in 1 .. Len(told) |-> told[i].no]

(* A set handed over adds its number. *)
LEMMA NumberAdded ==
  ASSUME TypeInv, NEW set \in Sets, NEW no \in Nat,
         told' = Append(told, [set |-> set, no |-> no])
  PROVE  Numbers' = Append(Numbers, no)
<1> DEFINE T == [set : Sets, no : Nat]
<1> DEFINE rec == [set |-> set, no |-> no]
<1>1. told \in Seq(T) /\ rec \in T /\ rec.no = no /\ told' = Append(told, rec)
  BY DEF TypeInv
<1>2. \A i \in 1 .. Len(told) : told[i].no \in Nat
  <2>1. \A i \in 1 .. Len(told) : told[i] \in T
    <3> HIDE DEF T
    <3> QED BY <1>1
  <2> QED BY <2>1
<1> HIDE DEF rec, T
<1>3. /\ Len(told) \in Nat /\ Len(told') = Len(told) + 1
      /\ told'[Len(told) + 1] = rec
      /\ \A i \in 1 .. Len(told) : told'[i] = told[i]
  BY <1>1
<1> DEFINE n == Len(told)
<1> DEFINE m == [i \in 1 .. n |-> told[i].no]
<1>4. Numbers' = [i \in 1 .. n + 1 |-> told'[i].no]
  BY <1>3 DEF Numbers
<1>5. \A i \in 1 .. n + 1 : told'[i].no = IF i = n + 1 THEN no ELSE told[i].no
  BY <1>1, <1>3
<1>6. m \in Seq(Nat) /\ Len(m) = n /\ \A i \in 1 .. n : m[i] = told[i].no
  <2>1. n \in Nat
    BY <1>3
  <2> HIDE DEF n
  <2> QED BY <1>2, <2>1 DEF n
<1>7. m = Numbers
  BY DEF Numbers
<1> HIDE DEF m
<1>8. Append(m, no) = [i \in 1 .. n + 1 |-> IF i = n + 1 THEN no ELSE m[i]]
  <2> HIDE DEF n
  <2>1. Append(m, no) \in Seq(Nat) /\ Len(Append(m, no)) = n + 1
    BY <1>6
  <2>2. \A i \in 1 .. n + 1 : Append(m, no)[i] = IF i = n + 1 THEN no ELSE m[i]
    BY <1>6
  <2> DEFINE a == Append(m, no)
  <2>3. a \in Seq(Nat) /\ Len(a) = n + 1
    BY <2>1
  <2>4. \A i \in 1 .. n + 1 : a[i] = IF i = n + 1 THEN no ELSE m[i]
    BY <2>2
  <2> HIDE DEF a
  <2>5. a \in [1 .. n + 1 -> Nat]
    BY <2>3
  <2>6. a = [i \in 1 .. n + 1 |-> a[i]]
    BY <2>5
  <2>7. a = [i \in 1 .. n + 1 |-> IF i = n + 1 THEN no ELSE m[i]]
    BY <2>4, <2>6
  <2> QED BY <2>7 DEF a
<1> QED BY <1>4, <1>5, <1>6, <1>7, <1>8

(* The last set handed over is the one pending, if it is owed.             *)
LEMMA LastHanded ==
  ASSUME TypeInv, Pending
  PROVE  Transfer!Last = Len(frozen) <=> Owed
<1> DEFINE T == [set : Sets, no : Nat]
<1>1. /\ told \in Seq(T) /\ Len(told) \in Nat
      /\ Len(frozen) \in Nat \ {0}
  BY StatusType DEF TypeInv
<1> HIDE DEF T
<1>2. CASE told = <<>>
  <2>1. Numbers = <<>>
    BY <1>2 DEF Numbers
  <2>2. Transfer!Last = 0
    BY <2>1 DEF Transfer!Last, Numbers
  <2> QED BY <1>1, <1>2, <2>2 DEF Owed
<1>3. CASE told # <<>>
  <2>1. Len(told) \in 1 .. Len(told)
    BY <1>1, <1>3
  <2> DEFINE n == Len(told)
  <2>2. n \in 1 .. n /\ n \in Nat
    BY <1>1, <2>1
  <2>3. Numbers = [i \in 1 .. n |-> told[i].no]
    BY DEF Numbers
  <2> HIDE DEF n
  <2>4. Len(Numbers) = n /\ Numbers[n] = told[n].no
    BY <2>2, <2>3
  <2>5. Numbers # <<>>
    BY <2>2, <2>4
  <2>6. Transfer!Last = Numbers[Len(Numbers)]
    BY <2>5 DEF Transfer!Last, Numbers
  <2> QED BY <1>3, <2>4, <2>6 DEF Owed, n
<1> QED BY <1>2, <1>3

(* What touches neither sets nor losses is no step.                        *)
LEMMA TransferStutters ==
  ASSUME UNCHANGED <<frozen, settled, told, lost>>, used'["restart"] = used["restart"]
  PROVE  TransferStep
BY DEF TransferStep, Transfer!vars

(* Other bounded events leave the count of restarts.                       *)
LEMMA OtherSpent ==
  ASSUME TypeInv, NEW bound, bound # "restart", Spend(bound)
  PROVE  used'["restart"] = used["restart"]
<1>1. used \in [DOMAIN Limit -> Nat] /\ used' = [used EXCEPT ![bound] = used[bound] + 1]
  BY DEF TypeInv, Spend
<1>2. "restart" \in DOMAIN Limit
  BY EventAssumption
<1> QED BY <1>1, <1>2

(* The confirmation reaches the device. *)
LEMMA ConfirmTransfers ==
  ASSUME IInv, Confirmed, settled' = Len(frozen), lost' \in {lost, TRUE},
         UNCHANGED <<frozen, told>>, used'["restart"] = used["restart"]
  PROVE  TransferStep
<1>1. TypeInv /\ Confirming(h, Pending, Owed, lost) /\ Pending /\ h.message = Confirm
  BY DEF IInv, DlInv, Confirmed
<1>2. Transfer!Last = Len(frozen)
  BY <1>1, LastHanded DEF Confirming
<1>3. settled < Len(frozen)
  BY <1>1 DEF Pending
<1>4. Transfer!Confirm
  BY <1>2, <1>3 DEF Transfer!Confirm
<1> QED BY <1>4 DEF TransferStep, Transfer!Next

(* The reply of the cyclic exchange: a confirmation is answered, a set is  *)
(* handed over, or neither.                                                *)
LEMMA Reply16Transfers ==
  ASSUME IInv, app = "idle", Reply16
  PROVE  TransferStep /\ ToldGrows
<1> DEFINE r == Device([h EXCEPT !.flag = Answered])
<1> DEFINE x == PL_MessageDownload_req(Master(r))
<1>1. /\ DlInv /\ TypeInv /\ h.mh = "AW_REPLY_16" /\ h.message # NoMessage
      /\ UNCHANGED <<al, frozen, reports, app, used>>
      /\ settled' = IF Confirmed THEN Len(frozen) ELSE settled
      /\ Confirming(h, Pending, Owed, lost)
  BY DEF IInv, DlInv, Reply16
<1>2. HandledQuietly(r) \/ HandledSet(r)
  BY <1>1, ReplyHandled
<1>3. Settle(x)
  BY DEF Reply16, Exchange, Answered
<1>4. Answered \in BOOLEAN
  BY <1>1, AnsweredNext
<1>5. Owed \in BOOLEAN /\ lost \in BOOLEAN /\ Len(frozen) \in Nat
  BY <1>1, StatusType DEF TypeInv, Owed
<1>6. used'["restart"] = used["restart"]
  BY <1>1
<1> HIDE DEF r
<1>7. CASE HandledQuietly(r)
  <2>1. /\ r \in HandlersWith({<<>>}) /\ Ready(r, Answered, Owed, lost, AnsweredCode)
        /\ r.mdh = "OPERATE" /\ r.mh = "AW_REPLY_16" /\ r.cycle /\ r.retry <= MaxRetry
    BY <1>7 DEF HandledQuietly, Handlers
  <2>2. x \in HandlersWith({<<>>})
    BY <1>4, <1>5, <2>1, CyclicSent
  <2> HIDE DEF x
  <2>3. told' = told /\ lost' = lost
    BY <1>1, <1>3, <2>2, SettleQuiet DEF Handlers
  <2>4. CASE Confirmed
    BY <1>1, <1>6, <2>3, <2>4, ConfirmTransfers DEF ToldGrows
  <2>5. CASE ~Confirmed
    BY <1>1, <1>6, <2>3, <2>5, TransferStutters DEF ToldGrows
  <2> QED BY <2>4, <2>5
<1>8. CASE HandledSet(r)
  <2> DEFINE n == Len(frozen)
  <2> DEFINE S == {<<Meant(n)>>}
  <2>1. /\ Pending /\ ~Confirmed /\ ~h.confirmation /\ h.message # Confirm
        /\ r \in HandlersWith(S) /\ Ready(r, TRUE, TRUE, FALSE, StatusCode)
        /\ r.mdh = "OPERATE" /\ r.mh = "AW_REPLY_16" /\ r.cycle /\ r.retry <= MaxRetry
    BY <1>8 DEF HandledSet, Ready
  <2>2. n \in 1 .. Len(frozen) /\ n \in Nat
    BY <1>1, <2>1, StatusType
  <2>3. Meant(n) \in Sets
    BY <1>1, <2>2, MeantSets DEF TypeInv
  <2> HIDE DEF S
  <2>4. x \in HandlersWith(S)
    BY <2>1, CyclicSent
  <2> HIDE DEF x
  <2>5. told' = Append(told, [set |-> Meant(n), no |-> n]) /\ lost' = FALSE
    BY <1>1, <1>3, <2>2, <2>4, SettleSet DEF S
  <2>6. Numbers' = Append(Numbers, n)
    BY <1>1, <2>2, <2>3, <2>5, NumberAdded
  <2>7. settled' = settled /\ settled < n
    BY <1>1, <2>1 DEF Pending
  <2>8. Transfer!Last = n => lost
    BY <1>1, <2>1, LastHanded DEF Confirming
  <2>9. Transfer!Hand
    BY <1>1, <1>6, <2>5, <2>6, <2>7, <2>8 DEF Transfer!Hand, Numbers
  <2>10. ToldGrows
    BY <2>2, <2>3, <2>5 DEF ToldGrows
  <2> QED BY <2>9, <2>10 DEF TransferStep, Transfer!Next
<1> QED BY <1>2, <1>7, <1>8

(* A message is lost: the device may have seen it, and be it the one that  *)
(* ends communication.                                                     *)
LEMMA LossTransfers ==
  ASSUME IInv, MessageLost
  PROVE  TransferStep
<1>1. TypeInv /\ used'["restart"] = used["restart"]
  <2>1. TypeInv /\ Spend("loss")
    BY DEF IInv, DlInv, MessageLost
  <2> QED BY <2>1, OtherSpent
<1>2. /\ UNCHANGED <<frozen, told, app>> /\ lost' \in {lost, TRUE}
      /\ settled' \in {settled, IF Confirmed THEN Len(frozen) ELSE settled}
  BY DEF MessageLost
<1>3. CASE settled' = settled /\ lost' = lost
  BY <1>1, <1>2, <1>3, TransferStutters
<1>4. CASE settled' = settled /\ lost' = TRUE
  <2>1. Transfer!Loss
    BY <1>1, <1>2, <1>4 DEF Transfer!Loss
  <2> QED BY <2>1 DEF TransferStep, Transfer!Next
<1>5. CASE settled' # settled
  <2>1. Confirmed /\ settled' = Len(frozen)
    BY <1>2, <1>5
  <2> QED BY <1>1, <1>2, <2>1, ConfirmTransfers
<1> QED BY <1>2, <1>3, <1>4, <1>5

(* The device raises a set, or forgets it. *)
LEMMA DeviceTransfers ==
  ASSUME IInv, Undisturbed, DeviceRestart \/ \E kind \in Kinds : Raise(kind)
  PROVE  TransferStep
<1>1. TypeInv /\ used \in [DOMAIN Limit -> Nat] /\ "restart" \in DOMAIN Limit
  BY EventAssumption DEF IInv, DlInv, TypeInv
<1>2. CASE DeviceRestart
  <2>1. UNCHANGED <<frozen, told, lost, app>> /\ settled' = Len(frozen) /\ Spend("restart")
    BY <1>2 DEF DeviceRestart
  <2>2. used'["restart"] = used["restart"] + 1
    BY <1>1, <2>1 DEF Spend
  <2>3. Transfer!Forget
    BY <2>1, <2>2 DEF Transfer!Forget
  <2> QED BY <2>3 DEF TransferStep, Transfer!Next
<1>3. ASSUME NEW kind \in Kinds, Raise(kind) PROVE TransferStep
  <2>1. /\ ~Pending /\ frozen' = Append(frozen, kind) /\ Spend("raise")
        /\ UNCHANGED <<settled, told, lost, app>>
    BY <1>3 DEF Raise
  <2>2. used'["restart"] = used["restart"]
    BY <1>1, <2>1, OtherSpent
  <2>3. Len(frozen') = Len(frozen) + 1
    BY <1>1, <2>1 DEF TypeInv
  <2>4. settled = Len(frozen)
    BY <1>1, <2>1 DEF TypeInv, Pending
  <2>5. Transfer!Raise
    BY <2>1, <2>2, <2>3, <2>4 DEF Transfer!Raise
  <2> QED BY <2>5 DEF TransferStep, Transfer!Next
<1> QED BY <1>2, <1>3

(* Every step of the event channel is one of its promise, or none.         *)
LEMMA StepTransfers ==
  ASSUME IInv, Called, Undisturbed, [Next]_vars
  PROVE  TransferStep /\ ToldGrows
<1>1. TypeInv
  BY DEF IInv, DlInv
<1>2. CASE DeviceRestart \/ \E kind \in Kinds : Raise(kind)
  <2>1. told' = told
    BY <1>2 DEF DeviceRestart, Raise
  <2> QED BY <1>2, <2>1, DeviceTransfers DEF ToldGrows
<1>3. CASE MessageLost
  <2>1. told' = told
    BY <1>3 DEF MessageLost
  <2> QED BY <1>3, <2>1, LossTransfers DEF ToldGrows
<1>4. CASE Reply16
  BY <1>4, NotCalling, Reply16Transfers DEF Reply16
<1>5. CASE Reply9 \/ Timeout \/ ModeHandler
  <2>1. Unsignalled
    <3>1. app = "idle"
      BY <1>5, NotCalling DEF Reply9, Timeout, ModeHandler
    <3> QED BY <1>5, <3>1, Reply9Kept, TimeoutKept, ModeHandlerKept
  <2>2. UNCHANGED <<frozen, settled, used>>
    BY <1>5 DEF Reply9, Timeout, ModeHandler, Run
  <2> QED BY <2>1, <2>2, TransferStutters DEF Unsignalled, ToldGrows
<1>6. CASE Preoperate6 \/ WakeUp \/ MainThread \/ Bringup \/ ControlCmd \/ UNCHANGED vars
  <2>1. UNCHANGED <<frozen, settled, told, lost, used>>
    BY <1>6 DEF ControlCmd, Preoperate6, WakeUp, MainThread, AlEventInd, AlEventRsp, Bringup, SmStartup,
                SmPreoperate, DL_Write_Devicemode_req, SmOperate, SmGiveUp, DL_SetMode_req, vars
  <2> QED BY <2>1, TransferStutters DEF ToldGrows
<1>7. CASE DL_Control_req \/ \E mode \in {"STARTUP", "INACTIVE"} : Reconfigure(mode)
  <2>1. UNCHANGED <<frozen, settled, told, lost>> /\ (Spend("control") \/ Spend("config"))
    BY <1>7 DEF DL_Control_req, Reconfigure, DL_SetMode_req
  <2>2. used'["restart"] = used["restart"]
    BY <1>1, <2>1, OtherSpent
  <2> QED BY <2>1, <2>2, TransferStutters DEF ToldGrows
<1> QED BY <1>2, <1>3, <1>4, <1>5, <1>6, <1>7 DEF Next, DlThread

(* Whatever the device raises and whatever is lost, the sets reach the AL  *)
(* whole and in their order, none is confirmed that has not been handed    *)
(* over, and none is handed over twice unless communication was lost: the  *)
(* safety part of ImplementsEventTransfer.                                 *)
THEOREM Transferred ==
  ASSUME Undisturbed
  PROVE  Spec => Transfer!Init /\ [][Transfer!Next]_(Transfer!vars)
<1> DEFINE Inv == IInv /\ Called
<1>1. Init => Inv
  BY InitCalled
<1>2. Inv /\ [Next]_vars => Inv'
  BY StepKept, CalledKept
<1>3. Init => Transfer!Init
  <2> SUFFICES ASSUME Init PROVE Transfer!Init
    OBVIOUS
  <2>1. /\ frozen = <<>> /\ settled = 0 /\ told = <<>> /\ lost = FALSE
        /\ used = [b \in DOMAIN Limit |-> 0]
    BY DEF Init
  <2>2. Len(frozen) = 0 /\ Numbers = <<>> /\ used["restart"] = 0
    BY <2>1, EventAssumption DEF Numbers
  <2> QED BY <2>1, <2>2 DEF Transfer!Init, Numbers
<1>4. Inv /\ [Next]_vars => [Transfer!Next]_(Transfer!vars)
  BY StepTransfers DEF TransferStep
<1> HIDE DEF Inv
<1> QED BY <1>1, <1>2, <1>3, <1>4, PTL DEF Spec

-----------------------------------------------------------------------------
(* The AL reports the sets as it was told them, if an upload request comes *)
(* first in its set: it searches every slot of its array, and finds one of *)
(* an earlier set unless the set it has now is in the same slot.           *)

UploadFirst == \A k \in Kinds : k.upload # MaxEvents => \A b \in k.bits : k.upload <= b

UploadIn(f, entry) ==
    \E no \in 1 .. Len(f) : f[no].upload # MaxEvents /\ entry = Details(no, f[no].upload)
EntryIn(f, n, i) ==
    LET slot == Ascending(f[n].bits)[i]
    IN  IF f[n].details THEN Details(n, slot) ELSE NoDetails(n, slot)

(* An entry with details is of one set and one slot, and of three octets.  *)
LEMMA DetailsDiffer ==
  ASSUME NEW n, NEW m, NEW u \in Nat, NEW v \in Nat
  PROVE  /\ Details(n, u) = Details(m, v) => (n = m /\ u = v)
         /\ NoDetails(n, u) # Details(m, v)
<1>1. ASSUME Details(n, u) = Details(m, v) PROVE n = m /\ u = v
  <2>1. Details(n, u)[1] = Octet(n, 3 * u + 1) /\ Details(m, v)[1] = Octet(m, 3 * v + 1)
    BY DEF Details
  <2>2. Octet(n, 3 * u + 1) = Octet(m, 3 * v + 1)
    BY <1>1, <2>1
  <2>3. n = m /\ 3 * u + 1 = 3 * v + 1
    BY <2>2 DEF Octet
  <2> QED BY <2>3
<1>2. DOMAIN Details(m, v) = 1 .. 3 /\ DOMAIN NoDetails(n, u) = 1 .. 1
  BY DEF Details, NoDetails
<1>3. NoDetails(n, u) # Details(m, v)
  BY <1>2
<1> QED BY <1>1, <1>3

(* A slot of the AL that was never filled holds none.                      *)
LEMMA NoneNoDetails ==
  ASSUME NEW m, NEW v
  PROVE  <<>> # Details(m, v)
<1>1. DOMAIN Details(m, v) = 1 .. 3 /\ 1 \in 1 .. 3
  BY DEF Details
<1> QED BY <1>1

(* Which entry of a set is an upload request, the set itself says.         *)
LEMMA UploadEntry ==
  ASSUME NEW f \in Seq(Kinds), NEW n \in 1 .. Len(f), NEW i \in 1 .. Len(Ascending(f[n].bits))
  PROVE  /\ UploadIn(f, EntryIn(f, n, i)) <=>
              /\ f[n].details /\ f[n].upload # MaxEvents
              /\ Ascending(f[n].bits)[i] = f[n].upload
         /\ UploadFirst /\ UploadIn(f, EntryIn(f, n, i)) => i = 1
<1> DEFINE slot == Ascending(f[n].bits)[i]
<1>1. f[n] \in Kinds /\ n \in Nat
  OBVIOUS
<1>2. f[n].bits \in SUBSET Nat /\ IsFiniteSet(f[n].bits)
  <2>1. f[n].bits \in SUBSET Slots
    BY <1>1, EventAssumption
  <2> QED BY <2>1, BitsOfSlots
<1>3. slot \in f[n].bits /\ Rank(f[n].bits, slot) = i - 1 /\ slot \in Nat
  BY <1>2, AscendingElements
<1>4. \A no \in 1 .. Len(f) : f[no].upload # MaxEvents => f[no].upload \in Nat
  <2> SUFFICES ASSUME NEW no \in 1 .. Len(f), f[no].upload # MaxEvents
               PROVE  f[no].upload \in Nat
    OBVIOUS
  <2>1. f[no] \in Kinds
    OBVIOUS
  <2>2. f[no].upload \in Slots
    BY <2>1, EventAssumption
  <2> QED BY <2>2, EventAssumption DEF Slots
<1> DEFINE entry == EntryIn(f, n, i)
<1>5. entry = IF f[n].details THEN Details(n, slot) ELSE NoDetails(n, slot)
  BY DEF EntryIn
<1> HIDE DEF entry, slot
<1>6. ASSUME UploadIn(f, entry)
      PROVE  f[n].details /\ f[n].upload # MaxEvents /\ slot = f[n].upload
  <2>1. PICK no \in 1 .. Len(f) : f[no].upload # MaxEvents /\ entry = Details(no, f[no].upload)
    BY <1>6 DEF UploadIn
  <2>2. f[no].upload \in Nat
    BY <1>4, <2>1
  <2> DEFINE t == f[no].upload
  <2>3. t \in Nat /\ entry = Details(no, t)
    BY <2>1, <2>2
  <2> HIDE DEF t
  <2>4. /\ Details(n, slot) = Details(no, t) => (n = no /\ slot = t)
        /\ NoDetails(n, slot) # Details(no, t)
    BY <1>3, <2>3, DetailsDiffer
  <2>5. f[n].details /\ n = no /\ slot = t
    BY <1>5, <2>3, <2>4
  <2> QED BY <2>1, <2>5 DEF t
<1>7. ASSUME f[n].details, f[n].upload # MaxEvents, slot = f[n].upload
      PROVE  UploadIn(f, entry)
  BY <1>5, <1>7 DEF UploadIn
<1>8. ASSUME UploadFirst, UploadIn(f, entry) PROVE i = 1
  <2>1. slot = f[n].upload /\ f[n].upload # MaxEvents
    BY <1>6, <1>8
  <2>2. \A b \in f[n].bits : slot <= b
    BY <1>1, <1>8, <2>1 DEF UploadFirst
  <2>3. {s \in f[n].bits : s < slot} = {}
    BY <1>2, <1>3, <2>2
  <2>4. Rank(f[n].bits, slot) = 0
    BY <2>3, FS_EmptySet DEF Rank
  <2> QED BY <1>3, <2>4
<1> QED BY <1>6, <1>7, <1>8 DEF entry, slot

(* Whether an entry of a set that was raised is an upload request.         *)
LEMMA UploadMeant ==
  ASSUME frozen \in Seq(Kinds), NEW n \in 1 .. Len(frozen), NEW i \in 1 .. Len(Meant(n))
  PROVE  /\ IsUpload(Meant(n)[i]) <=>
              /\ frozen[n].details /\ frozen[n].upload # MaxEvents
              /\ Ascending(frozen[n].bits)[i] = frozen[n].upload
         /\ UploadFirst /\ IsUpload(Meant(n)[i]) => i = 1
<1>1. Meant(n)[i] = EntryIn(frozen, n, i) /\ i \in 1 .. Len(Ascending(frozen[n].bits))
  BY MeantSets DEF EntryIn
<1>2. IsUpload(Meant(n)[i]) <=> UploadIn(frozen, EntryIn(frozen, n, i))
  BY <1>1 DEF IsUpload, UploadIn
<1> QED BY <1>1, <1>2, UploadEntry

(* A set raised later does not make one of an entry raised before.         *)
LEMMA UploadKept ==
  ASSUME frozen \in Seq(Kinds), NEW kind \in Kinds, frozen' = Append(frozen, kind),
         NEW n \in 1 .. Len(frozen), NEW i \in 1 .. Len(Meant(n))
  PROVE  UploadIn(frozen', Meant(n)[i]) <=> UploadIn(frozen, Meant(n)[i])
<1>1. /\ frozen' \in Seq(Kinds) /\ n \in 1 .. Len(frozen') /\ frozen'[n] = frozen[n]
      /\ Len(frozen) \in Nat
  OBVIOUS
<1>2. Meant(n)[i] = EntryIn(frozen, n, i) /\ i \in 1 .. Len(Ascending(frozen[n].bits))
  BY MeantSets DEF EntryIn
<1>3. EntryIn(frozen', n, i) = EntryIn(frozen, n, i)
  BY <1>1 DEF EntryIn
<1>4. UploadIn(frozen', EntryIn(frozen', n, i)) <=> UploadIn(frozen, EntryIn(frozen, n, i))
  <2> DEFINE g == frozen'
  <2>1. g \in Seq(Kinds) /\ n \in 1 .. Len(g) /\ g[n] = frozen[n]
    BY <1>1
  <2> HIDE DEF g
  <2>2. UploadIn(g, EntryIn(g, n, i)) <=>
          /\ g[n].details /\ g[n].upload # MaxEvents
          /\ Ascending(g[n].bits)[i] = g[n].upload
    BY <1>2, <2>1, UploadEntry
  <2>3. UploadIn(frozen, EntryIn(frozen, n, i)) <=>
          /\ frozen[n].details /\ frozen[n].upload # MaxEvents
          /\ Ascending(frozen[n].bits)[i] = frozen[n].upload
    BY <1>2, UploadEntry
  <2>4. UploadIn(g, EntryIn(g, n, i)) <=> UploadIn(frozen, EntryIn(frozen, n, i))
    BY <2>1, <2>2, <2>3
  <2> QED BY <2>4 DEF g
<1> QED BY <1>2, <1>3, <1>4

-----------------------------------------------------------------------------
(* What should be made of a set, given the sets that were raised.          *)
ExpectIn(f, set) ==
    IF \E i \in 1 .. Len(set) : UploadIn(f, set[i]) THEN DS_Upload ELSE Told(set)

(* It is what the property expects. *)
LEMMA ExpectIsIn ==
  ASSUME NEW set
  PROVE  Expect(set) = ExpectIn(frozen, set)
BY DEF Expect, ExpectIn, IsUpload, UploadIn

(* What is expected of a set that was told stays as it is.                 *)
LEMMA ExpectKept ==
  ASSUME frozen \in Seq(Kinds), frozen' = frozen \/ \E kind \in Kinds : frozen' = Append(frozen, kind),
         NEW n \in 1 .. Len(frozen)
  PROVE  ExpectIn(frozen', Meant(n)) = ExpectIn(frozen, Meant(n))
<1>1. CASE frozen' = frozen
  BY <1>1
<1>2. CASE \E kind \in Kinds : frozen' = Append(frozen, kind)
  <2>1. ASSUME NEW i \in 1 .. Len(Meant(n))
        PROVE  UploadIn(frozen', Meant(n)[i]) <=> UploadIn(frozen, Meant(n)[i])
    BY <1>2, UploadKept DEF IsUpload, UploadIn
  <2> QED BY <2>1 DEF ExpectIn
<1> QED BY <1>1, <1>2

-----------------------------------------------------------------------------
(* Every report is what should be made of the set that was told.           *)
Reporting ==
    \A i \in 1 .. Len(reports) : reports[i] = ExpectIn(frozen, told[i].set)

(* There are as many reports as sets, or one less.                         *)
LEMMA ReportsCounted ==
  ASSUME IInv
  PROVE  /\ Len(reports) \in Nat /\ Len(told) \in Nat
         /\ Len(reports) <= Len(told)
         /\ mbox = <<>> => Len(reports) = Len(told)
<1>1. Len(reports) \in Nat /\ Len(told) \in Nat
  BY DEF IInv, DlInv, TypeInv
<1>2. Len(reports) <= Len(told)
  BY <1>1 DEF IInv, Collection, Waiting, Answering, Gathering
<1>3. mbox = <<>> => Len(reports) = Len(told)
  BY IdleWaits DEF Waiting
<1> QED BY <1>1, <1>2, <1>3

(* The set that is complete is reported as it should be.                   *)
LEMMA CompleteReported ==
  ASSUME IInv, UploadFirst, AlEventInd, reports' # reports
  PROVE  /\ Gathering
         /\ reports' = Append(reports, ExpectIn(frozen, told[Len(told)].set))
<1> DEFINE set == told[Len(told)].set
<1> DEFINE k == al.cnt
<1>1. /\ Gathering /\ set \in Sets /\ Len(set) \in 1 .. MaxEvents
      /\ al'.cnt = k + 1
      /\ \A i \in 1 .. k + 1 : al'.events[i - 1] = set[i]
  BY EntryCollected
<1>2. k + 1 = Len(set) /\ reports' = Append(reports, Report(al'))
  BY EntryCollected
<1>3. frozen' = frozen /\ frozen \in Seq(Kinds) /\ SlotsKnown'
  BY EventIndKept DEF AlEventInd, IInv, DlInv, TypeInv
<1> DEFINE events == al'.events
<1> DEFINE L == Len(set)
<1>4. L \in Nat /\ L \in 1 .. MaxEvents /\ al'.cnt = L /\ \A i \in 1 .. L : events[i - 1] = set[i]
  BY <1>1, <1>2, EventAssumption, SMTT(40)
<1>5. \A i \in 1 .. L : i - 1 \in Slots
  BY <1>4, EventAssumption DEF Slots
<1>6. Collected(al') = set
  <2>1. Collected(al') = [i \in 1 .. L |-> events[i - 1]]
    BY <1>4 DEF Collected
  <2>2. set = [i \in 1 .. L |-> set[i]]
    BY <1>1 DEF Sets
  <2> HIDE DEF events, L, set
  <2> QED BY <1>4, <2>1, <2>2
<1>7. ASSUME NEW s \in Slots, IsUpload(events[s])
      PROVE  \E i \in 1 .. L : IsUpload(set[i])
  <2>1. events[s] # <<>>
    BY <1>7, NoneNoDetails DEF IsUpload
  <2>2. PICK n \in 1 .. Len(frozen) : s + 1 \in 1 .. Len(Meant(n)) /\ events[s] = Meant(n)[s + 1]
    <3>1. \E n \in 1 .. Len(frozen') : s + 1 \in 1 .. Len(Meant(n)') /\ events[s] = Meant(n)'[s + 1]
      BY <1>3, <2>1 DEF SlotsKnown
    <3>2. \A n : Meant(n)' = Meant(n)
      BY <1>3 DEF Meant
    <3> QED BY <1>3, <3>1, <3>2
  <2>3. s + 1 = 1
    BY <1>3, <1>7, <2>2, UploadMeant
  <2>4. s = 0
    BY <2>3, EventAssumption DEF Slots
  <2>5. 1 \in 1 .. L /\ events[0] = set[1]
    BY <1>4
  <2> QED BY <1>7, <2>4, <2>5
<1>8. ASSUME NEW i \in 1 .. L, IsUpload(set[i])
      PROVE  \E s \in Slots : IsUpload(events[s])
  BY <1>4, <1>5, <1>8
<1>9. Report(al') = Expect(set)
  <2> HIDE DEF events, set
  <2>1. (\E s \in Slots : IsUpload(events[s])) <=> \E i \in 1 .. Len(set) : IsUpload(set[i])
    BY <1>7, <1>8
  <2> QED BY <1>6, <2>1 DEF Report, Expect, events
<1> QED BY <1>1, <1>2, <1>9, ExpectIsIn

(* The reports hold, whatever step is taken.                               *)
LEMMA ReportingKept ==
  ASSUME IInv, Called, Reporting, Undisturbed, UploadFirst, [Next]_vars
  PROVE  Reporting'
<1> DEFINE T == [set : Sets, no : Nat]
<1> DEFINE R == [to : {"DS", "application"}, set : Sets]
<1>1. /\ Len(reports) \in Nat /\ Len(told) \in Nat /\ Len(reports) <= Len(told)
      /\ told \in Seq(T) /\ reports \in Seq(R) /\ frozen \in Seq(Kinds) /\ ToldMeant
  BY ReportsCounted DEF IInv, DlInv, TypeInv
<1>2. \A i \in 1 .. Len(told) : told'[i] = told[i]
  <2>1. ToldGrows
    BY StepTransfers
  <2>2. CASE told' = told
    BY <2>2
  <2>3. CASE told' # told
    <3>1. PICK rec \in T : told' = Append(told, rec)
      BY <2>1, <2>3 DEF ToldGrows
    <3> HIDE DEF T
    <3> QED BY <1>1, <3>1
  <2> QED BY <2>2, <2>3
<1>3. frozen' = frozen \/ \E kind \in Kinds : frozen' = Append(frozen, kind)
  BY DEF Next, Raise, DeviceRestart, MessageLost, DlThread, Reply9, Reply16, Preoperate6, Timeout,
         ModeHandler, Run, WakeUp, MainThread, AlEventInd, AlEventRsp, Bringup, SmStartup,
         SmPreoperate, DL_Write_Devicemode_req, SmOperate, SmGiveUp, DL_SetMode_req, Reconfigure,
         DL_Control_req, ControlCmd, vars
<1>4. \/ reports' = reports
      \/ /\ AlEventInd /\ Gathering
         /\ reports' = Append(reports, ExpectIn(frozen, told[Len(told)].set))
  <2>1. AlEventInd \/ reports' = reports
    BY DEF Next, Raise, DeviceRestart, MessageLost, DlThread, Reply9, Reply16, Preoperate6, Timeout,
           ModeHandler, Run, WakeUp, MainThread, AlEventRsp, Bringup, SmStartup,
           SmPreoperate, DL_Write_Devicemode_req, SmOperate, SmGiveUp, DL_SetMode_req,
           Reconfigure, DL_Control_req, ControlCmd, vars
  <2> QED BY <2>1, CompleteReported
<1>5. \A i \in 1 .. Len(told) : ExpectIn(frozen', told[i].set) = ExpectIn(frozen, told[i].set)
  <2> SUFFICES ASSUME NEW i \in 1 .. Len(told)
               PROVE  ExpectIn(frozen', told[i].set) = ExpectIn(frozen, told[i].set)
    OBVIOUS
  <2>1. told[i].no \in 1 .. Len(frozen) /\ told[i].set = Meant(told[i].no)
    BY <1>1 DEF ToldMeant
  <2> QED BY <1>1, <1>3, <2>1, ExpectKept
<1> HIDE DEF T, R
<1>6. CASE reports' = reports
  <2> SUFFICES ASSUME NEW i \in 1 .. Len(reports)
               PROVE  reports'[i] = ExpectIn(frozen', told'[i].set)
    BY <1>6 DEF Reporting
  <2>1. i \in 1 .. Len(told)
    BY <1>1
  <2> QED BY <1>2, <1>5, <1>6, <2>1 DEF Reporting
<1>7. CASE /\ AlEventInd /\ Gathering
           /\ reports' = Append(reports, ExpectIn(frozen, told[Len(told)].set))
  <2>1. Len(told) = Len(reports) + 1
    BY <1>7 DEF Gathering
  <2> DEFINE new == ExpectIn(frozen, told[Len(told)].set)
  <2>2. reports' = Append(reports, new)
    BY <1>7
  <2> HIDE DEF new
  <2>3. /\ Len(reports') = Len(told) /\ reports'[Len(told)] = new
        /\ \A i \in 1 .. Len(reports) : reports'[i] = reports[i]
    BY <1>1, <2>1, <2>2
  <2> SUFFICES ASSUME NEW i \in 1 .. Len(told)
               PROVE  reports'[i] = ExpectIn(frozen', told'[i].set)
    BY <2>3 DEF Reporting
  <2>4. told'[i].set = told[i].set /\ ExpectIn(frozen', told[i].set) = ExpectIn(frozen, told[i].set)
    BY <1>2, <1>5
  <2>5. reports'[i] = ExpectIn(frozen, told[i].set)
    <3>1. CASE i = Len(told)
      BY <2>3, <3>1 DEF new
    <3>2. CASE i # Len(told)
      <4>1. i \in 1 .. Len(reports)
        BY <1>1, <2>1, <3>2
      <4> QED BY <2>3, <4>1 DEF Reporting
    <3> QED BY <3>1, <3>2
  <2> QED BY <2>4, <2>5
<1> QED BY <1>4, <1>6, <1>7

(* The AL collects the entries of one set and reports them together, in    *)
(* the order of the sets, and none is left when the main thread is done;   *)
(* for sets whose upload request, if any, comes first: iolink_al.c         *)
(* searches the slots of earlier sets too.                                 *)
THEOREM Reported ==
  ASSUME Undisturbed, UploadFirst
  PROVE  Spec => []ReportedAsTold
<1> DEFINE Inv == IInv /\ Called /\ Reporting
<1>1. Init => Inv
  <2>1. Init => reports = <<>>
    BY DEF Init
  <2> QED BY <2>1, InitCalled DEF Reporting
<1>2. Inv /\ [Next]_vars => Inv'
  BY StepKept, CalledKept, ReportingKept
<1>3. Inv => ReportedAsTold
  <2> SUFFICES ASSUME Inv PROVE ReportedAsTold
    OBVIOUS
  <2>1. \A i \in 1 .. Len(reports) : reports[i] = Expect(told[i].set)
    BY ExpectIsIn DEF Reporting
  <2> QED BY <2>1, ReportsCounted DEF ReportedAsTold
<1> HIDE DEF Inv
<1> QED BY <1>1, <1>2, <1>3, PTL DEF Spec

=============================================================================

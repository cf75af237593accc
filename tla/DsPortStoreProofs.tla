-------------------------- MODULE DsPortStoreProofs --------------------------
(***************************************************************************)
(* DsPort with a port that is configured at rest (Orderly): the data       *)
(* storage writes a stored parameter only to the device the set belongs    *)
(* to, from the check of the identity to the last write of a parameter.    *)
(***************************************************************************)
EXTENDS DsPortProofs

-----------------------------------------------------------------------------
(* The sets that the application writes to the store are sets of a device. *)
OwnSets == \A s \in ServedSets : s.id # NoId

-----------------------------------------------------------------------------
(* The inductive invariant.                                                *)

(* The jobs that make the data storage work, or report that it has, and    *)
(* the kinds of jobs that say something of the device.                     *)
Works == {"DS_STARTUP", "DS_UPLOAD", "DS_READY", "SM_OPERATE"}
Vows  == Works \cup {"COMREADY", "AL_WRITE_REQ"}
Grave == Vows \cup {"READ", "DS_INIT", "DS_DELETE", "SMI_CFG", "SM_CFG"}

(* The SM has read the identity of the device on the line, port_info has   *)
(* it, too, and the DS keeps the set under it, if it restores any.         *)
Vetted == smReal.id = dev.id /\ portId = dev.id /\ (ds.download => ds.pending = dev.id)

(* The SM found the configured device. *)
Matches == smCfg.backup = "CHECK_NO" \/ smReal.id = smCfg.id

(* The device is being identified. *)
Starting == dl.mode = "STARTUP" \/ sm \in Reading \cup {"CheckVxy"}

(* The set that is restored is that of the device. *)
Fits == ds.download /\ master.id = dev.id

(* What jobs may say: these kinds, and a write of a parameter. *)
Allowed ==
    {t \in Works : Vetted /\ ~Starting}
    \cup {t \in {"COMREADY"} : smReal.id = dev.id /\ Matches /\ ~Starting}
    \cup {t \in {"PARAM_WRITE"} : Fits}

(* A job j says the truth about the device d, the block a the SM asked for *)
(* and the configuration c of the CM.                                      *)
Sound(j, ok, d, a, c) ==
    /\ Kind(j) \in Works \cup {"COMREADY"} => Kind(j) \in ok
    /\ Kind(j) = "READ" => /\ j.index = a
                           /\ j.index = "IDENT" => j.snap.id = d.id
                           /\ j.index = "COMM" => j.snap.rev = d.rev
    /\ Kind(j) = "DS_INIT" => j.cfg = c
    /\ Kind(j) = "SMI_CFG" => j.cfg \in Cfgs
    /\ Kind(j) = "AL_WRITE_REQ" /\ j.index \in Params => "PARAM_WRITE" \in ok

AllSound(q, ok, d, a, c) == \A i \in DOMAIN q : Sound(q[i], ok, d, a, c)
JobsSound == AllSound(mbox, Allowed, dev, smAux.addr, cmCfg)

(* What the CM tells the DS of a configuration is followed by what it      *)
(* tells the SM.                                                           *)
Announced(q) ==
    \A i \in DOMAIN q : Kind(q[i]) \in {"DS_INIT", "DS_DELETE"} =>
        \E k \in DOMAIN q : i < k /\ Kind(q[k]) = "SM_CFG"

(* When it is set up, the store has an identity or will have been cleared. *)
Cleared ==
    /\ NoneAfter("DS_INIT", {"DS_INIT", "DS_DELETE"}, mbox)
    /\ Waiting("DS_INIT") /\ master.valid /\ master.id = NoId => Waiting("DS_DELETE")

(* A DS that restores sets is set up for the configured device. *)
Named == ds.download => ds.pending = cmCfg.id /\ cmCfg.backup # "CHECK_NO"

(* The DS, or the SM behind it, works with the device. *)
Work == dsState \notin RestStates \/ sm \in {"write_master_cycl", "wait_devmode_cnf"}

PartsSound ==
    /\ Work => Vetted /\ ~Starting
    /\ sm = "SMOperate" /\ linked /\ ~Waiting("SM_CFG") => Vetted
    /\ sm \in {"waitonDLPreoperate", "waitonDLOperate", "checkSerNum"} => smReal.id = dev.id
    /\ Waiting("SMI_CFG") \/ Waiting("SM_CFG") => dsState \in RestStates /\ svc = NoSvc
    /\ cm = "SM_Startup" => /\ cmCfg \in Cfgs /\ cmCfg.mode \in {"IOL_MAN", "IOL_AUTO"}
                            /\ Waiting("DS_INIT") \/ Named

(* The mode the SM gave the DL, and where the DL is: only a device in      *)
(* OPERATE has a cycle in which it reports a change of its parameters.     *)
ModeSound ==
    /\ sm \in Reading \cup {"CheckVxy"} =>
          dl.mode \in {"STARTUP", "INACTIVE"} /\ dl.mdh \in {"IDLE", "STARTUP"}
    /\ sm \in {"PortInactive", "DIDO"} => dl.mode \in {"STARTUP", "INACTIVE"}
    /\ dl.mode = "PREOPERATE" => dl.mdh # "OPERATE"
    /\ sm = "waitonDLPreoperate" => dl.mode \in {"STARTUP", "PREOPERATE"}
    /\ sm \in {"waitonDLOperate", "checkSerNum", "wait"} => dl.mode # "INACTIVE"
    /\ sm = "InspectionFault" /\ dl.mode = "INACTIVE" => dl.mdh \in {"IDLE", "STARTUP"}

(* On the way to OPERATE without PREOPERATE the device is a V1.0 device,   *)
(* which reports nothing.                                                  *)
Legacy ==
    \/ sm \in {"CheckCompV10", "waitonDLOperate"}
    \/ sm \in {"checkSerNum", "wait", "InspectionFault"} /\ dl.mode = "OPERATE"

RevSound ==
    /\ sm = "waitonDLOperate" => smAux.addr = "OPERATE"
    /\ sm = "ReadComParameter" => smAux.addr = "COMM"
    /\ linked /\ Legacy => dev.rev = "V10"

(* The store while it is in use is that of the device, or empty. *)
StoreSound ==
    /\ ds.download /\ master.valid => master.id # NoId
    /\ dsState \notin RestStates => master.id \in {NoId, dev.id}
    /\ dsState \in DlStates => ds.download /\ master.valid
    /\ svc.dir = "write" /\ svc.index \in Params => Fits

StoreInv ==
    /\ JobsSound /\ Announced(mbox) /\ Cleared
    /\ PartsSound /\ ModeSound /\ RevSound /\ StoreSound

(* What the invariant says of ds stays. *)
DsSame == ds'.pending = ds.pending /\ ds'.download = ds.download

-----------------------------------------------------------------------------
(* Sound jobs.                                                             *)

(* A sequence stays sound when what its jobs speak of does.                *)
LEMMA SoundChanged ==
  ASSUME NEW q, NEW ok, NEW ok2, NEW d, NEW d2, NEW a, NEW a2, NEW c, NEW c2,
         AllSound(q, ok, d, a, c),
         ok \subseteq ok2 \/ ~Among(Vows, q),
         (d2.id = d.id /\ d2.rev = d.rev /\ a2 = a) \/ ~Among({"READ"}, q),
         c2 = c \/ ~Among({"DS_INIT"}, q)
  PROVE  AllSound(q, ok2, d2, a2, c2)
<1> SUFFICES ASSUME NEW i \in DOMAIN q PROVE Sound(q[i], ok2, d2, a2, c2)
  BY DEF AllSound
<1>1. Sound(q[i], ok, d, a, c)
  BY DEF AllSound
<1>2. \A K : ~Among(K, q) => Kind(q[i]) \notin K
  BY DEF Among
<1> DEFINE j == q[i]
<1> HIDE DEF j
<1>3. Sound(j, ok, d, a, c) /\ (\A K : ~Among(K, q) => Kind(j) \notin K)
  BY <1>1, <1>2 DEF j
<1>4. Kind(j) \in Works \cup {"COMREADY"} => Kind(j) \in ok2
  BY <1>3 DEF Sound, Vows
<1>5. Kind(j) = "AL_WRITE_REQ" /\ j.index \in Params => "PARAM_WRITE" \in ok2
  BY <1>3 DEF Sound, Vows
<1>6. Kind(j) = "READ" => /\ j.index = a2
                          /\ j.index = "IDENT" => j.snap.id = d2.id
                          /\ j.index = "COMM" => j.snap.rev = d2.rev
  BY <1>3 DEF Sound
<1>7. (Kind(j) = "DS_INIT" => j.cfg = c2) /\ (Kind(j) = "SMI_CFG" => j.cfg \in Cfgs)
  BY <1>3 DEF Sound
<1>8. Sound(j, ok2, d2, a2, c2)
  BY <1>4, <1>5, <1>6, <1>7 DEF Sound
<1> QED BY <1>8 DEF j

LEMMA SoundJoined ==
  ASSUME NEW S, NEW q \in Seq(S), NEW s \in Seq(S), NEW ok, NEW d, NEW a, NEW c,
         AllSound(q, ok, d, a, c), AllSound(s, ok, d, a, c)
  PROVE  AllSound(q \o s, ok, d, a, c)
<1> SUFFICES ASSUME NEW i \in DOMAIN (q \o s) PROVE Sound((q \o s)[i], ok, d, a, c)
  BY DEF AllSound
<1>1. \/ i \in DOMAIN q /\ (q \o s)[i] = q[i]
      \/ i - Len(q) \in DOMAIN s /\ (q \o s)[i] = s[i - Len(q)]
  BY Joined
<1> QED BY <1>1 DEF AllSound

LEMMA SoundTail ==
  ASSUME NEW S, NEW q \in Seq(S), q # <<>>, NEW ok, NEW d, NEW a, NEW c, AllSound(q, ok, d, a, c)
  PROVE  AllSound(Tail(q), ok, d, a, c) /\ Sound(Head(q), ok, d, a, c)
  BY TailFacts DEF AllSound

(* Most jobs say nothing that could be wrong. *)
LEMMA SoundNeutral ==
  ASSUME NEW s, NEW ok, NEW d, NEW a, NEW c, \A i \in DOMAIN s : Kind(s[i]) \notin Grave
  PROVE  AllSound(s, ok, d, a, c)
<1> SUFFICES ASSUME NEW i \in DOMAIN s PROVE Sound(s[i], ok, d, a, c)
  BY DEF AllSound
<1>1. Kind(s[i]) \notin Grave
  OBVIOUS
<1> DEFINE j == s[i]
<1> HIDE DEF j
<1>2. Kind(j) \notin Grave
  BY <1>1 DEF j
<1>3. Sound(j, ok, d, a, c)
  BY <1>2 DEF Sound, Grave, Vows
<1> QED BY <1>3 DEF j

LEMMA SoundOne ==
  ASSUME NEW x, NEW ok, NEW d, NEW a, NEW c
  PROVE  /\ AllSound(<<>>, ok, d, a, c)
         /\ Sound(x, ok, d, a, c) => AllSound(<<x>>, ok, d, a, c)
  BY DEF AllSound

LEMMA AnnouncedJoined ==
  ASSUME NEW S, NEW q \in Seq(S), NEW s \in Seq(S), Announced(q), Announced(s)
  PROVE  Announced(q \o s)
<1> SUFFICES ASSUME NEW i \in DOMAIN (q \o s), Kind((q \o s)[i]) \in {"DS_INIT", "DS_DELETE"}
             PROVE  \E k \in DOMAIN (q \o s) : i < k /\ Kind((q \o s)[k]) = "SM_CFG"
  BY DEF Announced
<1>1. CASE i <= Len(q)
  <2>1. i \in DOMAIN q /\ (q \o s)[i] = q[i]
    BY <1>1, Joined
  <2>2. PICK k \in DOMAIN q : i < k /\ Kind(q[k]) = "SM_CFG"
    BY <2>1 DEF Announced
  <2>3. k \in DOMAIN (q \o s) /\ (q \o s)[k] = q[k]
    BY Joined
  <2> QED BY <2>2, <2>3
<1>2. CASE ~(i <= Len(q))
  <2>1. i - Len(q) \in DOMAIN s /\ (q \o s)[i] = s[i - Len(q)] /\ i \in Nat
    BY <1>2, Joined
  <2>2. PICK k \in DOMAIN s : i - Len(q) < k /\ Kind(s[k]) = "SM_CFG"
    BY <2>1 DEF Announced
  <2>3. k + Len(q) \in DOMAIN (q \o s) /\ (q \o s)[k + Len(q)] = s[k] /\ k \in Nat /\ Len(q) \in Nat
    BY Joined
  <2>4. i < k + Len(q)
    BY <2>1, <2>2, <2>3
  <2> QED BY <2>2, <2>3, <2>4
<1> QED BY <1>1, <1>2

LEMMA AnnouncedTail ==
  ASSUME NEW S, NEW q \in Seq(S), q # <<>>, Announced(q)
  PROVE  /\ Announced(Tail(q))
         /\ Kind(Head(q)) \in {"DS_INIT", "DS_DELETE"} => Among({"SM_CFG"}, Tail(q))
<1>1. ASSUME NEW i \in DOMAIN q, Kind(q[i]) \in {"DS_INIT", "DS_DELETE"}
      PROVE  \E k \in DOMAIN Tail(q) : i < k + 1 /\ Kind(Tail(q)[k]) = "SM_CFG"
  <2>1. PICK k \in DOMAIN q : i < k /\ Kind(q[k]) = "SM_CFG"
    BY <1>1 DEF Announced
  <2>2. i \in Nat /\ k \in Nat /\ i >= 1
    OBVIOUS
  <2>3. k # 1
    BY <2>1, <2>2
  <2>4. k - 1 \in DOMAIN Tail(q) /\ Tail(q)[k - 1] = q[k]
    BY <2>3, TailFacts
  <2>5. i < (k - 1) + 1
    BY <2>1, <2>2
  <2> QED BY <2>1, <2>4, <2>5
<1>2. Announced(Tail(q))
  <2> SUFFICES ASSUME NEW i \in DOMAIN Tail(q), Kind(Tail(q)[i]) \in {"DS_INIT", "DS_DELETE"}
               PROVE  \E k \in DOMAIN Tail(q) : i < k /\ Kind(Tail(q)[k]) = "SM_CFG"
    BY DEF Announced
  <2>1. i + 1 \in DOMAIN q /\ Tail(q)[i] = q[i + 1]
    BY TailFacts
  <2>2. PICK k \in DOMAIN Tail(q) : i + 1 < k + 1 /\ Kind(Tail(q)[k]) = "SM_CFG"
    BY <1>1, <2>1
  <2>3. i < k
    BY <2>2
  <2> QED BY <2>2, <2>3
<1>3. Kind(Head(q)) \in {"DS_INIT", "DS_DELETE"} => Among({"SM_CFG"}, Tail(q))
  BY <1>1, TailFacts DEF Among
<1> QED BY <1>2, <1>3

LEMMA AnnouncedNone ==
  ASSUME NEW s, \A i \in DOMAIN s : Kind(s[i]) \notin {"DS_INIT", "DS_DELETE"}
  PROVE  Announced(s)
  BY DEF Announced

(* A step that keeps the jobs of q, which is the mailbox or what stands    *)
(* behind its head, and appends none that configures the port.             *)
Carried ==
    /\ JobsSound' /\ Announced(mbox)' /\ NoneAfter("DS_INIT", {"DS_INIT", "DS_DELETE"}, mbox)'
    /\ Waiting("DS_INIT")' => Waiting("DS_INIT")
    /\ Waiting("DS_DELETE") => Waiting("DS_DELETE")' \/ (mbox # <<>> /\ Kind(Head(mbox)) = "DS_DELETE")
    /\ Waiting("SMI_CFG")' \/ Waiting("SM_CFG")' => Waiting("SMI_CFG") \/ Waiting("SM_CFG")
    /\ Waiting("SM_CFG") => Waiting("SM_CFG")' \/ (mbox # <<>> /\ Kind(Head(mbox)) = "SM_CFG")
    /\ Waiting("DS_INIT") => Waiting("DS_INIT")' \/ (mbox # <<>> /\ Kind(Head(mbox)) = "DS_INIT")

LEMMA JobsCarried ==
  ASSUME MboxTyped, JobsSound, Announced(mbox), Cleared,
         NEW q \in Seq(PortJob), q = mbox \/ (mbox # <<>> /\ q = Tail(mbox)),
         NEW s \in Seq(PortJob), mbox' = q \o s,
         Allowed \subseteq Allowed' \/ ~Among(Vows, q),
         (dev'.id = dev.id /\ dev'.rev = dev.rev /\ smAux'.addr = smAux.addr) \/ ~Among({"READ"}, q),
         cmCfg' = cmCfg \/ ~Among({"DS_INIT"}, q),
         AllSound(s, Allowed', dev', smAux'.addr, cmCfg'),
         \A i \in DOMAIN s : Kind(s[i]) \notin {"SMI_CFG", "SM_CFG", "DS_INIT", "DS_DELETE"}
  PROVE  Carried
<1>1. mbox \in Seq(PortJob)
  BY DEF MboxTyped
<1>2. AllSound(q, Allowed, dev, smAux.addr, cmCfg)
  BY <1>1, SoundTail DEF JobsSound
<1>3. AllSound(q, Allowed', dev', smAux'.addr, cmCfg')
  BY <1>2, SoundChanged
<1>4. AllSound(mbox', Allowed', dev', smAux'.addr, cmCfg')
  BY <1>3, SoundJoined
<1>5. JobsSound'
  BY <1>4 DEF JobsSound
<1>6. Announced(q) /\ Announced(s)
  BY <1>1, AnnouncedTail, AnnouncedNone
<1>7. Announced(mbox')
  BY <1>6, AnnouncedJoined
<1>8. Announced(mbox)'
  BY <1>7
<1>9. \A K : /\ Among(K, q) => Among(K, mbox)
             /\ Among(K, mbox) => Among(K, q) \/ (mbox # <<>> /\ Kind(Head(mbox)) \in K)
  <2> TAKE K
  <2>1. mbox # <<>> => (Among(K, mbox) <=> Kind(Head(mbox)) \in K \/ Among(K, Tail(mbox)))
    BY <1>1, AmongTail
  <2> QED BY <2>1
<1>10. \A K : Among(K, mbox') <=> Among(K, q) \/ Among(K, s)
  BY AmongJoined
<1>11. /\ \A k \in {"SMI_CFG", "SM_CFG", "DS_INIT", "DS_DELETE"} : ~Among({k}, s)
       /\ ~Among({"DS_INIT", "DS_DELETE"}, s)
  BY DEF Among
<1>12. ASSUME NEW k \in {"SMI_CFG", "SM_CFG", "DS_INIT", "DS_DELETE"}
       PROVE  /\ Waiting(k)' => Waiting(k)
              /\ Waiting(k) => Waiting(k)' \/ (mbox # <<>> /\ Kind(Head(mbox)) = k)
  <2> DEFINE K == {k}
  <2>1. ~Among(K, s)
    BY <1>11
  <2>2. Kind(Head(mbox)) \in K <=> Kind(Head(mbox)) = k
    OBVIOUS
  <2> HIDE DEF K
  <2>3. /\ Among(K, mbox') => Among(K, mbox)
        /\ Among(K, mbox) => Among(K, mbox') \/ (mbox # <<>> /\ Kind(Head(mbox)) \in K)
    BY <1>9, <1>10, <2>1
  <2>4. /\ Among(K, mbox') => Among(K, mbox)
        /\ Among(K, mbox) => Among(K, mbox') \/ (mbox # <<>> /\ Kind(Head(mbox)) = k)
    BY <2>2, <2>3
  <2> QED BY <2>4 DEF Waiting, K
<1>13. /\ Waiting("SMI_CFG")' => Waiting("SMI_CFG")
       /\ Waiting("SM_CFG")' => Waiting("SM_CFG")
       /\ Waiting("DS_INIT")' => Waiting("DS_INIT")
       /\ Waiting("DS_DELETE") => Waiting("DS_DELETE")' \/ (mbox # <<>> /\ Kind(Head(mbox)) = "DS_DELETE")
       /\ Waiting("SM_CFG") => Waiting("SM_CFG")' \/ (mbox # <<>> /\ Kind(Head(mbox)) = "SM_CFG")
       /\ Waiting("DS_INIT") => Waiting("DS_INIT")' \/ (mbox # <<>> /\ Kind(Head(mbox)) = "DS_INIT")
  BY <1>12
<1>14. NoneAfter("DS_INIT", {"DS_INIT", "DS_DELETE"}, mbox)'
  <2> DEFINE K == {"DS_INIT", "DS_DELETE"}
  <2>1. NoneAfter("DS_INIT", K, mbox) /\ "DS_INIT" \in K /\ ~Among(K, s)
    BY <1>11 DEF Cleared
  <2> HIDE DEF K
  <2>2. NoneAfter("DS_INIT", K, q)
    BY <1>1, <2>1, AfterTail
  <2>3. NoneAfter("DS_INIT", K, mbox')
    BY <2>1, <2>2, AfterJoined
  <2> QED BY <2>3 DEF K
<1> QED BY <1>5, <1>8, <1>13, <1>14 DEF Carried

(* A store that is cleared in time stays so. *)
LEMMA ClearedKept ==
  ASSUME Cleared, Carried, mbox = <<>> \/ Kind(Head(mbox)) # "DS_DELETE" \/ Waiting("DS_DELETE")',
         (master'.valid = master.valid /\ master'.id = master.id) \/ ~Waiting("DS_INIT")
  PROVE  Cleared'
  BY DEF Cleared, Carried

(* What may be said stays so while what it rests on does. *)
LEMMA AllowedKept ==
  ASSUME Vetted /\ ~Starting => Vetted' /\ ~Starting',
         smReal.id = dev.id /\ Matches /\ ~Starting => smReal'.id = dev'.id /\ Matches' /\ ~Starting',
         Fits => Fits'
  PROVE  Allowed \subseteq Allowed'
  BY DEF Allowed

LEMMA AllowedFacts ==
    /\ \A t \in Works : t \in Allowed <=> Vetted /\ ~Starting
    /\ "COMREADY" \in Allowed <=> smReal.id = dev.id /\ Matches /\ ~Starting
    /\ "PARAM_WRITE" \in Allowed <=> Fits
  BY DEF Allowed, Works

(* A job of the kind k at the head of a sound mailbox. *)
LEMMA WorkHead ==
  ASSUME MboxTyped, JobsSound, mbox # <<>>
  PROVE  /\ Kind(Head(mbox)) \in Works => Vetted /\ ~Starting
         /\ Kind(Head(mbox)) = "COMREADY" => smReal.id = dev.id /\ Matches /\ ~Starting
         /\ Kind(Head(mbox)) = "READ" =>
               /\ Head(mbox).index = smAux.addr
               /\ Head(mbox).index = "IDENT" => Head(mbox).snap.id = dev.id
               /\ Head(mbox).index = "COMM" => Head(mbox).snap.rev = dev.rev
         /\ Kind(Head(mbox)) = "DS_INIT" => Head(mbox).cfg = cmCfg
         /\ Kind(Head(mbox)) = "SMI_CFG" => Head(mbox).cfg \in Cfgs
         /\ Kind(Head(mbox)) = "AL_WRITE_REQ" /\ Head(mbox).index \in Params => Fits
<1>1. Sound(Head(mbox), Allowed, dev, smAux.addr, cmCfg)
  BY SoundTail DEF MboxTyped, JobsSound
<1>2. /\ Kind(Head(mbox)) \in Works => Kind(Head(mbox)) \in Allowed
      /\ Kind(Head(mbox)) = "COMREADY" => "COMREADY" \in Allowed
      /\ Kind(Head(mbox)) = "AL_WRITE_REQ" /\ Head(mbox).index \in Params => "PARAM_WRITE" \in Allowed
  BY <1>1 DEF Sound
<1> QED BY <1>1, <1>2, AllowedFacts DEF Sound

-----------------------------------------------------------------------------
(* The DL, the device and the wire.                                        *)

(* What they leave alone. *)
LinkStill == UNCHANGED <<portId, cm, cmCfg, dsState, ds, master, sm, smCfg, smReal, smAux, svc>>

LEMMA LinkKeeps ==
  ASSUME TypeInv, PortInv, StoreInv, dl' \in DlRecord, PortInv', LinkStill,
         NEW s \in Seq(PortJob), mbox' = mbox \o s,
         dl'.mode = dl.mode, dl'.mdh \in {dl.mdh, "IDLE", "STARTUP", "ESTCOM", dl.mode},
         dev'.id = dev.id, dev'.rev = dev.rev \/ (~Waiting("READ") /\ ~Legacy),
         linked' => linked \/ sm = "PortInactive",
         AllSound(s, Allowed, dev', smAux.addr, cmCfg),
         \A i \in DOMAIN s : Kind(s[i]) \notin {"SMI_CFG", "SM_CFG", "DS_INIT", "DS_DELETE"}
  PROVE  StoreInv'
<1>1. /\ portId' = portId /\ cm' = cm /\ cmCfg' = cmCfg /\ dsState' = dsState /\ ds' = ds
      /\ master' = master /\ sm' = sm /\ smCfg' = smCfg /\ smReal' = smReal /\ smAux' = smAux
      /\ svc' = svc
  BY DEF LinkStill
<1>2. /\ (Vetted' <=> Vetted) /\ (Matches' <=> Matches) /\ (Starting' <=> Starting)
      /\ (Fits' <=> Fits) /\ (Named' <=> Named)
  BY <1>1 DEF Vetted, Matches, Starting, Fits, Named
<1>3. Allowed \subseteq Allowed'
  BY <1>1, <1>2, AllowedKept
<1>4. smAux'.addr = smAux.addr
  BY <1>1
<1>5. Carried
  <2>1. AllSound(s, Allowed', dev', smAux'.addr, cmCfg')
    BY <1>1, <1>3, <1>4, SoundChanged
  <2>2. MboxTyped /\ JobsSound /\ Announced(mbox) /\ Cleared /\ mbox \in Seq(PortJob)
    BY SmFacts DEF StoreInv, MboxTyped
  <2>3. (dev'.id = dev.id /\ dev'.rev = dev.rev /\ smAux'.addr = smAux.addr) \/ ~Among({"READ"}, mbox)
    BY <1>4 DEF Waiting
  <2> QED BY <1>1, <1>3, <2>1, <2>2, <2>3, JobsCarried
<1>6. ~Waiting("SM_CFG")' => ~Waiting("SM_CFG")
  <2>1. mbox' = mbox \o s /\ mbox \in Seq(PortJob)
    BY SmFacts DEF MboxTyped
  <2>2. Among({"SM_CFG"}, mbox) => Among({"SM_CFG"}, mbox')
    BY <2>1, AmongJoined
  <2> QED BY <2>2 DEF Waiting
<1>7. Waiting("DS_INIT") => Waiting("DS_INIT")'
  <2>1. mbox' = mbox \o s /\ mbox \in Seq(PortJob)
    BY SmFacts DEF MboxTyped
  <2>2. Among({"DS_INIT"}, mbox) => Among({"DS_INIT"}, mbox')
    BY <2>1, AmongJoined
  <2> QED BY <2>2 DEF Waiting
<1>71. Waiting("DS_DELETE") => Waiting("DS_DELETE")'
  <2>1. mbox' = mbox \o s /\ mbox \in Seq(PortJob)
    BY SmFacts DEF MboxTyped
  <2>2. Among({"DS_DELETE"}, mbox) => Among({"DS_DELETE"}, mbox')
    BY <2>1, AmongJoined
  <2> QED BY <2>2 DEF Waiting
<1>72. Cleared'
  <2>1. Cleared
    BY DEF StoreInv
  <2> QED BY <1>1, <1>5, <1>71, <2>1 DEF Cleared, Carried
<1>8. PartsSound'
  <2>1. Work' => Vetted' /\ ~Starting'
    BY <1>1, <1>2 DEF StoreInv, PartsSound, Work
  <2>2. sm' = "SMOperate" /\ linked' /\ ~Waiting("SM_CFG")' => Vetted'
    BY <1>1, <1>2, <1>6 DEF StoreInv, PartsSound
  <2>3. sm' \in {"waitonDLPreoperate", "waitonDLOperate", "checkSerNum"} => smReal'.id = dev'.id
    BY <1>1 DEF StoreInv, PartsSound
  <2>4. Waiting("SMI_CFG")' \/ Waiting("SM_CFG")' => dsState' \in RestStates /\ svc' = NoSvc
    BY <1>1, <1>5 DEF StoreInv, PartsSound, Carried
  <2>5. cm' = "SM_Startup" => /\ cmCfg' \in Cfgs /\ cmCfg'.mode \in {"IOL_MAN", "IOL_AUTO"}
                              /\ Waiting("DS_INIT")' \/ Named'
    BY <1>1, <1>2, <1>7 DEF StoreInv, PartsSound
  <2> QED BY <2>1, <2>2, <2>3, <2>4, <2>5 DEF PartsSound
<1>9. ModeSound'
  <2>1. dl'.mdh = "ESTCOM" => sm = "PortInactive" /\ dl.mode = "STARTUP"
    BY <1>1 DEF PortInv, Woken
  <2>2. /\ sm \in Reading \cup {"CheckVxy"} =>
              dl.mode \in {"STARTUP", "INACTIVE"} /\ dl.mdh \in {"IDLE", "STARTUP"}
        /\ sm \in {"PortInactive", "DIDO"} => dl.mode \in {"STARTUP", "INACTIVE"}
        /\ dl.mode = "PREOPERATE" => dl.mdh # "OPERATE"
        /\ sm = "waitonDLPreoperate" => dl.mode \in {"STARTUP", "PREOPERATE"}
        /\ sm \in {"waitonDLOperate", "checkSerNum", "wait"} => dl.mode # "INACTIVE"
        /\ sm = "InspectionFault" /\ dl.mode = "INACTIVE" => dl.mdh \in {"IDLE", "STARTUP"}
    BY DEF StoreInv, ModeSound
  <2>3. dl'.mdh \in Mdhs
    BY DlFacts
  <2>4. sm \in Reading \cup {"CheckVxy"} => dl'.mdh \in {"IDLE", "STARTUP"}
    BY <2>1, <2>2, <2>3 DEF Mdhs, Reading
  <2>5. dl.mode = "PREOPERATE" => dl'.mdh # "OPERATE"
    BY <2>2
  <2>6. sm = "InspectionFault" /\ dl.mode = "INACTIVE" => dl'.mdh \in {"IDLE", "STARTUP"}
    BY <2>1, <2>2, <2>3 DEF Mdhs
  <2> QED BY <1>1, <2>2, <2>4, <2>5, <2>6 DEF ModeSound
<1>10. RevSound'
  <2>1. Legacy' <=> Legacy
    BY <1>1 DEF Legacy
  <2>2. sm = "PortInactive" => ~Legacy
    BY DEF Legacy
  <2>3. linked' /\ Legacy' => dev'.rev = "V10"
    BY <2>1, <2>2 DEF StoreInv, RevSound
  <2> QED BY <1>1, <2>3 DEF StoreInv, RevSound
<1>11. StoreSound'
  BY <1>1, <1>2 DEF StoreInv, StoreSound
<1> QED BY <1>5, <1>72, <1>8, <1>9, <1>10, <1>11 DEF StoreInv, Carried

(* Jobs that say nothing of the device. *)
Mute == {s \in Seq(PortJob) : \A i \in DOMAIN s : Kind(s[i]) \notin Grave}

LEMMA MuteJoined ==
  ASSUME NEW s \in Mute, NEW t \in Mute PROVE s \o t \in Mute
<1>1. s \in Seq(PortJob) /\ t \in Seq(PortJob)
  BY DEF Mute
<1>2. s \o t \in Seq(PortJob)
  BY <1>1
<1>3. ASSUME NEW i \in DOMAIN (s \o t) PROVE Kind((s \o t)[i]) \notin Grave
  BY <1>1, Joined DEF Mute
<1> QED BY <1>2, <1>3 DEF Mute

LEMMA MuteOne ==
  ASSUME NEW x \in PortJob, Kind(x) \notin Grave PROVE <<x>> \in Mute
  BY DEF Mute

LEMMA MuteFacts ==
    /\ <<>> \in Mute
    /\ \A mode \in Modes4 : <<Signal(mode)>> \in Mute
    /\ \A res \in Results : <<DevmodeCnf(res)>> \in Mute /\ <<ParamCnf(res)>> \in Mute
    /\ \A res \in Results, snap \in Snapshot : <<IsduCnf(res, snap)>> \in Mute
    /\ \A d \in DlRecord : Settled(d) \in Mute /\ IsduFailed(d) \in Mute
    /\ \A d \in DlRecord, cmd \in Cmds : DevmodeAnswer(d, cmd) \in Mute
<1>1. <<>> \in Mute
  BY EmptyPost DEF Mute
<1>2. \A mode \in Modes4 : <<Signal(mode)>> \in Mute
  <2> TAKE mode \in Modes4
  <2>1. Signal(mode) \in PortJob /\ Kind(Signal(mode)) = mode
    BY ModeKinds
  <2>2. mode \notin Grave
    BY DEF Modes4, Grave, Vows, Works
  <2> QED BY <2>1, <2>2, MuteOne
<1>3. \A k \in {"DEVMODE_CNF", "PARAM_CNF", "ISDU_CNF"} : k \notin Grave
  BY DEF Grave, Vows, Works
<1>4. \A res \in Results : <<DevmodeCnf(res)>> \in Mute /\ <<ParamCnf(res)>> \in Mute
  BY <1>3, ModeKinds, MuteOne
<1>5. \A res \in Results, snap \in Snapshot : <<IsduCnf(res, snap)>> \in Mute
  BY <1>3, ModeKinds, MuteOne
<1>6. \A d \in DlRecord : Settled(d) \in Mute /\ IsduFailed(d) \in Mute
  BY <1>1, <1>4, <1>5, WildFacts, ResultNames DEF Settled, IsduFailed
<1>7. \A d \in DlRecord, cmd \in Cmds : DevmodeAnswer(d, cmd) \in Mute
  BY <1>1, <1>4, ResultNames DEF DevmodeAnswer
<1> QED BY <1>1, <1>2, <1>4, <1>5, <1>6, <1>7

LEMMA MuteSound ==
  ASSUME NEW s \in Mute, NEW ok, NEW d, NEW a, NEW c
  PROVE  /\ s \in Seq(PortJob) /\ AllSound(s, ok, d, a, c)
         /\ \A i \in DOMAIN s : Kind(s[i]) \notin {"SMI_CFG", "SM_CFG", "DS_INIT", "DS_DELETE"}
<1>1. s \in Seq(PortJob) /\ \A i \in DOMAIN s : Kind(s[i]) \notin Grave
  BY DEF Mute
<1>2. AllSound(s, ok, d, a, c)
  BY <1>1, SoundNeutral
<1>3. \A k : k \notin Grave => k \notin {"SMI_CFG", "SM_CFG", "DS_INIT", "DS_DELETE"}
  BY DEF Grave
<1> QED BY <1>1, <1>2, <1>3

(* The mode handler goes where its mode is, or starts over. *)
Moved ==
    /\ dl'.mode = dl.mode /\ dl'.mdh \in {dl.mdh, "IDLE", "STARTUP", "ESTCOM", dl.mode}
    /\ \E s \in Mute : mbox' = mbox \o s

LEMMA MovedIdle ==
  ASSUME ~Parallel, MboxTyped, NEW d \in DlRecord, d.mode = dl.mode,
         NEW mode \in {"MODE_INACTIVE", "MODE_COMLOST"}, GotoIdle(d, mode)
  PROVE  Moved
<1>1. dl'.mode = dl.mode /\ dl'.mdh = "IDLE"
  BY GoneIdle
<1>2. IsduFailed(d) \in Mute /\ <<Signal(mode)>> \in Mute
  BY MuteFacts DEF Modes4
<1>3. IsduFailed(d) \o <<Signal(mode)>> \in Mute
  BY <1>2, MuteJoined
<1>4. mbox' = mbox \o (IsduFailed(d) \o <<Signal(mode)>>)
  BY DEF GotoIdle, Interrupts, DlPost
<1> QED BY <1>1, <1>3, <1>4 DEF Moved

LEMMA MovedStartup ==
  ASSUME ~Parallel, MboxTyped, NEW d \in DlRecord, d.mode = dl.mode, GotoStartup(d)
  PROVE  Moved
<1> DEFINE told == MH_ConfStartup(d)
           moved == [told EXCEPT !.mdh = "STARTUP", !.left = "none"]
           off == OH_ConfInactive(moved)
<1>1. told \in DlRecord /\ told.mode = d.mode
  BY MhType, MhFields
<1> HIDE DEF told
<1>2. moved \in DlRecord /\ moved.mode = told.mode /\ moved.mdh = "STARTUP"
  <2>1. moved \in DlRecord
    BY <1>1, DlMoreFields, DlNames
  <2>2. moved.mode = told.mode /\ moved.mdh = "STARTUP"
    BY <1>1, DlShape
  <2> QED BY <2>1, <2>2
<1> HIDE DEF moved
<1>3. off \in DlRecord /\ off.mode = moved.mode /\ off.mdh = moved.mdh
  BY <1>2, OhType, OhFields
<1> HIDE DEF off
<1>4. IH_ConfInactive(off).mode = off.mode /\ IH_ConfInactive(off).mdh = off.mdh
  BY <1>3, IhFields
<1>5. dl' = IH_ConfInactive(off) /\ mbox' = mbox \o (IsduFailed(d) \o <<Signal("MODE_STARTUP")>>)
  BY DEF GotoStartup, Interrupts, InStartup, DlPost, off, moved, told
<1>6. IsduFailed(d) \in Mute /\ <<Signal("MODE_STARTUP")>> \in Mute
  BY MuteFacts DEF Modes4
<1>7. IsduFailed(d) \o <<Signal("MODE_STARTUP")>> \in Mute
  BY <1>6, MuteJoined
<1> QED BY <1>1, <1>2, <1>3, <1>4, <1>5, <1>7 DEF Moved

LEMMA MovedOperate ==
  ASSUME MboxTyped, NEW d \in DlRecord, d.mode = dl.mode, dl.mode = "OPERATE", NEW s \in Mute,
         GotoOperate(d, s)
  PROVE  Moved
<1> DEFINE told == MH_ConfOperate(d)
           moved == [told EXCEPT !.mdh = "OPERATE"]
<1>1. told \in DlRecord /\ told.mode = d.mode
  BY MhType, MhFields
<1> HIDE DEF told
<1>2. moved.mode = told.mode /\ moved.mdh = "OPERATE"
  BY <1>1, DlShape
<1>3. dl' = moved /\ mbox' = mbox \o (s \o <<Signal("MODE_OPERATE")>>)
  BY DEF GotoOperate, DlPost, told
<1>4. s \o <<Signal("MODE_OPERATE")>> \in Mute
  BY MuteFacts, MuteJoined DEF Modes4
<1> QED BY <1>1, <1>2, <1>3, <1>4 DEF Moved

LEMMA ModeHandlerMoves ==
  ASSUME ~Parallel, MboxTyped, dl \in DlRecord, ModeHandler PROVE Moved
<1>1. /\ Handled \in DlRecord /\ Handled.mode = dl.mode /\ Handled.mdh = dl.mdh
  BY HandledFields
<1>2. <<>> \in Mute
  BY MuteFacts
<1>3. CASE Idle0
  <2>1. mbox' = mbox \o <<>> /\ (dl' = Handled \/ dl' = [Handled EXCEPT !.mdh = "ESTCOM", !.wurq = TRUE])
    BY <1>3 DEF Idle0, DlPost
  <2> DEFINE h == Handled
  <2> HIDE DEF h
  <2>2. [h EXCEPT !.mdh = "ESTCOM", !.wurq = TRUE].mode = h.mode /\ [h EXCEPT !.mdh = "ESTCOM", !.wurq = TRUE].mdh = "ESTCOM"
    BY <1>1, DlShape DEF h
  <2>3. dl'.mode = dl.mode /\ dl'.mdh \in {dl.mdh, "ESTCOM"}
    BY <1>1, <2>1, <2>2 DEF h
  <2> QED BY <1>2, <2>1, <2>3 DEF Moved
<1>4. CASE EstablishCom1
  <2>1. mbox' = mbox \o <<>> /\ dl' = Handled
    BY <1>4 DEF EstablishCom1, DlPost
  <2> QED BY <1>1, <1>2, <2>1 DEF Moved
<1>5. DlPost(Handled, <<>>) => Moved
  BY <1>1, <1>2 DEF Moved, DlPost
<1>6. CASE Startup2
  <2>1. CASE /\ dl.mode = "PREOPERATE"
             /\ DlPost([MH_ConfPreoperate(OH_ConfActive(Handled)) EXCEPT !.mdh = "PREOPERATE"],
                       Settled(dl) \o <<Signal("MODE_PREOPERATE")>>)
    <3> DEFINE on == OH_ConfActive(Handled)
               told == MH_ConfPreoperate(on)
               moved == [told EXCEPT !.mdh = "PREOPERATE"]
    <3>1. on \in DlRecord /\ on.mode = dl.mode
      BY <1>1, OhType, OhFields
    <3> HIDE DEF on
    <3>2. told \in DlRecord /\ told.mode = dl.mode
      BY <3>1, MhType, MhFields
    <3> HIDE DEF told
    <3>3. moved.mode = dl.mode /\ moved.mdh = "PREOPERATE"
      BY <3>2, DlShape
    <3>4. Settled(dl) \o <<Signal("MODE_PREOPERATE")>> \in Mute
      BY MuteFacts, MuteJoined DEF Modes4
    <3>5. dl' = moved /\ mbox' = mbox \o (Settled(dl) \o <<Signal("MODE_PREOPERATE")>>)
      BY <2>1 DEF DlPost, on, told
    <3> QED BY <2>1, <3>3, <3>4, <3>5 DEF Moved
  <2>2. CASE dl.mode = "OPERATE" /\ GotoOperate(OH_ConfActive(Handled), Settled(dl))
    <3>1. OH_ConfActive(Handled) \in DlRecord /\ OH_ConfActive(Handled).mode = dl.mode
      BY <1>1, OhType, OhFields
    <3>2. Settled(dl) \in Mute
      BY MuteFacts
    <3> QED BY <2>2, <3>1, <3>2, MovedOperate
  <2>3. CASE GotoIdle(Handled, "MODE_INACTIVE") \/ GotoIdle(Handled, "MODE_COMLOST")
    BY <1>1, <2>3, MovedIdle
  <2> QED BY <1>5, <1>6, <2>1, <2>2, <2>3 DEF Startup2
<1>7. CH_Conf(Handled, FALSE) \in DlRecord /\ CH_Conf(Handled, FALSE).mode = dl.mode
  BY <1>1, CH_ConfType, CH_ConfFields, DlNames
<1>8. CASE Preoperate3
  <2>1. CASE GotoStartup(CH_Conf(Handled, FALSE))
    BY <1>7, <2>1, MovedStartup
  <2>2. CASE DlPost(MH_ConfOperate(Handled), <<>>)
    <3>1. MH_ConfOperate(Handled).mode = dl.mode /\ MH_ConfOperate(Handled).mdh = dl.mdh
      BY <1>1, MhFields
    <3> QED BY <1>2, <2>2, <3>1 DEF Moved, DlPost
  <2>3. CASE GotoIdle(Handled, "MODE_COMLOST")
    BY <1>1, <2>3, MovedIdle
  <2>4. CASE dl.mode = "OPERATE" /\ GotoOperate(Handled, <<>>)
    BY <1>1, <1>2, <2>4, MovedOperate
  <2> QED BY <1>5, <1>8, <2>1, <2>2, <2>3, <2>4 DEF Preoperate3
<1>9. CASE Operate4
  <2>1. GotoStartup(Handled) => Moved
    BY <1>1, MovedStartup
  <2>2. GotoIdle(Handled, "MODE_INACTIVE") \/ GotoIdle(Handled, "MODE_COMLOST") => Moved
    BY <1>1, MovedIdle
  <2> QED BY <1>5, <1>9, <2>1, <2>2 DEF Operate4
<1> QED BY <1>3, <1>4, <1>6, <1>8, <1>9 DEF ModeHandler

LEMMA ExchangeMoves ==
  ASSUME ~Parallel, MboxTyped, dl \in DlRecord, ParamDone \/ CommandSent \/ CommandDone
  PROVE  Moved /\ (linked' => linked)
<1> DEFINE got == Received(dl)
<1>1. got \in DlRecord /\ got.mdh = dl.mdh /\ got.mode = dl.mode
  BY ReceivedType, ReceivedFields
<1>2. <<>> \in Mute /\ <<ParamCnf("OK")>> \in Mute /\ Settled(dl) \in Mute
  BY MuteFacts, ResultNames
<1>3. CmdHandler(got) \in DlRecord /\ CmdHandler(got).mdh = dl.mdh /\ CmdHandler(got).mode = dl.mode
  BY <1>1, CmdHandlerType, CmdHandlerFields
<1>4. mbox \o <<>> = mbox
  BY DEF MboxTyped
<1>5. CASE ParamDone
  <2>1. /\ dl' = [got EXCEPT !.rw = "none"] /\ mbox' = mbox \o <<ParamCnf("OK")>> /\ UNCHANGED linked
    BY <1>5 DEF ParamDone, Confirmed, DlPost
  <2> HIDE DEF got
  <2>2. dl'.mode = dl.mode /\ dl'.mdh = dl.mdh
    BY <1>1, <2>1, DlShape
  <2> QED BY <1>2, <2>1, <2>2 DEF Moved
<1>6. CASE CommandSent
  <2>1. /\ dl' = [CmdHandler(got) EXCEPT !.odh = "COMMAND"] /\ mbox' = mbox /\ UNCHANGED linked
    BY <1>6 DEF CommandSent
  <2> HIDE DEF got
  <2>2. dl'.mode = dl.mode /\ dl'.mdh = dl.mdh
    BY <1>3, <2>1, DlShape
  <2> QED BY <1>2, <1>4, <2>1, <2>2 DEF Moved
<1>7. CASE CommandDone
  <2>1. /\ dl' = [got EXCEPT !.odh = "ISDU", !.cmd = "NONE"] /\ mbox' = mbox \o Settled(dl) /\ linked
    BY <1>7 DEF CommandDone, DlPost, OdExchange
  <2> HIDE DEF got
  <2>2. dl'.mode = dl.mode /\ dl'.mdh = dl.mdh
    BY <1>1, <2>1, DlShape
  <2> QED BY <1>2, <2>1, <2>2 DEF Moved
<1> QED BY <1>5, <1>6, <1>7

(* A block that was not answered is not one of those that were read. *)
LEMMA BlockMute ==
  ASSUME NEW rw \in {"read", "write"}, NEW block \in Blocks, NEW res \in Results \ {"OK"},
         NEW snap \in Snapshot
  PROVE  <<BlockCnf(rw, block, res, snap)>> \in Mute
<1> DEFINE cnf == BlockCnf(rw, block, res, snap)
<1>1. cnf \in PortJob
  BY CnfIsJob DEF BlockCnf, Answers
<1>2. Kind(cnf) \in {"STRAY", "NOT_READ", "NOT_WRITTEN"}
  BY DEF BlockCnf, Cnf, Signal, Kind, Requests
<1>3. Kind(cnf) \notin Grave
  BY <1>2 DEF Grave, Vows, Works
<1> QED BY <1>1, <1>3, MuteOne

LEMMA LostMoves ==
  ASSUME MboxTyped, dl \in DlRecord, NEW addr \in Blocks, MessageLost(addr)
  PROVE  Moved /\ (linked' => linked)
<1> DEFINE quiet == [GaveUp EXCEPT !.cmd = "NONE"]
<1>1. /\ GaveUp.mode = dl.mode /\ GaveUp.mdh = dl.mdh
      /\ quiet.mode = dl.mode /\ quiet.mdh = dl.mdh
  BY GaveUpFields
<1> HIDE DEF quiet
<1>2. <<>> \in Mute /\ <<DevmodeCnf("ERR")>> \in Mute /\ <<ParamCnf("ERR")>> \in Mute
  BY MuteFacts, ResultNames
<1>3. CASE StartupLost(addr)
  <2>1. <<BlockCnf(dl.rw, addr, "ERR", NoSnap)>> \in Mute
    BY <1>3, BlockMute, ResultNames, WildFacts DEF StartupLost
  <2>2. dl' = GaveUp /\ mbox' = mbox \o <<BlockCnf(dl.rw, addr, "ERR", NoSnap)>>
    BY <1>3 DEF StartupLost, DlPost
  <2> QED BY <1>1, <2>1, <2>2 DEF Moved, MessageLost
<1>4. CASE ExchangeLost
  <2> DEFINE first == IF dl.cmd # "NONE" THEN <<DevmodeCnf("ERR")>> ELSE <<>>
             then == IF dl.rw = "param" THEN <<ParamCnf("ERR")>> ELSE <<>>
  <2>1. first \in Mute /\ then \in Mute
    BY <1>2
  <2>2. dl' = quiet /\ mbox' = mbox \o (first \o then)
    BY <1>4 DEF ExchangeLost, DlPost, quiet
  <2>3. first \o then \in Mute
    BY <2>1, MuteJoined
  <2> QED BY <1>1, <2>2, <2>3 DEF Moved, MessageLost
<1>5. CASE CycleLost
  <2>1. dl' = GaveUp /\ mbox' = mbox \o <<>>
    BY <1>5 DEF CycleLost, DlPost
  <2> QED BY <1>1, <1>2, <2>1 DEF Moved, MessageLost
<1> QED BY <1>3, <1>4, <1>5 DEF MessageLost

LEMMA MovedKeepsStore ==
  ASSUME TypeInv, PortInv, StoreInv, dl' \in DlRecord, PortInv', LinkStill, Moved, UNCHANGED dev,
         linked' => linked
  PROVE  StoreInv'
<1>1. PICK s \in Mute : mbox' = mbox \o s
  BY DEF Moved
<1>2. /\ s \in Seq(PortJob) /\ AllSound(s, Allowed, dev', smAux.addr, cmCfg)
      /\ \A i \in DOMAIN s : Kind(s[i]) \notin {"SMI_CFG", "SM_CFG", "DS_INIT", "DS_DELETE"}
  BY MuteSound
<1>3. dl'.mode = dl.mode /\ dl'.mdh \in {dl.mdh, "IDLE", "STARTUP", "ESTCOM", dl.mode}
  BY DEF Moved
<1> QED BY <1>1, <1>2, <1>3, LinkKeeps

LEMMA DlStepStore ==
  ASSUME ~Parallel, TypeInv, PortInv, StoreInv, dl' \in DlRecord, PortInv', DlStep
  PROVE  StoreInv'
<1>1. MboxTyped /\ dl \in DlRecord /\ smAux.addr \in Blocks
  BY SmFacts
<1>2. LinkStill /\ UNCHANGED dev
  BY DEF LinkStill, DlStep, cmVars, dsVars, smVars, envVars
<1>3. Moved /\ (linked' => linked)
  <2>1. ModeHandler => Moved /\ (linked' => linked)
    BY <1>1, ModeHandlerMoves DEF ModeHandler
  <2>2. ParamDone \/ CommandSent \/ CommandDone => Moved /\ (linked' => linked)
    BY <1>1, ExchangeMoves
  <2>3. MessageLost(smAux.addr) => Moved /\ (linked' => linked)
    BY <1>1, LostMoves
  <2>4. ~Leave /\ ~DlClear
    <3>1. dl.left = "none"
      BY <1>1, DlFacts
    <3> QED BY <3>1 DEF Leave, DlClear, Leaves, Clears
  <2> QED BY <2>1, <2>2, <2>3, <2>4 DEF DlStep
<1> QED BY <1>2, <1>3, MovedKeepsStore

LEMMA WakeUpStore ==
  ASSUME TypeInv, PortInv, StoreInv, dl' \in DlRecord, PortInv', DlWakeUp
  PROVE  StoreInv'
<1> DEFINE cnf == BlockCnf("read", smAux.addr, "OK", NoSnap)
           got == Received(dl)
           woken == [got EXCEPT !.wurq = FALSE, !.mdh = "STARTUP", !.mh = "STARTUP"]
<1>1. /\ dl \in DlRecord /\ got \in DlRecord /\ got.mode = dl.mode
  BY SmFacts, ReceivedType, ReceivedFields
<1>2. /\ dl.wurq /\ dl' = CH_Conf(woken, TRUE) /\ mbox' = mbox \o <<cnf, Signal("MODE_STARTUP")>>
      /\ dev' = [dev EXCEPT !.mode = "idle", !.rev = Native(dev.id)] /\ LinkStill
  BY DEF DlWakeUp, WakeUp, DlPost, LinkStill, cmVars, dsVars, smVars
<1> HIDE DEF got
<1>3. woken \in DlRecord /\ woken.mode = dl.mode /\ woken.mdh = "STARTUP"
  <2>1. woken \in DlRecord
    BY <1>1, DlMoreFields, DlNames
  <2>2. woken.mode = dl.mode /\ woken.mdh = "STARTUP"
    BY <1>1, DlShape
  <2> QED BY <2>1, <2>2
<1> HIDE DEF woken
<1>4. dl'.mode = dl.mode /\ dl'.mdh = "STARTUP"
  BY <1>2, <1>3, CH_ConfFields, DlNames
<1>5. sm = "PortInactive" /\ smAux.addr = "WURQ" /\ dl.mdh = "ESTCOM"
  BY <1>2 DEF PortInv, DlSound, Woken
<1>6. <<cnf, Signal("MODE_STARTUP")>> \in Mute
  <2>1. cnf \in PortJob
    BY <1>5, CnfIsJob, ResultNames, BlockNames, WildFacts DEF BlockCnf, Answers
  <2>2. Kind(cnf) = "WURQ"
    BY <1>5, CnfKind
  <2>3. "WURQ" \notin Grave
    BY DEF Grave, Vows, Works
  <2> HIDE DEF cnf
  <2>4. <<cnf>> \in Mute /\ <<Signal("MODE_STARTUP")>> \in Mute
    BY <2>1, <2>2, <2>3, MuteOne, MuteFacts DEF Modes4
  <2>5. <<cnf>> \o <<Signal("MODE_STARTUP")>> \in Mute
    BY <2>4, MuteJoined
  <2> QED BY <2>5, PairJoined
<1> HIDE DEF cnf
<1>7. ~Waiting("READ") /\ ~Legacy
  <2>1. ~Among(Granted, mbox)
    BY <1>5 DEF PortInv, Asking, Ready
  <2>2. ~Among({"READ"}, mbox)
    BY <2>1 DEF Among, Granted
  <2> QED BY <1>5, <2>2 DEF Waiting, Legacy
<1>8. dev'.id = dev.id
  BY <1>2, DevFacts DEF Device
<1> DEFINE s == <<cnf, Signal("MODE_STARTUP")>>
<1>9. s \in Mute /\ mbox' = mbox \o s
  BY <1>2, <1>6
<1> HIDE DEF s
<1>10. /\ s \in Seq(PortJob) /\ AllSound(s, Allowed, dev', smAux.addr, cmCfg)
       /\ \A i \in DOMAIN s : Kind(s[i]) \notin {"SMI_CFG", "SM_CFG", "DS_INIT", "DS_DELETE"}
  BY <1>9, MuteSound
<1> QED BY <1>2, <1>4, <1>5, <1>7, <1>8, <1>9, <1>10, LinkKeeps

LEMMA WakeUpFailedStore ==
  ASSUME TypeInv, PortInv, StoreInv, dl' \in DlRecord, PortInv', DlWakeUpFailed
  PROVE  StoreInv'
<1> DEFINE got == Received(dl)
           idle == [got EXCEPT !.wurq = FALSE, !.mdh = "IDLE", !.lost = FALSE]
<1>1. /\ dl \in DlRecord /\ got \in DlRecord /\ got.mode = dl.mode
  BY SmFacts, ReceivedType, ReceivedFields
<1>2. /\ dl' = idle /\ mbox' = mbox \o <<Signal("MODE_INACTIVE")>> /\ LinkStill /\ UNCHANGED dev /\ ~linked'
  BY DEF DlWakeUpFailed, WakeUpFailed, DlPost, LinkStill, cmVars, dsVars, smVars
<1> HIDE DEF got
<1>3. idle.mode = dl.mode /\ idle.mdh = "IDLE"
  BY <1>1, DlShape
<1>4. <<Signal("MODE_INACTIVE")>> \in Mute
  BY MuteFacts DEF Modes4
<1>5. Moved
  BY <1>2, <1>3, <1>4 DEF Moved
<1> QED BY <1>2, <1>5, MovedKeepsStore

LEMMA BlockDoneStore ==
  ASSUME TypeInv, PortInv, StoreInv, dl' \in DlRecord, PortInv', DlBlockDone
  PROVE  StoreInv'
<1> DEFINE snap == IF dl.rw = "read" THEN Direct ELSE NoSnap
           cnf == BlockCnf(dl.rw, smAux.addr, "OK", snap)
<1>1. dl \in DlRecord /\ Received(dl) \in DlRecord /\ smAux.addr \in Blocks
  BY SmFacts, ReceivedType
<1>2. /\ BlockOut /\ linked /\ UNCHANGED linked /\ dl' = [Received(dl) EXCEPT !.rw = "none"]
      /\ mbox' = mbox \o <<cnf>> /\ LinkStill
      /\ \/ UNCHANGED dev
         \/ /\ dl.rw = "write" /\ smAux.addr = "RESTART"
            /\ dev' = [dev EXCEPT !.rev = CfgRev(smCfg)]
  BY DEF DlBlockDone, BlockDone, DlPost, BlockOut, LinkStill, cmVars, dsVars, smVars
<1>3. dl'.mdh = dl.mdh /\ dl'.mode = dl.mode
  BY <1>1, <1>2, ReceivedFields, DlShape
<1>4. smAux.addr # "WURQ" /\ Ready /\ ~Among(Asked, mbox) /\ (dl.rw = "write" => sm \in Writing)
  BY <1>2 DEF PortInv, Asking
<1>5. dev'.id = dev.id
  BY <1>2, DevFacts DEF Device
<1>6. dev'.rev = dev.rev \/ (~Waiting("READ") /\ ~Legacy)
  <2>1. ~Among({"READ"}, mbox)
    BY <1>4 DEF Among, Asked
  <2>2. dl.rw = "write" /\ smAux.addr = "RESTART" => ~Legacy
    BY <1>4 DEF Legacy, Writing, Ready, StoreInv, RevSound
  <2> QED BY <1>2, <2>1, <2>2 DEF Waiting
<1>7. snap \in Snapshot /\ (dl.rw = "read" => snap.id = dev.id /\ snap.rev = dev.rev)
  <2>1. Direct \in Snapshot /\ NoSnap \in Snapshot
    BY WildFacts, DevFacts DEF Direct, Snapshot
  <2>2. Direct.id = dev.id /\ Direct.rev = dev.rev
    BY WildFacts DEF Direct, Snapshot
  <2> QED BY <2>1, <2>2
<1>8. cnf \in PortJob /\ cnf.index = smAux.addr /\ cnf.snap = snap
  <2>1. cnf \in PortJob
    BY <1>1, <1>7, CnfIsJob, ResultNames DEF BlockCnf, Answers
  <2>2. cnf.index = smAux.addr /\ cnf.snap = snap
    BY DEF BlockCnf, Cnf, Signal
  <2> QED BY <2>1, <2>2
<1>9. Kind(cnf) = IF dl.rw = "read" THEN "READ" ELSE "WRITTEN"
  BY <1>2, <1>4, CnfKind DEF BlockOut
<1>10. dl.rw = "read" => dev' = dev
  BY <1>2
<1> HIDE DEF cnf, snap
<1>11. Sound(cnf, Allowed, dev', smAux.addr, cmCfg)
  BY <1>7, <1>8, <1>9, <1>10 DEF Sound, Works
<1> DEFINE s == <<cnf>>
<1>12. s \in Seq(PortJob) /\ mbox' = mbox \o s
  BY <1>2, <1>8
<1>13. AllSound(s, Allowed, dev', smAux.addr, cmCfg)
  BY <1>11, SoundOne
<1>14. \A i \in DOMAIN s : Kind(s[i]) \notin {"SMI_CFG", "SM_CFG", "DS_INIT", "DS_DELETE"}
  BY <1>9
<1> HIDE DEF s
<1> QED BY <1>2, <1>3, <1>5, <1>6, <1>12, <1>13, <1>14, LinkKeeps

LEMMA DeviceStore ==
  ASSUME ~Parallel, TypeInv, PortInv, StoreInv, dl' \in DlRecord, PortInv', DevAnswers \/ DevRefuses
  PROVE  StoreInv'
<1>1. LinkStill /\ UNCHANGED linked
  BY DEF DevAnswers, DevRefuses, LinkStill, cmVars, dsVars, smVars
<1>2. Shown \in Snapshot /\ [NoSnap EXCEPT !.id = dev.id] \in Snapshot /\ NoSnap \in Snapshot
  BY WildFacts, DevFacts DEF Shown, Snapshot, Revs
<1>3. PICK res \in Results, snap \in Snapshot : Answer(res, snap)
  BY <1>2, ResultNames DEF DevAnswers, DevRefuses, DevRead, DevWrite
<1> DEFINE s == <<IsduCnf(res, snap)>>
<1>4. s \in Mute
  BY MuteFacts
<1>5. mbox' = mbox \o s
  <2>1. mbox \in Seq(PortJob) /\ IsduCnf(res, snap) \in PortJob
    BY SmFacts, DlAnswers DEF MboxTyped
  <2> QED BY <1>3, <2>1, Appended DEF Answer, Post
<1> HIDE DEF s
<1>6. dl'.mode = dl.mode /\ dl'.mdh = dl.mdh
  <2> DEFINE got == Received(dl)
             free == [got EXCEPT !.isdu = FALSE]
  <2>1. got \in DlRecord /\ got.mode = dl.mode /\ got.mdh = dl.mdh
    BY SmFacts, ReceivedType, ReceivedFields
  <2>2. dl' = [free EXCEPT !.rw = "none"]
    BY <1>3 DEF Answer, Confirmed
  <2> HIDE DEF got
  <2>3. free \in DlRecord /\ free.mode = got.mode /\ free.mdh = got.mdh
    BY <2>1, DlShape
  <2> HIDE DEF free
  <2> QED BY <2>1, <2>2, <2>3, DlShape
<1>7. dev'.id = dev.id /\ dev'.rev = dev.rev
  <2>1. CASE UNCHANGED dev
    BY <2>1
  <2>2. CASE dev' = Commanded(svc.command)
    BY <2>2, DevFacts DEF Commanded, Device
  <2>3. CASE dev' = Written(svc.index, svc.val)
    BY <2>3, DevFacts DEF Written, Device
  <2> QED BY <2>1, <2>2, <2>3 DEF DevAnswers, DevRefuses, DevRead, DevWrite
<1>8. /\ s \in Seq(PortJob) /\ AllSound(s, Allowed, dev', smAux.addr, cmCfg)
      /\ \A i \in DOMAIN s : Kind(s[i]) \notin {"SMI_CFG", "SM_CFG", "DS_INIT", "DS_DELETE"}
  BY <1>4, MuteSound
<1> QED BY <1>1, <1>5, <1>6, <1>7, <1>8, LinkKeeps

-----------------------------------------------------------------------------
(* The environment.                                                        *)

(* In OPERATE, with no configuration under way, a device that speaks V1.1  *)
(* was let through by the SM and is the one the data storage was set up    *)
(* for.                                                                    *)
LEMMA OperatingVetted ==
  ASSUME TypeInv, PortInv, StoreInv, linked, dl.mdh = "OPERATE", dev.rev = "V11", ~Reconfiguring
  PROVE  Vetted /\ ~Starting
<1>1. ~Waiting("SM_CFG") /\ sm # "waitForFallback" /\ (sm \in {"PortInactive", "DIDO"} => ~dl.event)
  BY SmFacts, WaitingJob DEF Reconfiguring, MboxTyped
<1>2. dl.mode \in {"STARTUP", "INACTIVE"} => dl.event
  BY DEF PortInv, DlSound
<1>3. dl.mode # "STARTUP"
  BY <1>1, <1>2 DEF PortInv, Configuring
<1>4. dl.mode # "PREOPERATE"
  BY DEF StoreInv, ModeSound
<1>5. dl.mode \in {"INACTIVE", "OPERATE"}
  BY <1>3, <1>4, SmFacts, DlShape DEF DlCmds
<1>6. sm \notin {"PortInactive", "DIDO"}
  BY <1>1, <1>2 DEF StoreInv, ModeSound
<1>7. sm \notin Reading \cup {"CheckVxy"}
  BY DEF StoreInv, ModeSound
<1>8. ~Legacy
  BY DEF StoreInv, RevSound
<1>9. sm \notin {"waitonDLPreoperate", "waitonDLOperate", "checkSerNum", "wait", "InspectionFault"}
  BY <1>5, <1>8 DEF StoreInv, ModeSound, Legacy
<1>10. sm \in {"SMOperate", "write_master_cycl", "wait_devmode_cnf"}
  BY <1>1, <1>6, <1>7, <1>9, SmFacts DEF SmStates, Reading
<1>11. Vetted
  BY <1>1, <1>10 DEF StoreInv, PartsSound, Work
<1> QED BY <1>3, <1>7, <1>11 DEF Starting

LEMMA LocalChangeStore ==
  ASSUME Orderly, TypeInv, PortInv, StoreInv, dl' \in DlRecord, PortInv', LocalChange
  PROVE  StoreInv'
<1>1. LinkStill /\ UNCHANGED <<dl, linked>> /\ ~Reconfiguring
  BY DEF LocalChange, LinkStill, cmVars, dsVars, smVars, dlVars
<1>2. dev'.id = dev.id /\ dev'.rev = dev.rev
  <2>1. PICK v : dev' = [dev EXCEPT !.vals = v, !.flag = TRUE]
    BY DEF LocalChange
  <2> QED BY <2>1, DevFacts DEF Device
<1>3. mbox \in Seq(PortJob)
  BY SmFacts DEF MboxTyped
<1>4. PICK s \in Seq(PortJob) :
         /\ mbox' = mbox \o s /\ AllSound(s, Allowed, dev', smAux.addr, cmCfg)
         /\ \A i \in DOMAIN s : Kind(s[i]) \notin {"SMI_CFG", "SM_CFG", "DS_INIT", "DS_DELETE"}
  <2>1. CASE UNCHANGED mbox
    <3> DEFINE s == <<>>
    <3>1. mbox' = mbox \o s
      BY <1>3, <2>1
    <3>2. s \in Seq(PortJob) /\ AllSound(s, Allowed, dev', smAux.addr, cmCfg)
      BY EmptyPost, SoundOne
    <3>3. DOMAIN s = {}
      OBVIOUS
    <3> QED BY <3>1, <3>2, <3>3
  <2>2. CASE ~UNCHANGED mbox
    <3> DEFINE x == Signal("DS_UPLOAD")
    <3>1. linked /\ dl.mdh = "OPERATE" /\ dev.rev = "V11" /\ Post(x)
      BY <2>2 DEF LocalChange
    <3>2. x \in PortJob /\ Kind(x) = "DS_UPLOAD"
      BY SignalJob, SignalKind DEF JobTypes
    <3> HIDE DEF x
    <3>3. "DS_UPLOAD" \in Allowed
      BY <1>1, <3>1, OperatingVetted DEF Allowed, Works
    <3>4. Sound(x, Allowed, dev', smAux.addr, cmCfg)
      BY <3>2, <3>3 DEF Sound
    <3> DEFINE s == <<x>>
    <3>5. s \in Seq(PortJob) /\ mbox' = mbox \o s /\ AllSound(s, Allowed, dev', smAux.addr, cmCfg)
      BY <1>3, <3>1, <3>2, <3>4, Appended, SoundOne DEF Post
    <3>6. \A i \in DOMAIN s : Kind(s[i]) \notin {"SMI_CFG", "SM_CFG", "DS_INIT", "DS_DELETE"}
      BY <3>2
    <3> QED BY <3>5, <3>6
  <2> QED BY <2>1, <2>2
<1> QED BY <1>1, <1>2, <1>4, LinkKeeps

(* The line is cut, the device exchanged, the store replaced or the port   *)
(* configured, each at rest.                                               *)
LEMMA RestKeeps ==
  ASSUME TypeInv, StoreInv, AtRest,
         UNCHANGED <<portId, cm, cmCfg, dsState, ds, sm, smCfg, smReal, smAux, svc, dl>>,
         linked' => linked /\ dev' = dev, master' = master \/ master'.id # NoId,
         mbox' = <<>> \/ \E cfg \in Cfgs : mbox' = <<CfgJob("SMI_CFG", cfg)>>
  PROVE  StoreInv'
<1>1. mbox = <<>> /\ svc = NoSvc /\ dsState \in RestStates /\ sm \in SmRest
  BY DEF AtRest
<1>2. \A K : ~Among(K, mbox)
  BY <1>1, EmptyFacts
<1>3. \A i \in DOMAIN mbox' : Kind(mbox'[i]) = "SMI_CFG" /\ mbox'[i].cfg \in Cfgs
  <2>1. CASE mbox' = <<>>
    BY <2>1
  <2>2. CASE \E cfg \in Cfgs : mbox' = <<CfgJob("SMI_CFG", cfg)>>
    <3>1. PICK cfg \in Cfgs : mbox' = <<CfgJob("SMI_CFG", cfg)>>
      BY <2>2
    <3>2. Kind(CfgJob("SMI_CFG", cfg)) = "SMI_CFG" /\ CfgJob("SMI_CFG", cfg).cfg = cfg
      BY CfgKind
    <3> DEFINE x == CfgJob("SMI_CFG", cfg)
    <3> HIDE DEF x
    <3>3. mbox' = <<x>> /\ Kind(x) = "SMI_CFG" /\ x.cfg \in Cfgs
      BY <3>1, <3>2 DEF x
    <3> QED BY <3>3
  <2> QED BY <2>1, <2>2
<1>4. JobsSound'
  <2>1. ASSUME NEW i \in DOMAIN mbox' PROVE Sound(mbox'[i], Allowed', dev', smAux'.addr, cmCfg')
    <3>1. Kind(mbox'[i]) = "SMI_CFG" /\ mbox'[i].cfg \in Cfgs
      BY <1>3
    <3> DEFINE x == mbox'[i]
    <3> HIDE DEF x
    <3>2. Kind(x) = "SMI_CFG" /\ x.cfg \in Cfgs
      BY <3>1 DEF x
    <3>3. Sound(x, Allowed', dev', smAux'.addr, cmCfg')
      BY <3>2 DEF Sound, Works
    <3> QED BY <3>3 DEF x
  <2>2. AllSound(mbox', Allowed', dev', smAux'.addr, cmCfg')
    BY <2>1 DEF AllSound
  <2> QED BY <2>2 DEF JobsSound
<1>5. Announced(mbox)'
  <2>1. Announced(mbox')
    BY <1>3 DEF Announced
  <2> QED BY <2>1
<1>6. ~Waiting("DS_INIT") /\ ~Waiting("SM_CFG")
  BY <1>2 DEF Waiting
<1>61. Cleared'
  <2>1. \A i \in DOMAIN mbox' : Kind(mbox'[i]) # "DS_INIT"
    BY <1>3
  <2>2. ~Waiting("DS_INIT")' /\ NoneAfter("DS_INIT", {"DS_INIT", "DS_DELETE"}, mbox)'
    BY <2>1 DEF Waiting, Among, NoneAfter
  <2> QED BY <2>2 DEF Cleared
<1>7. PartsSound'
  <2>1. ~Work'
    BY <1>1 DEF Work, SmRest
  <2>2. sm' \notin {"waitonDLPreoperate", "waitonDLOperate", "checkSerNum"}
    BY <1>1 DEF SmRest
  <2>3. sm' = "SMOperate" /\ linked' => Vetted'
    BY <1>6 DEF StoreInv, PartsSound, Vetted
  <2>4. cm' = "SM_Startup" => /\ cmCfg' \in Cfgs /\ cmCfg'.mode \in {"IOL_MAN", "IOL_AUTO"}
                              /\ Named'
    BY <1>6 DEF StoreInv, PartsSound, Named
  <2>5. dsState' \in RestStates /\ svc' = NoSvc
    BY <1>1
  <2> QED BY <2>1, <2>2, <2>3, <2>4, <2>5 DEF PartsSound
<1>8. ModeSound' /\ RevSound'
  BY DEF StoreInv, ModeSound, RevSound, Legacy
<1>9. StoreSound'
  <2>1. dsState' \notin DlStates /\ svc'.dir = "none"
    BY <1>1 DEF RestStates, DlStates, NoSvc
  <2>2. ds'.download /\ master'.valid => master'.id # NoId
    BY DEF StoreInv, StoreSound
  <2> QED BY <1>1, <2>1, <2>2 DEF StoreSound
<1> QED BY <1>4, <1>5, <1>61, <1>7, <1>8, <1>9 DEF StoreInv

LEMMA RestStore ==
  ASSUME Orderly, OwnSets, TypeInv, PortInv, StoreInv,
         LinkLost \/ NewDevice \/ SMI_PortConfiguration_req \/ SMI_ParServToDS_req
  PROVE  StoreInv'
<1>1. AtRest /\ UNCHANGED <<portId, cm, cmCfg, dsState, ds, sm, smCfg, smReal, smAux, svc, dl>>
  BY DEF LinkLost, NewDevice, SMI_PortConfiguration_req, SMI_ParServToDS_req, ParServToDS,
         Admitted, cmVars, dsVars, smVars, dlVars
<1>2. mbox = <<>>
  BY <1>1 DEF AtRest
<1>3. linked' => linked /\ dev' = dev
  BY DEF LinkLost, NewDevice, SMI_PortConfiguration_req, SMI_ParServToDS_req, dlVars
<1>4. master' = master \/ master'.id # NoId
  <2>1. CASE SMI_ParServToDS_req
    <3>1. PICK s \in ServedSets : ParServToDS(s.id, s.set)
      BY <2>1 DEF SMI_ParServToDS_req
    <3>2. master'.id = s.id
      <4>1. master \in Store
        BY DsFacts
      <4>2. \A id, size, data : [master EXCEPT !.id = id, !.cs = WildSet, !.valid = TRUE, !.size = size,
                                               !.data = data].id = id
        BY <4>1 DEF Store
      <4> QED BY <3>1, <4>2 DEF ParServToDS
    <3> QED BY <3>2 DEF OwnSets
  <2>2. CASE ~SMI_ParServToDS_req
    <3>1. UNCHANGED master
      BY <2>2 DEF LinkLost, NewDevice, SMI_PortConfiguration_req, dsVars
    <3> QED BY <3>1
  <2> QED BY <2>1, <2>2
<1>5. mbox' = <<>> \/ \E cfg \in Cfgs : mbox' = <<CfgJob("SMI_CFG", cfg)>>
  <2>1. CASE SMI_PortConfiguration_req
    <3>1. PICK cfg \in Cfgs : Post(CfgJob("SMI_CFG", cfg))
      BY <2>1 DEF SMI_PortConfiguration_req
    <3> DEFINE x == CfgJob("SMI_CFG", cfg)
    <3> HIDE DEF x
    <3>2. mbox' = Append(<<>>, x)
      BY <1>2, <3>1 DEF Post, x
    <3>3. mbox' = <<x>>
      BY <3>2
    <3> QED BY <3>3 DEF x
  <2>2. CASE ~SMI_PortConfiguration_req
    BY <1>2, <2>2 DEF LinkLost, NewDevice, SMI_ParServToDS_req, ParServToDS
  <2> QED BY <2>1, <2>2
<1> QED BY <1>1, <1>3, <1>4, <1>5, RestKeeps

-----------------------------------------------------------------------------
(* The CM.                                                                 *)

LEMMA SoundWorks ==
  ASSUME NEW s, NEW ok, NEW d, NEW a, NEW c,
         \A i \in DOMAIN s : Kind(s[i]) \in (Works \cup {"COMREADY"}) \cap ok
  PROVE  AllSound(s, ok, d, a, c)
<1> SUFFICES ASSUME NEW i \in DOMAIN s PROVE Sound(s[i], ok, d, a, c)
  BY DEF AllSound
<1>1. Kind(s[i]) \in (Works \cup {"COMREADY"}) \cap ok
  OBVIOUS
<1> DEFINE j == s[i]
<1> HIDE DEF j
<1>2. Kind(j) \in (Works \cup {"COMREADY"}) \cap ok
  BY <1>1 DEF j
<1>3. Sound(j, ok, d, a, c)
  BY <1>2 DEF Sound, Works
<1> QED BY <1>3 DEF j

LEMMA AnnouncedWaiting ==
  ASSUME Announced(mbox), Waiting("DS_INIT") \/ Waiting("DS_DELETE")
  PROVE  Waiting("SM_CFG")
<1>1. PICK i \in DOMAIN mbox : Kind(mbox[i]) \in {"DS_INIT", "DS_DELETE"}
  BY DEF Waiting, Among
<1>2. PICK k \in DOMAIN mbox : Kind(mbox[k]) = "SM_CFG"
  BY <1>1 DEF Announced
<1> QED BY <1>2 DEF Waiting, Among

LEMMA AnnouncedBy ==
  ASSUME NEW S, NEW t \in Seq(S), NEW x \in S, Kind(x) = "SM_CFG"
  PROVE  Announced(t \o <<x>>) /\ Among({"SM_CFG"}, t \o <<x>>)
<1> DEFINE last == Len(t) + 1
<1>1. last \in DOMAIN (t \o <<x>>) /\ (t \o <<x>>)[last] = x
  OBVIOUS
<1>2. ASSUME NEW i \in DOMAIN (t \o <<x>>), Kind((t \o <<x>>)[i]) \in {"DS_INIT", "DS_DELETE"}
      PROVE  i < last
  <2>1. i # last
    BY <1>1, <1>2
  <2>2. i \in 1 .. last /\ Len(t) \in Nat
    OBVIOUS
  <2> QED BY <2>1, <2>2
<1> QED BY <1>1, <1>2 DEF Announced, Among

(* What the CM leaves alone. *)
CmStill == UNCHANGED <<dsState, ds, master, sm, smCfg, smReal, smAux, dl, linked, svc, dev>>

LEMMA CmMoves ==
  ASSUME TypeInv, PortInv, StoreInv, mbox # <<>>, CmStill, cmCfg' = cmCfg,
         NEW s \in Seq(PortJob), TakeAndPost(s), portId' \in {portId, smReal.id},
         cm' = "SM_Startup" => cm = "SM_Startup", Kind(Head(mbox)) \notin {"DS_INIT", "DS_DELETE", "SM_CFG"},
         s # <<>> => Vetted' /\ ~Starting, \A i \in DOMAIN s : Kind(s[i]) \in Works
  PROVE  StoreInv'
<1>1. /\ dsState' = dsState /\ ds' = ds /\ master' = master /\ sm' = sm /\ smCfg' = smCfg
      /\ smReal' = smReal /\ smAux' = smAux /\ dl' = dl /\ linked' = linked /\ svc' = svc /\ dev' = dev
  BY DEF CmStill
<1>2. /\ (Vetted => Vetted') /\ (Matches' <=> Matches) /\ (Starting' <=> Starting)
      /\ (Fits' <=> Fits) /\ (Named' <=> Named)
  BY <1>1 DEF Vetted, Matches, Starting, Fits, Named
<1>3. Allowed \subseteq Allowed'
  BY <1>1, <1>2, AllowedKept
<1>4. AllSound(s, Allowed', dev', smAux'.addr, cmCfg')
  <2>1. Allowed' = {t \in Works : Vetted' /\ ~Starting'}
                   \cup {t \in {"COMREADY"} : smReal'.id = dev'.id /\ Matches' /\ ~Starting'}
                   \cup {t \in {"PARAM_WRITE"} : Fits'}
    BY DEF Allowed
  <2>2. s # <<>> => Works \subseteq Allowed'
    BY <1>2, <2>1
  <2>3. \A i \in DOMAIN s : Kind(s[i]) \in (Works \cup {"COMREADY"}) \cap Allowed'
    BY <2>2
  <2> QED BY <2>3, SoundWorks
<1>5. Carried
  <2>1. MboxTyped /\ JobsSound /\ Announced(mbox) /\ Cleared /\ Tail(mbox) \in Seq(PortJob)
    BY SmFacts, HeadFacts DEF StoreInv
  <2>2. mbox' = Tail(mbox) \o s
    BY DEF TakeAndPost
  <2>3. \A i \in DOMAIN s : Kind(s[i]) \notin {"SMI_CFG", "SM_CFG", "DS_INIT", "DS_DELETE"}
    BY DEF Works
  <2> QED BY <1>1, <1>3, <1>4, <2>1, <2>2, <2>3, JobsCarried
<1>6. /\ Waiting("SM_CFG") => Waiting("SM_CFG")'
      /\ Waiting("DS_INIT") => Waiting("DS_INIT")'
  BY <1>5 DEF Carried
<1>7. PartsSound'
  <2>1. Work' => Vetted' /\ ~Starting'
    BY <1>1, <1>2 DEF StoreInv, PartsSound, Work
  <2>2. sm' = "SMOperate" /\ linked' /\ ~Waiting("SM_CFG")' => Vetted'
    BY <1>1, <1>2, <1>6 DEF StoreInv, PartsSound
  <2>3. sm' \in {"waitonDLPreoperate", "waitonDLOperate", "checkSerNum"} => smReal'.id = dev'.id
    BY <1>1 DEF StoreInv, PartsSound
  <2>4. Waiting("SMI_CFG")' \/ Waiting("SM_CFG")' => dsState' \in RestStates /\ svc' = NoSvc
    BY <1>1, <1>5 DEF StoreInv, PartsSound, Carried
  <2>5. cm' = "SM_Startup" => /\ cmCfg' \in Cfgs /\ cmCfg'.mode \in {"IOL_MAN", "IOL_AUTO"}
                              /\ Waiting("DS_INIT")' \/ Named'
    BY <1>1, <1>2, <1>6 DEF StoreInv, PartsSound
  <2> QED BY <2>1, <2>2, <2>3, <2>4, <2>5 DEF PartsSound
<1>8. ModeSound' /\ RevSound' /\ StoreSound'
  BY <1>1 DEF StoreInv, ModeSound, RevSound, Legacy, StoreSound, Fits
<1>9. Cleared'
  BY <1>1, <1>5, ClearedKept DEF StoreInv
<1> QED BY <1>5, <1>7, <1>8, <1>9 DEF StoreInv, Carried

(* A configuration finds nothing in the mailbox that speaks of the device  *)
(* of the one before.                                                      *)
LEMMA ConfigurationHead ==
  ASSUME TypeInv, PortInv, StoreInv, mbox # <<>>, Kind(Head(mbox)) = "SMI_CFG"
  PROVE  /\ \A i \in DOMAIN Tail(mbox) : Kind(Tail(mbox)[i]) \notin Grave
         /\ sm \in SmRest /\ dsState \in RestStates /\ svc = NoSvc /\ Head(mbox).cfg \in Cfgs
<1>1. MboxTyped /\ mbox \in Seq(PortJob) /\ Tail(mbox) \in Seq(PortJob) /\ JobsSound /\ Announced(mbox)
  BY SmFacts, HeadFacts DEF MboxTyped, StoreInv
<1>2. Waiting("SMI_CFG")
  BY <1>1, AmongTail DEF Waiting
<1>3. sm \in SmRest /\ dsState \in RestStates /\ svc = NoSvc /\ Head(mbox).cfg \in Cfgs
  BY <1>1, <1>2, WorkHead DEF PortInv, Configuring, StoreInv, PartsSound
<1>4. ~Among(Loud, Tail(mbox))
  <2>1. ~Among(Loud, mbox)
    BY <1>2 DEF PortInv, Configuring, Still
  <2> QED BY <1>1, <2>1, AmongTail
<1>5. ~Among({"SMI_CFG", "SM_CFG"}, Tail(mbox))
  <2>1. Single({"SMI_CFG", "SM_CFG"}, mbox)
    BY DEF PortInv, Configuring
  <2> QED BY <1>1, <2>1, SingleTail
<1>6. \A i \in DOMAIN Tail(mbox) : Kind(Tail(mbox)[i]) \notin {"SMI_CFG", "SM_CFG", "DS_INIT", "DS_DELETE"}
  <2>1. Announced(Tail(mbox))
    BY <1>1, AnnouncedTail
  <2> QED BY <1>5, <2>1 DEF Among, Announced
<1>7. \A k \in Grave : k \in Loud \cup {"SMI_CFG", "SM_CFG", "DS_INIT", "DS_DELETE"}
  BY DEF Grave, Vows, Works, Loud, Calm, JobTypes, Asked
<1>8. \A i \in DOMAIN Tail(mbox) : Kind(Tail(mbox)[i]) \notin Loud
  BY <1>4 DEF Among
<1> QED BY <1>3, <1>6, <1>7, <1>8

LEMMA ConfiguredStore ==
  ASSUME TypeInv, PortInv, StoreInv, mbox # <<>>, Kind(Head(mbox)) = "SMI_CFG", CmStill,
         NEW t \in Seq(PortJob),
         \A i \in DOMAIN t : \/ Kind(t[i]) = "DS_DELETE"
                             \/ Kind(t[i]) = "DS_INIT" /\ t[i].cfg = cmCfg',
         NEW c \in Cfg, TakeAndPost(t \o <<CfgJob("SM_CFG", c)>>),
         cm' = "SM_Startup" => /\ cmCfg' \in Cfgs /\ cmCfg'.mode \in {"IOL_MAN", "IOL_AUTO"}
                               /\ Among({"DS_INIT"}, t),
         NoneAfter("DS_INIT", {"DS_INIT", "DS_DELETE"}, t),
         Among({"DS_INIT"}, t) => Among({"DS_DELETE"}, t) \/ master.id # NoId
  PROVE  StoreInv'
<1> DEFINE x == CfgJob("SM_CFG", c)
           q == Tail(mbox)
<1>1. /\ dsState' = dsState /\ ds' = ds /\ master' = master /\ sm' = sm /\ smCfg' = smCfg
      /\ smReal' = smReal /\ smAux' = smAux /\ dl' = dl /\ linked' = linked /\ svc' = svc /\ dev' = dev
  BY DEF CmStill
<1>2. /\ \A i \in DOMAIN q : Kind(q[i]) \notin Grave
      /\ sm \in SmRest /\ dsState \in RestStates /\ svc = NoSvc
  BY ConfigurationHead
<1>3. x \in PortJob /\ Kind(x) = "SM_CFG"
  BY CfgIsJob, CfgKind DEF JobTypes
<1>4. q \in Seq(PortJob) /\ mbox' = q \o (t \o <<x>>)
  BY SmFacts, HeadFacts DEF TakeAndPost
<1> HIDE DEF x, q
<1>5. t \o <<x>> \in Seq(PortJob) /\ <<x>> \in Seq(PortJob)
  BY <1>3
<1>6. JobsSound'
  <2> DEFINE ok == Allowed'
             a == smAux'.addr
             d == dev'
             g == cmCfg'
  <2> HIDE DEF ok, a, d, g
  <2>1. AllSound(q, ok, d, a, g)
    BY <1>2, SoundNeutral
  <2>2. AllSound(<<x>>, ok, d, a, g)
    <3>1. Sound(x, ok, d, a, g)
      BY <1>3 DEF Sound, Works
    <3> QED BY <3>1, SoundOne
  <2>3. AllSound(t, ok, d, a, g)
    <3> SUFFICES ASSUME NEW i \in DOMAIN t PROVE Sound(t[i], ok, d, a, g)
      BY DEF AllSound
    <3> DEFINE j == t[i]
    <3>1. Kind(j) = "DS_DELETE" \/ (Kind(j) = "DS_INIT" /\ j.cfg = g)
      BY DEF g
    <3> HIDE DEF j
    <3>2. Sound(j, ok, d, a, g)
      BY <3>1 DEF Sound, Works
    <3> QED BY <3>2 DEF j
  <2>4. AllSound(t \o <<x>>, ok, d, a, g)
    BY <1>5, <2>2, <2>3, SoundJoined
  <2>5. AllSound(mbox', ok, d, a, g)
    BY <1>4, <1>5, <2>1, <2>4, SoundJoined
  <2> QED BY <2>5 DEF JobsSound, ok, d, a, g
<1>7. Announced(mbox)' /\ Waiting("SM_CFG")'
  <2>1. Announced(q)
    <3>1. {"DS_INIT", "DS_DELETE"} \subseteq Grave
      BY DEF Grave
    <3> QED BY <1>2, <3>1, AnnouncedNone
  <2>2. Announced(t \o <<x>>) /\ Among({"SM_CFG"}, t \o <<x>>)
    BY <1>3, AnnouncedBy
  <2>3. Announced(mbox') /\ Among({"SM_CFG"}, mbox')
    BY <1>4, <1>5, <2>1, <2>2, AnnouncedJoined, AmongJoined
  <2> QED BY <2>3 DEF Waiting
<1>8. cm' = "SM_Startup" => Waiting("DS_INIT")'
  <2>1. Among({"DS_INIT"}, t) => Among({"DS_INIT"}, mbox')
    <3>1. Among({"DS_INIT"}, t) => Among({"DS_INIT"}, t \o <<x>>)
      BY <1>5, AmongJoined
    <3> QED BY <1>4, <1>5, <3>1, AmongJoined
  <2> QED BY <2>1 DEF Waiting
<1>9. PartsSound'
  <2>1. ~Work'
    BY <1>1, <1>2 DEF Work, SmRest
  <2>2. sm' \notin {"waitonDLPreoperate", "waitonDLOperate", "checkSerNum"}
    BY <1>1, <1>2 DEF SmRest
  <2> QED BY <1>1, <1>2, <1>7, <1>8, <2>1, <2>2 DEF PartsSound
<1>10. ModeSound' /\ RevSound' /\ StoreSound'
  BY <1>1 DEF StoreInv, ModeSound, RevSound, Legacy, StoreSound, Fits
<1>11. Cleared'
  <2> DEFINE K == {"DS_INIT", "DS_DELETE"}
  <2>1. "DS_INIT" \in K /\ NoneAfter("DS_INIT", K, t) /\ ~Among(K, <<x>>) /\ ~Among({"DS_INIT"}, <<x>>)
    BY <1>3 DEF Among
  <2>2. ~Among({"DS_INIT"}, q)
    BY <1>2 DEF Among, Grave
  <2> HIDE DEF K
  <2>3. NoneAfter("DS_INIT", K, t \o <<x>>)
    BY <1>5, <2>1, AfterJoined
  <2>4. NoneAfter("DS_INIT", K, q)
    BY <2>2 DEF NoneAfter, Among
  <2>5. NoneAfter("DS_INIT", K, mbox')
    BY <1>4, <1>5, <2>2, <2>3, <2>4, AfterJoined
  <2>6. /\ Among({"DS_INIT"}, mbox') => Among({"DS_INIT"}, t)
        /\ Among({"DS_DELETE"}, t) => Among({"DS_DELETE"}, mbox')
    <3>1. \A L : Among(L, mbox') <=> Among(L, q) \/ Among(L, t) \/ Among(L, <<x>>)
      BY <1>4, <1>5, AmongJoined
    <3> QED BY <2>1, <2>2, <3>1
  <2>7. Waiting("DS_INIT")' /\ master.id = NoId => Waiting("DS_DELETE")'
    BY <2>6 DEF Waiting
  <2> QED BY <1>1, <2>5, <2>7 DEF Cleared, K
<1> QED BY <1>11, <1>6, <1>7, <1>9, <1>10 DEF StoreInv

LEMMA CfgChangeStore ==
  ASSUME TypeInv, PortInv, StoreInv, CmStill, NEW keep, CmCfgChange(keep), keep => master.id # NoId
  PROVE  StoreInv'
<1> DEFINE cfg == Head(mbox).cfg
           del == Signal("DS_DELETE")
           ini == CfgJob("DS_INIT", cfg)
<1>1. MboxTyped /\ mbox # <<>> /\ Head(mbox).type = "SMI_CFG"
  BY SmFacts DEF CmCfgChange, Take
<1>2. Kind(Head(mbox)) = "SMI_CFG"
  BY <1>1, HeadKind DEF Plain, JobTypes
<1>3. cfg \in Cfg /\ cfg \in Cfgs /\ cmCfg \in Cfg
  BY <1>1, <1>2, HeadFacts, ConfigurationHead DEF TypeInv, CmTyped
<1>4. /\ del \in PortJob /\ Kind(del) = "DS_DELETE"
      /\ ini \in PortJob /\ Kind(ini) = "DS_INIT" /\ ini.cfg = cfg
  BY <1>3, SignalJob, SignalKind, CfgIsJob, CfgKind DEF JobTypes
<1>5. NoCfg \in Cfg /\ [NoCfg EXCEPT !.mode = cmCfg.mode] \in Cfg
  BY <1>3, WildFacts DEF Cfg
<1>6. StartPort(cfg, keep) \/ StartDiDo(cfg) \/ Deactivate(cfg) \/ RefuseCfg(cfg)
  BY DEF CmCfgChange
<1> HIDE DEF cfg
<1>7. CASE StartPort(cfg, keep)
  <2> DEFINE first == IF cfg.mode = "IOL_MAN" /\ keep THEN <<>> ELSE <<del>>
             t == first \o <<ini>>
             x == CfgJob("SM_CFG", cfg)
  <2>1. /\ TakeAndPost(first \o <<ini, x>>)
        /\ cm' = "SM_Startup" /\ cmCfg' = cfg /\ cfg.mode \in {"IOL_MAN", "IOL_AUTO"}
    BY <1>7 DEF StartPort, CmEnter
  <2>2. x \in PortJob
    BY <1>3, CfgIsJob DEF JobTypes
  <2> HIDE DEF del, ini, x
  <2>3. t \in Seq(PortJob) /\ first \in Seq(PortJob) /\ <<ini>> \in Seq(PortJob)
    BY <1>4
  <2>4. \A i \in DOMAIN t : \/ Kind(t[i]) = "DS_DELETE"
                            \/ Kind(t[i]) = "DS_INIT" /\ t[i].cfg = cmCfg'
    BY <1>4, <2>1
  <2>5. Among({"DS_INIT"}, t)
    <3> HIDE DEF first
    <3>1. Among({"DS_INIT"}, <<ini>>)
      BY <1>4, AmongFew
    <3> QED BY <2>3, <3>1, AmongJoined
  <2>51. /\ NoneAfter("DS_INIT", {"DS_INIT", "DS_DELETE"}, t)
         /\ Among({"DS_DELETE"}, t) \/ master.id # NoId
    <3>0. (first = <<>> /\ master.id # NoId) \/ first = <<del>>
      OBVIOUS
    <3> HIDE DEF first
    <3>1. CASE first = <<>> /\ master.id # NoId
      <4>1. t = <<>> \o <<ini>>
        BY <3>1
      <4>2. t = <<ini>>
        BY <4>1
      <4> HIDE DEF t
      <4> QED BY <1>4, <3>1, <4>2 DEF NoneAfter
    <3>2. CASE first = <<del>>
      <4>1. t = <<del>> \o <<ini>>
        BY <3>2
      <4>2. t = <<del, ini>>
        BY <4>1, <1>4, PairJoined
      <4> HIDE DEF t
      <4> QED BY <1>4, <4>2 DEF NoneAfter, Among
    <3> QED BY <3>0, <3>1, <3>2
  <2>6. first \o <<ini, x>> = t \o <<x>>
    BY <1>4, <2>2
  <2> HIDE DEF t, first
  <2>7. TakeAndPost(t \o <<CfgJob("SM_CFG", cfg)>>)
    BY <2>1, <2>6 DEF x
  <2> QED BY <1>1, <1>2, <1>3, <2>1, <2>3, <2>4, <2>5, <2>51, <2>7, ConfiguredStore
<1>8. CASE StartDiDo(cfg)
  <2> DEFINE t == <<del, ini>>
             x == CfgJob("SM_CFG", cfg)
  <2>1. TakeAndPost(<<del, ini, x>>) /\ cm' = "Port_DIDO" /\ cmCfg' = cfg
    BY <1>8 DEF StartDiDo, CmEnter
  <2>2. x \in PortJob
    BY <1>3, CfgIsJob DEF JobTypes
  <2> HIDE DEF del, ini, x
  <2>3. t \in Seq(PortJob)
    BY <1>4
  <2>4. \A i \in DOMAIN t : \/ Kind(t[i]) = "DS_DELETE"
                            \/ Kind(t[i]) = "DS_INIT" /\ t[i].cfg = cmCfg'
    BY <1>4, <2>1
  <2>41. NoneAfter("DS_INIT", {"DS_INIT", "DS_DELETE"}, t) /\ Among({"DS_DELETE"}, t)
    BY <1>4 DEF NoneAfter, Among
  <2>5. <<del, ini, x>> = t \o <<x>>
    BY <1>4, <2>2
  <2> HIDE DEF t
  <2>6. TakeAndPost(t \o <<CfgJob("SM_CFG", cfg)>>)
    BY <2>1, <2>5 DEF x
  <2> QED BY <1>1, <1>2, <1>3, <2>1, <2>3, <2>4, <2>41, <2>6, ConfiguredStore
<1>9. CASE Deactivate(cfg)
  <2> DEFINE t == <<>>
             x == CfgJob("SM_CFG", NoCfg)
  <2>1. TakeAndPost(<<x>>) /\ cm' = "Port_Deactivated"
    BY <1>9 DEF Deactivate, CmEnter
  <2>2. t \in Seq(PortJob) /\ DOMAIN t = {}
    BY EmptyPost
  <2>21. NoneAfter("DS_INIT", {"DS_INIT", "DS_DELETE"}, t) /\ ~Among({"DS_INIT"}, t)
    BY <2>2 DEF NoneAfter, Among
  <2> HIDE DEF x
  <2>3. <<x>> = t \o <<x>>
    OBVIOUS
  <2> HIDE DEF t
  <2>4. TakeAndPost(t \o <<CfgJob("SM_CFG", NoCfg)>>)
    BY <2>1, <2>3 DEF x
  <2> QED BY <1>1, <1>2, <1>5, <2>1, <2>2, <2>21, <2>4, ConfiguredStore
<1>10. CASE RefuseCfg(cfg)
  <2> DEFINE t == <<del>>
             refused == [NoCfg EXCEPT !.mode = cmCfg.mode]
             x == CfgJob("SM_CFG", refused)
  <2>1. TakeAndPost(<<del, x>>) /\ cm' = "Port_Deactivated"
    BY <1>10 DEF RefuseCfg, CmEnter
  <2>2. x \in PortJob /\ refused \in Cfg
    BY <1>5, CfgIsJob DEF JobTypes
  <2> HIDE DEF del, refused, x
  <2>3. t \in Seq(PortJob) /\ \A i \in DOMAIN t : Kind(t[i]) = "DS_DELETE"
    BY <1>4
  <2>31. NoneAfter("DS_INIT", {"DS_INIT", "DS_DELETE"}, t) /\ ~Among({"DS_INIT"}, t)
    BY <2>3 DEF NoneAfter, Among
  <2>4. <<del, x>> = t \o <<x>>
    BY <1>4, <2>2
  <2> HIDE DEF t
  <2>5. TakeAndPost(t \o <<CfgJob("SM_CFG", refused)>>)
    BY <2>1, <2>4 DEF x
  <2> QED BY <1>1, <1>2, <2>1, <2>2, <2>3, <2>31, <2>5, ConfiguredStore
<1> QED BY <1>6, <1>7, <1>8, <1>9, <1>10

(* The CM has the data storage start: the SM found the device that the CM  *)
(* had the data storage set up for.                                        *)
LEMMA ComreadyVetted ==
  ASSUME TypeInv, PortInv, StoreInv, mbox # <<>>, Kind(Head(mbox)) = "COMREADY",
         cm = "SM_Startup", UNCHANGED <<smReal, dev, ds>>, portId' = smReal.id
  PROVE  Vetted' /\ ~Starting
<1>1. smReal.id = dev.id /\ Matches /\ ~Starting
  BY SmFacts, WorkHead DEF StoreInv
<1>2. ~Waiting("SM_CFG")
  BY LoudHead DEF Loud, Calm, JobTypes
<1>3. smCfg = cmCfg
  BY <1>2 DEF PortInv, Followed, Started
<1>4. ~Waiting("DS_INIT")
  BY <1>2, AnnouncedWaiting DEF StoreInv
<1>5. Named
  BY <1>4 DEF StoreInv, PartsSound
<1>6. ds.download => ds.pending = dev.id
  BY <1>1, <1>3, <1>5 DEF Matches, Named
<1> QED BY <1>1, <1>6 DEF Vetted

LEMMA CmStore ==
  ASSUME TypeInv, PortInv, StoreInv, CmStep
  PROVE  StoreInv'
<1> DEFINE id == smReal.id
           keep == mbox # <<>> /\ DS_Chk_Cfg(Head(mbox).cfg)
<1>1. CmJob(id, keep) /\ CmStill
  BY DEF CmStep, CmStill, dsVars, smVars, dlVars, envVars
<1>11. keep => master.id # NoId
  BY DEF DS_Chk_Cfg
<1> HIDE DEF keep
<1>2. ASSUME mbox # <<>>, TakeAndPost(<<>>), cmCfg' = cmCfg, portId' \in {portId, id},
             cm' = "SM_Startup" => cm = "SM_Startup",
             Head(mbox).type \in {"SMI_CFG", "COMREADY", "FAULT", "OPERATE", "COMLOST", "DS_READY", "DS_FAULT"}
      PROVE  StoreInv'
  <2>1. Kind(Head(mbox)) \notin {"DS_INIT", "DS_DELETE", "SM_CFG"}
    BY <1>2, HeadKind DEF Plain, JobTypes
  <2> DEFINE s == <<>>
  <2>2. s \in Seq(PortJob) /\ DOMAIN s = {} /\ s = <<>> /\ TakeAndPost(s)
    BY <1>2, EmptyPost
  <2> HIDE DEF s
  <2> QED BY <1>1, <1>2, <2>1, <2>2, CmMoves
<1>3. ASSUME mbox # <<>>, NEW k \in {"DS_STARTUP", "SM_OPERATE"}, TakeAndPost(<<Signal(k)>>),
             cmCfg' = cmCfg, portId' \in {portId, id}, cm' # "SM_Startup",
             Head(mbox).type \in {"COMREADY", "DS_READY"}, Vetted' /\ ~Starting
      PROVE  StoreInv'
  <2>1. Kind(Head(mbox)) \notin {"DS_INIT", "DS_DELETE", "SM_CFG"}
    BY <1>3, HeadKind DEF Plain, JobTypes
  <2> DEFINE x == Signal(k)
             s == <<x>>
  <2>2. x \in PortJob /\ Kind(x) \in Works
    BY SignalJob, SignalKind DEF JobTypes, Works
  <2> HIDE DEF x
  <2>3. s \in Seq(PortJob) /\ \A i \in DOMAIN s : Kind(s[i]) \in Works
    BY <2>2
  <2>4. TakeAndPost(s)
    BY <1>3 DEF x
  <2> HIDE DEF s
  <2> QED BY <1>1, <1>3, <2>1, <2>3, <2>4, CmMoves
<1>4. CASE CmCfgIgnored
  BY <1>2, <1>4 DEF CmCfgIgnored, Take, cmVars
<1>5. CASE CmCfgChange(keep)
  BY <1>1, <1>11, <1>5, CfgChangeStore
<1>6. CASE CmComready(id)
  <2>1. mbox # <<>> /\ Head(mbox).type = "COMREADY" /\ cmCfg' = cmCfg
    BY <1>6 DEF CmComready, Take
  <2>2. CASE cm = "SM_Startup"
    <3>1. TakeAndPost(<<Signal("DS_STARTUP")>>) /\ cm' = "DS_ParamManager" /\ portId' = id
      BY <1>6, <2>2 DEF CmComready, CmEnter
    <3>2. Kind(Head(mbox)) = "COMREADY"
      BY <2>1, HeadKind DEF Plain, JobTypes
    <3>3. Vetted' /\ ~Starting
      BY <1>1, <2>1, <2>2, <3>1, <3>2, ComreadyVetted DEF CmStill
    <3> QED BY <1>3, <2>1, <3>1, <3>3
  <2>3. CASE cm # "SM_Startup"
    BY <1>2, <1>6, <2>1, <2>3 DEF CmComready
  <2> QED BY <2>2, <2>3
<1>7. CASE CmSmFault(id) \/ CmOperate(id) \/ CmDsFault(id)
  BY <1>2, <1>7 DEF CmSmFault, CmOperate, CmDsFault, CmEnter, Take
<1>8. CASE CmComlost
  BY <1>2, <1>8 DEF CmComlost, CmEnter, Take
<1>9. CASE CmDsReady
  <2>1. mbox # <<>> /\ Head(mbox).type = "DS_READY" /\ cmCfg' = cmCfg /\ portId' = portId
    BY <1>9 DEF CmDsReady, Take
  <2>2. CASE cm = "DS_ParamManager"
    <3>1. TakeAndPost(<<Signal("SM_OPERATE")>>) /\ cm' = "WaitingOnOperate"
      BY <1>9, <2>2 DEF CmDsReady, CmEnter
    <3>2. Kind(Head(mbox)) = "DS_READY"
      BY <2>1, HeadKind DEF Plain, JobTypes
    <3>3. Vetted /\ ~Starting
      BY <2>1, <3>2, SmFacts, WorkHead DEF StoreInv, Works
    <3>4. Vetted'
      BY <1>1, <2>1, <3>3 DEF Vetted, CmStill
    <3> QED BY <1>3, <2>1, <3>1, <3>3, <3>4
  <2>3. CASE cm # "DS_ParamManager"
    BY <1>2, <1>9, <2>1, <2>3 DEF CmDsReady
  <2> QED BY <2>2, <2>3
<1> QED BY <1>1, <1>4, <1>5, <1>6, <1>7, <1>8, <1>9 DEF CmJob

-----------------------------------------------------------------------------
(* The DS.                                                                 *)

(* What it leaves alone. *)
DsStill == UNCHANGED <<portId, cm, cmCfg, sm, smCfg, smReal, smAux, dl, linked, svc, dev>>

(* The DS is set up for a configuration, or drops its set: the port is at  *)
(* rest.                                                                   *)
LEMMA DsConfigured ==
  ASSUME TypeInv, PortInv, StoreInv, mbox # <<>>, Kind(Head(mbox)) \in {"DS_INIT", "DS_DELETE"}, DsStill,
         TakeAndPost(<<>>), dsState \in RestStates => dsState' \in RestStates,
         Kind(Head(mbox)) = "DS_INIT" =>
            /\ master' = master /\ ds'.pending = Head(mbox).cfg.id
            /\ ds'.download => Head(mbox).cfg.backup # "CHECK_NO",
         Kind(Head(mbox)) = "DS_DELETE" => ds' = ds /\ (dsState \in RestStates => ~master'.valid)
  PROVE  StoreInv'
<1>1. /\ portId' = portId /\ cm' = cm /\ cmCfg' = cmCfg /\ sm' = sm /\ smCfg' = smCfg
      /\ smReal' = smReal /\ smAux' = smAux /\ dl' = dl /\ linked' = linked /\ svc' = svc /\ dev' = dev
  BY DEF DsStill
<1>2. MboxTyped /\ mbox \in Seq(PortJob) /\ JobsSound /\ Announced(mbox) /\ Cleared /\ Tail(mbox) \in Seq(PortJob)
  BY SmFacts, HeadFacts DEF StoreInv, MboxTyped
<1>3. Waiting("SM_CFG")
  <2>1. Among({"SM_CFG"}, Tail(mbox))
    BY <1>2, AnnouncedTail
  <2> QED BY <1>2, <2>1, AmongTail DEF Waiting
<1>4. sm \in SmRest /\ dsState \in RestStates /\ svc = NoSvc /\ ~Among(Loud, mbox)
  BY <1>3 DEF PortInv, Configuring, Still, StoreInv, PartsSound
<1>5. ~Among(Vows, Tail(mbox)) /\ ~Among({"READ"}, Tail(mbox))
  <2>1. ~Among(Loud, Tail(mbox))
    BY <1>2, <1>4, AmongTail
  <2>2. Vows \subseteq Loud /\ "READ" \in Loud
    BY DEF Vows, Works, Loud, Calm, JobTypes, Asked
  <2> QED BY <2>1, <2>2 DEF Among
<1>6. Carried
  <2> DEFINE s == <<>>
  <2>0. s \in Seq(PortJob) /\ DOMAIN s = {}
    BY EmptyPost
  <2>1. AllSound(s, Allowed', dev', smAux'.addr, cmCfg')
    BY <2>0 DEF AllSound
  <2>2. mbox' = Tail(mbox) \o s
    BY DEF TakeAndPost
  <2> HIDE DEF s
  <2> QED BY <1>1, <1>2, <1>5, <2>0, <2>1, <2>2, JobsCarried
<1>7. Waiting("SM_CFG")' /\ (Waiting("DS_INIT") => Waiting("DS_INIT")' \/ Kind(Head(mbox)) = "DS_INIT")
  BY <1>3, <1>6 DEF Carried
<1>70. Cleared'
  <2>1. CASE Kind(Head(mbox)) = "DS_INIT"
    <3>1. ~Waiting("DS_INIT")'
      <4> DEFINE K == {"DS_INIT", "DS_DELETE"}
                 L == {"DS_INIT"}
      <4>1. NoneAfter("DS_INIT", K, mbox)
        BY DEF StoreInv, Cleared
      <4> HIDE DEF K
      <4>2. ~Among(K, Tail(mbox))
        BY <1>2, <2>1, <4>1, AfterTail
      <4>3. ~Among(L, Tail(mbox))
        BY <4>2 DEF Among, K
      <4> HIDE DEF L
      <4>4. mbox' = Tail(mbox) \o <<>>
        BY DEF TakeAndPost
      <4>5. mbox' = Tail(mbox)
        BY <1>2, <4>4
      <4> QED BY <4>3, <4>5 DEF Waiting, L
    <3> QED BY <1>6, <3>1 DEF Cleared, Carried
  <2>2. CASE Kind(Head(mbox)) = "DS_DELETE"
    BY <1>4, <1>6, <2>2 DEF Cleared, Carried
  <2> QED BY <2>1, <2>2
<1>71. master'.valid => master'.id # NoId
  <2>1. CASE Kind(Head(mbox)) = "DS_INIT"
    <3>1. ~Among({"DS_DELETE"}, mbox)
      <4> DEFINE K == {"DS_INIT", "DS_DELETE"}
                 L == {"DS_DELETE"}
      <4>1. NoneAfter("DS_INIT", K, mbox) /\ Kind(Head(mbox)) \notin L
        BY <2>1 DEF StoreInv, Cleared
      <4> HIDE DEF K
      <4>2. ~Among(K, Tail(mbox))
        BY <1>2, <2>1, <4>1, AfterTail
      <4>3. ~Among(L, Tail(mbox))
        BY <4>2 DEF Among, K
      <4> HIDE DEF L
      <4>4. ~Among(L, mbox)
        BY <1>2, <4>1, <4>3, AmongTail
      <4> QED BY <4>4 DEF L
    <3>2. Waiting("DS_INIT")
      BY <1>2, <2>1, AmongTail DEF Waiting
    <3> QED BY <2>1, <3>1, <3>2 DEF StoreInv, Cleared, Waiting
  <2>2. CASE Kind(Head(mbox)) = "DS_DELETE"
    BY <1>4, <2>2
  <2> QED BY <2>1, <2>2
<1>8. PartsSound'
  <2>1. ~Work'
    BY <1>1, <1>4 DEF Work, SmRest
  <2>2. sm' \notin {"waitonDLPreoperate", "waitonDLOperate", "checkSerNum"}
    BY <1>1, <1>4 DEF SmRest
  <2>3. cm' = "SM_Startup" => /\ cmCfg' \in Cfgs /\ cmCfg'.mode \in {"IOL_MAN", "IOL_AUTO"}
                              /\ Waiting("DS_INIT")' \/ Named'
    <3>1. cm = "SM_Startup" => cmCfg \in Cfgs /\ cmCfg.mode \in {"IOL_MAN", "IOL_AUTO"}
      BY DEF StoreInv, PartsSound
    <3>2. CASE Kind(Head(mbox)) = "DS_INIT"
      <4>1. Head(mbox).cfg = cmCfg
        BY <1>2, <3>2, WorkHead
      <4> QED BY <1>1, <3>1, <3>2, <4>1 DEF Named
    <3>3. CASE Kind(Head(mbox)) = "DS_DELETE"
      <4>1. ds' = ds
        BY <3>3
      <4>2. Named' <=> Named
        BY <1>1, <4>1 DEF Named
      <4> QED BY <1>1, <1>7, <3>3, <4>2 DEF StoreInv, PartsSound
    <3> QED BY <3>2, <3>3
  <2> QED BY <1>1, <1>4, <1>7, <2>1, <2>2, <2>3 DEF PartsSound
<1>9. ModeSound' /\ RevSound'
  BY <1>1 DEF StoreInv, ModeSound, RevSound, Legacy
<1>10. StoreSound'
  <2>1. dsState' \notin DlStates /\ svc'.dir = "none" /\ dsState' \in RestStates
    BY <1>1, <1>4 DEF RestStates, DlStates, NoSvc
  <2> QED BY <1>71, <2>1 DEF StoreSound
<1> QED BY <1>6, <1>70, <1>8, <1>9, <1>10 DEF StoreInv, Carried

(* Requests and reports that say nothing of the device. *)
Tame ==
    {s \in Seq(PortJob) : \A i \in DOMAIN s :
        \/ Kind(s[i]) \in {"AL_READ_REQ", "DS_FAULT"}
        \/ Kind(s[i]) = "AL_WRITE_REQ" /\ s[i].index \notin Params}

(* A step of the DS. *)
DsGoes ==
    /\ DsSame
    /\ dsState' \notin RestStates => Vetted /\ ~Starting /\ master'.id \in {NoId, dev.id}
    /\ ds.download /\ master'.valid => master'.id # NoId
    /\ dsState' \in DlStates => ds.download /\ master'.valid
    /\ Fits => master'.id = dev.id
    /\ \/ \E s \in Tame : TakeAndPost(s)
       \/ Vetted /\ ~Starting /\ TakeAndPost(<<Signal("DS_READY")>>)
       \/ ds.download /\ master'.id = dev.id
          /\ \E index \in DsIndexes, pos \in 0 .. N : TakeAndPost(<<WriteReq(index, pos)>>)

LEMMA TameFacts ==
    /\ <<>> \in Tame /\ <<Signal("DS_FAULT")>> \in Tame
    /\ \A index \in DsIndexes \ {"CMD"} : <<ReadReq(index)>> \in Tame
    /\ <<WriteReq("CMD", 0)>> \in Tame /\ <<WriteReq("CMD", 0), WriteReq("CMD", 0)>> \in Tame
<1>1. <<>> \in Tame
  BY EmptyPost DEF Tame
<1>2. ASSUME NEW x \in PortJob,
             \/ Kind(x) \in {"AL_READ_REQ", "DS_FAULT"}
             \/ Kind(x) = "AL_WRITE_REQ" /\ x.index \notin Params
      PROVE  <<x>> \in Tame /\ <<x, x>> \in Tame
  BY <1>2 DEF Tame
<1>3. <<Signal("DS_FAULT")>> \in Tame
  <2> DEFINE x == Signal("DS_FAULT")
  <2>1. x \in PortJob /\ Kind(x) = "DS_FAULT"
    BY SignalJob, SignalKind DEF JobTypes
  <2> HIDE DEF x
  <2>2. <<x>> \in Tame
    BY <1>2, <2>1
  <2> QED BY <2>2 DEF x
<1>4. \A index \in DsIndexes \ {"CMD"} : <<ReadReq(index)>> \in Tame
  <2> TAKE index \in DsIndexes \ {"CMD"}
  <2>1. index \in Indexes /\ index \notin {"SERNUM", "CYCL"}
    BY PortJobsAssumption DEF DsIndexes, Indexes
  <2> QED BY <1>2, <2>1, ReadIsJob, RequestKind
<1>5. <<WriteReq("CMD", 0)>> \in Tame /\ <<WriteReq("CMD", 0), WriteReq("CMD", 0)>> \in Tame
  <2>1. WriteReq("CMD", 0).index = "CMD" /\ "CMD" \notin Params
    BY PortJobsAssumption DEF WriteReq, Signal
  <2>2. WriteReq("CMD", 0) \in PortJob
    BY WriteIsJob, ListFacts
  <2> QED BY <1>2, <2>1, <2>2, RequestKind
<1> QED BY <1>1, <1>3, <1>4, <1>5

(* What the DS posts is sound. *)
LEMMA DsGoesSound ==
  ASSUME DsGoes, DsStill
  PROVE  \E s \in Seq(PortJob) :
            /\ TakeAndPost(s) /\ AllSound(s, Allowed', dev', smAux'.addr, cmCfg')
            /\ \A i \in DOMAIN s : Kind(s[i]) \notin {"SMI_CFG", "SM_CFG", "DS_INIT", "DS_DELETE"}
<1>1. /\ Vetted /\ ~Starting => Works \subseteq Allowed'
      /\ ds.download /\ master'.id = dev.id => "PARAM_WRITE" \in Allowed'
  BY DEF DsGoes, DsSame, DsStill, Allowed, Vetted, Starting, Fits
<1> DEFINE ok == Allowed'
           a == smAux'.addr
           d == dev'
           g == cmCfg'
<1>2. /\ Vetted /\ ~Starting => Works \subseteq ok
      /\ ds.download /\ master'.id = dev.id => "PARAM_WRITE" \in ok
  BY <1>1
<1> HIDE DEF ok, a, d, g
<1>3. ASSUME NEW s \in Tame, TakeAndPost(s)
      PROVE  /\ s \in Seq(PortJob) /\ AllSound(s, ok, d, a, g)
             /\ \A i \in DOMAIN s : Kind(s[i]) \notin {"SMI_CFG", "SM_CFG", "DS_INIT", "DS_DELETE"}
  <2>1. ASSUME NEW i \in DOMAIN s PROVE Sound(s[i], ok, d, a, g)
    <3> DEFINE j == s[i]
    <3>1. Kind(j) \in {"AL_READ_REQ", "DS_FAULT"} \/ (Kind(j) = "AL_WRITE_REQ" /\ j.index \notin Params)
      BY DEF Tame
    <3> HIDE DEF j
    <3>2. Sound(j, ok, d, a, g)
      BY <3>1 DEF Sound, Works
    <3> QED BY <3>2 DEF j
  <2> QED BY <2>1 DEF Tame, AllSound
<1>4. ASSUME Vetted /\ ~Starting
      PROVE  LET s == <<Signal("DS_READY")>>
             IN  /\ s \in Seq(PortJob) /\ AllSound(s, ok, d, a, g)
                 /\ \A i \in DOMAIN s : Kind(s[i]) \notin {"SMI_CFG", "SM_CFG", "DS_INIT", "DS_DELETE"}
  <2> DEFINE x == Signal("DS_READY")
  <2>1. x \in PortJob /\ Kind(x) = "DS_READY"
    BY SignalJob, SignalKind DEF JobTypes
  <2> HIDE DEF x
  <2>2. Sound(x, ok, d, a, g)
    BY <1>2, <1>4, <2>1 DEF Sound, Works
  <2>3. AllSound(<<x>>, ok, d, a, g)
    BY <2>2, SoundOne
  <2>4. <<x>> \in Seq(PortJob) /\ \A i \in DOMAIN <<x>> : Kind(<<x>>[i]) = "DS_READY"
    BY <2>1
  <2> QED BY <2>3, <2>4 DEF x
<1>5. ASSUME ds.download, master'.id = dev.id, NEW index \in DsIndexes, NEW pos \in 0 .. N
      PROVE  LET s == <<WriteReq(index, pos)>>
             IN  /\ s \in Seq(PortJob) /\ AllSound(s, ok, d, a, g)
                 /\ \A i \in DOMAIN s : Kind(s[i]) \notin {"SMI_CFG", "SM_CFG", "DS_INIT", "DS_DELETE"}
  <2> DEFINE x == WriteReq(index, pos)
  <2>1. index \in Indexes \cup {"CMD"} /\ index \notin {"SERNUM", "CYCL"}
    BY PortJobsAssumption DEF DsIndexes, Indexes
  <2>2. x \in PortJob /\ Kind(x) = "AL_WRITE_REQ"
    BY <2>1, WriteIsJob, RequestKind
  <2> HIDE DEF x
  <2>3. Sound(x, ok, d, a, g)
    BY <1>2, <1>5, <2>2 DEF Sound, Works
  <2>4. AllSound(<<x>>, ok, d, a, g)
    BY <2>3, SoundOne
  <2>5. <<x>> \in Seq(PortJob) /\ \A i \in DOMAIN <<x>> : Kind(<<x>>[i]) = "AL_WRITE_REQ"
    BY <2>2
  <2> QED BY <2>4, <2>5 DEF x
<1>6. \E s \in Seq(PortJob) :
            /\ TakeAndPost(s) /\ AllSound(s, ok, d, a, g)
            /\ \A i \in DOMAIN s : Kind(s[i]) \notin {"SMI_CFG", "SM_CFG", "DS_INIT", "DS_DELETE"}
  <2>1. CASE \E s \in Tame : TakeAndPost(s)
    BY <1>3, <2>1
  <2>2. CASE Vetted /\ ~Starting /\ TakeAndPost(<<Signal("DS_READY")>>)
    BY <1>4, <2>2
  <2>3. CASE ds.download /\ master'.id = dev.id
             /\ \E index \in DsIndexes, pos \in 0 .. N : TakeAndPost(<<WriteReq(index, pos)>>)
    BY <1>5, <2>3
  <2> QED BY <2>1, <2>2, <2>3 DEF DsGoes
<1> QED BY <1>6 DEF ok, a, d, g

LEMMA DsMoves ==
  ASSUME TypeInv, PortInv, StoreInv, mbox # <<>>, Kind(Head(mbox)) \in Loud, DsStill, DsGoes
  PROVE  StoreInv'
<1>1. /\ portId' = portId /\ cm' = cm /\ cmCfg' = cmCfg /\ sm' = sm /\ smCfg' = smCfg
      /\ smReal' = smReal /\ smAux' = smAux /\ dl' = dl /\ linked' = linked /\ svc' = svc /\ dev' = dev
      /\ ds'.pending = ds.pending /\ ds'.download = ds.download
  BY DEF DsStill, DsGoes, DsSame
<1>2. /\ (Vetted' <=> Vetted) /\ (Matches' <=> Matches) /\ (Starting' <=> Starting)
      /\ (Named' <=> Named) /\ (Fits => Fits')
  BY <1>1 DEF Vetted, Matches, Starting, Named, Fits, DsGoes
<1>3. Allowed \subseteq Allowed'
  BY <1>1, <1>2, AllowedKept DEF DsGoes
<1>4. Carried
  <2>1. PICK s \in Seq(PortJob) :
            /\ TakeAndPost(s) /\ AllSound(s, Allowed', dev', smAux'.addr, cmCfg')
            /\ \A i \in DOMAIN s : Kind(s[i]) \notin {"SMI_CFG", "SM_CFG", "DS_INIT", "DS_DELETE"}
    BY DsGoesSound
  <2>2. MboxTyped /\ JobsSound /\ Announced(mbox) /\ Cleared /\ Tail(mbox) \in Seq(PortJob)
    BY SmFacts, HeadFacts DEF StoreInv
  <2>3. mbox' = Tail(mbox) \o s
    BY <2>1 DEF TakeAndPost
  <2> QED BY <1>1, <1>3, <2>1, <2>2, <2>3, JobsCarried
<1>5. ~Waiting("SMI_CFG")' /\ ~Waiting("SM_CFG")' /\ ~Waiting("SM_CFG")
  BY <1>4, LoudHead DEF Carried
<1>6. Waiting("DS_INIT") => Waiting("DS_INIT")'
  BY <1>4 DEF Carried, Loud, Calm
<1>7. PartsSound'
  <2>1. Work' => Vetted' /\ ~Starting'
    <3>1. dsState' \notin RestStates => Vetted /\ ~Starting
      BY DEF DsGoes
    <3> QED BY <1>1, <1>2, <3>1 DEF StoreInv, PartsSound, Work
  <2>2. sm' = "SMOperate" /\ linked' /\ ~Waiting("SM_CFG")' => Vetted'
    BY <1>1, <1>2, <1>5 DEF StoreInv, PartsSound
  <2>3. sm' \in {"waitonDLPreoperate", "waitonDLOperate", "checkSerNum"} => smReal'.id = dev'.id
    BY <1>1 DEF StoreInv, PartsSound
  <2>4. cm' = "SM_Startup" => /\ cmCfg' \in Cfgs /\ cmCfg'.mode \in {"IOL_MAN", "IOL_AUTO"}
                              /\ Waiting("DS_INIT")' \/ Named'
    BY <1>1, <1>2, <1>6 DEF StoreInv, PartsSound
  <2> QED BY <1>5, <2>1, <2>2, <2>3, <2>4 DEF PartsSound
<1>8. ModeSound' /\ RevSound'
  BY <1>1 DEF StoreInv, ModeSound, RevSound, Legacy
<1>9. StoreSound'
  <2>1. svc'.dir = "write" /\ svc'.index \in Params => Fits'
    BY <1>1, <1>2 DEF StoreInv, StoreSound
  <2> QED BY <1>1, <1>2, <2>1 DEF DsGoes, StoreSound
<1>10. Cleared'
  <2>1. ~Waiting("DS_INIT")'
    BY <1>4, <1>5, AnnouncedWaiting DEF StoreInv, Carried
  <2> QED BY <1>4, <2>1 DEF Cleared, Carried
<1> QED BY <1>4, <1>7, <1>8, <1>9, <1>10 DEF StoreInv, Carried

(* The jobs of the rows of the DS. *)
Tamely == \E s \in Tame : TakeAndPost(s)

LEMMA TameSteps ==
    /\ \A state, index : index \in DsIndexes \ {"CMD"} /\ ReadIn(state, index) => Tamely /\ dsState' = state
    /\ \A state, c : WriteIn(state, c) => Tamely /\ dsState' = state /\ ds' = [ds EXCEPT !.command = c]
    /\ ReportFault => Tamely /\ dsState' = "WaitingOnDSActivity"
    /\ \A state : Enter(state, <<>>) => Tamely /\ dsState' = state
    /\ \A state : Enter(state, <<WriteReq("CMD", 0)>>) => Tamely /\ dsState' = state
    /\ \A state : Enter(state, <<WriteReq("CMD", 0), WriteReq("CMD", 0)>>) => Tamely /\ dsState' = state
    /\ TakeAndPost(<<>>) => Tamely
  BY TameFacts DEF Tamely, ReadIn, WriteIn, ReportFault, Enter

(* The identity and the validity of the set stay. *)
StoreStill == master'.id = master.id /\ master'.valid = master.valid /\ DsSame

LEMMA DsStays ==
  ASSUME StoreInv, StoreStill,
         dsState' \in RestStates \/ dsState \notin RestStates \/ (Vetted /\ ~Starting /\ master.id \in {NoId, dev.id}),
         dsState' \in DlStates => dsState \in DlStates \/ (ds.download /\ master.valid),
         \/ Tamely
         \/ Vetted /\ ~Starting /\ TakeAndPost(<<Signal("DS_READY")>>)
         \/ /\ dsState \in DlStates
            /\ \E index \in DsIndexes, pos \in 0 .. N : TakeAndPost(<<WriteReq(index, pos)>>)
  PROVE  DsGoes
<1>1. /\ dsState \notin RestStates => Vetted /\ ~Starting
      /\ dsState \notin RestStates => master.id \in {NoId, dev.id}
      /\ dsState \in DlStates => ds.download /\ master.valid
      /\ ds.download /\ master.valid => master.id # NoId
      /\ master'.id = master.id /\ master'.valid = master.valid /\ DsSame
  BY DEF StoreInv, PartsSound, Work, StoreSound, StoreStill, DsSame
<1>2. dsState \in DlStates => ds.download /\ master'.id = dev.id
  BY <1>1 DEF DlStates, RestStates
<1>3. \/ \E s \in Tame : TakeAndPost(s)
      \/ Vetted /\ ~Starting /\ TakeAndPost(<<Signal("DS_READY")>>)
      \/ /\ ds.download /\ master'.id = dev.id
         /\ \E index \in DsIndexes, pos \in 0 .. N : TakeAndPost(<<WriteReq(index, pos)>>)
  BY <1>2 DEF Tamely
<1>4. dsState' \notin RestStates => Vetted /\ ~Starting /\ master'.id \in {NoId, dev.id}
  BY <1>1
<1>5. dsState' \in DlStates => ds.download /\ master'.valid
  BY <1>1
<1>6. Fits => master'.id = dev.id
  BY <1>1 DEF Fits
<1> QED BY <1>1, <1>3, <1>4, <1>5, <1>6 DEF DsGoes

(* What the rows change. *)
LEMMA DsKeepsPending ==
  ASSUME NEW d \in DsRecord
  PROVE  /\ \A c : LET e == [d EXCEPT !.command = c] IN e.pending = d.pending /\ e.download = d.download
         /\ \A cs : LET e == [d EXCEPT !.cs = cs] IN e.pending = d.pending /\ e.download = d.download
         /\ \A cs, c : LET e == [d EXCEPT !.cs = cs, !.command = c] IN e.pending = d.pending /\ e.download = d.download
         /\ \A b : LET e == [d EXCEPT !.enable = b] IN e.pending = d.pending /\ e.download = d.download
         /\ \A i : LET e == [d EXCEPT !.il = i] IN e.pending = d.pending /\ e.download = d.download
  BY DEF DsRecord

LEMMA StoreKeepsId ==
  ASSUME NEW m \in Store
  PROVE  /\ \A i : [m EXCEPT !.pos = i].id = m.id /\ [m EXCEPT !.pos = i].valid = m.valid
         /\ \A i, p, v, z : LET e == [m EXCEPT !.pos = i, !.data[p] = v, !.size = z]
                            IN  e.id = m.id /\ e.valid = m.valid
  BY DEF Store

(* The rows, one by one. *)
LEMMA IgnoreGoes ==
  ASSUME StoreInv, Ignore PROVE DsGoes
<1>1. Tamely /\ dsState' = dsState /\ ds' = ds /\ master' = master
  BY TameSteps DEF Ignore, dsVars
<1> QED BY <1>1, DsStays DEF StoreStill, DsSame

LEMMA BreakOffGoes ==
  ASSUME TypeInv, StoreInv, dsState \notin RestStates, BreakOff PROVE DsGoes
<1>1. /\ Tamely /\ dsState' = "DS_Fault" /\ ds' = [ds EXCEPT !.command = "BREAK"] /\ master' = master
  BY TameSteps DEF BreakOff
<1>2. StoreStill
  BY <1>1, DsFacts, DsKeepsPending DEF StoreStill, DsSame
<1> QED BY <1>1, <1>2, DsStays DEF DlStates

LEMMA ComErrGoes ==
  ASSUME TypeInv, StoreInv, ComErr PROVE DsGoes
<1>1. CASE dsState \in {"ReadParameter", "StoreDataSet", "Write_Parameter", "Download_Done"} /\ BreakOff
  BY <1>1, BreakOffGoes DEF RestStates
<1>2. CASE Enter("WaitingOnDSActivity", <<>>) /\ UNCHANGED <<ds, master, saved>>
  <2>1. Tamely /\ dsState' = "WaitingOnDSActivity" /\ StoreStill
    BY <1>2, TameSteps DEF StoreStill, DsSame
  <2> QED BY <2>1, DsStays DEF RestStates, DlStates
<1>3. CASE Ignore
  BY <1>3, IgnoreGoes
<1> QED BY <1>1, <1>2, <1>3 DEF ComErr

(* The identity of the device is compared with that of the set. *)
LEMMA CheckIdGoes ==
  ASSUME StoreInv, Vetted, ~Starting, CheckId PROVE DsGoes
<1>1. StoreStill
  BY DEF CheckId, StoreStill, DsSame
<1>2. CASE master.id \in {NoId, portId} /\ ReadIn("CheckIdentity", "SIZE")
  <2>1. Tamely /\ dsState' = "CheckIdentity"
    BY <1>2, TameSteps, PortJobsAssumption DEF DsIndexes
  <2>2. master.id \in {NoId, dev.id}
    BY <1>2 DEF Vetted
  <2> QED BY <1>1, <2>1, <2>2, DsStays DEF DlStates
<1>3. CASE ReportFault
  <2>1. Tamely /\ dsState' \in RestStates /\ dsState' \notin DlStates
    BY <1>3, TameSteps DEF RestStates, DlStates
  <2> QED BY <1>1, <2>1, DsStays
<1> QED BY <1>2, <1>3 DEF CheckId

LEMMA StartGoes ==
  ASSUME TypeInv, StoreInv, mbox # <<>>, DsStartupCb \/ DsUploadCb PROVE DsGoes
<1>1. Vetted /\ ~Starting
  <2>1. Kind(Head(mbox)) \in Works
    BY HeadKind DEF DsStartupCb, DsUploadCb, Take, Plain, JobTypes, Works
  <2> QED BY <2>1, SmFacts, WorkHead DEF StoreInv
<1>2. CASE CheckId
  BY <1>1, <1>2, CheckIdGoes
<1>3. CASE Ignore
  BY <1>3, IgnoreGoes
<1>4. CASE Enter("Off", <<Signal("DS_READY")>>) /\ UNCHANGED <<ds, master, saved>>
  <2>1. StoreStill /\ dsState' \in RestStates /\ dsState' \notin DlStates
    BY <1>4 DEF Enter, StoreStill, DsSame, RestStates, DlStates
  <2>2. TakeAndPost(<<Signal("DS_READY")>>)
    BY <1>4 DEF Enter
  <2> QED BY <1>1, <2>1, <2>2, DsStays
<1> QED BY <1>2, <1>3, <1>4 DEF DsStartupCb, DsUploadCb

(* The DS has read its indexes in the order of the states. *)
LEMMA ReadsGo ==
  ASSUME TypeInv, StoreInv, SizeRead \/ StateRead \/ StoreRead \/ DownloadRead PROVE DsGoes
<1>0. ds \in DsRecord /\ master' = master /\ dsState \notin RestStates
      /\ {"SIZE", "STATE", "CHECKSUM", "LIST"} \subseteq DsIndexes \ {"CMD"}
  BY DsFacts, PortJobsAssumption DEF SizeRead, StateRead, StoreRead, DownloadRead, RestStates, DsIndexes
<1>1. CASE SizeRead
  <2>1. Tamely /\ dsState' \in {"CheckMemSize", "WaitingOnDSActivity"} /\ StoreStill
    BY <1>0, <1>1, TameSteps DEF SizeRead, StoreStill, DsSame
  <2> QED BY <1>0, <2>1, DsStays DEF DlStates
<1>2. CASE StateRead
  <2>1. Tamely /\ dsState' \in {"CheckUpload", "WaitingOnDSActivity"}
    BY <1>0, <1>2, TameSteps DEF StateRead
  <2>2. ds' = ds \/ ds' = [ds EXCEPT !.enable = FALSE] \/ ds' = [ds EXCEPT !.command = "UL_START"]
    BY <1>2 DEF StateRead, WriteIn
  <2>3. DsSame
    BY <1>0, <2>2 DEF DsRecord, DsSame
  <2> QED BY <1>0, <2>1, <2>3, DsStays DEF DlStates, StoreStill, DsSame
<1>3. CASE StoreRead
  <2>1. Tamely /\ dsState' \in {"DS_Fault", "StoreDataSet"}
    BY <1>3, TameSteps DEF StoreRead
  <2>2. \E cs \in ReadChecksum : ds' = [ds EXCEPT !.cs = cs, !.command = "UL_END"]
    BY <1>3 DEF StoreRead
  <2>3. DsSame
    BY <1>0, <2>2, DsKeepsPending DEF DsSame
  <2> QED BY <1>0, <2>1, <2>3, DsStays DEF DlStates, StoreStill, DsSame
<1>4. CASE DownloadRead
  <2>0. \E cs \in ReadChecksum : ds' = [ds EXCEPT !.cs = cs] \/ ds' = [ds EXCEPT !.cs = cs, !.command = "BREAK"]
    BY <1>4 DEF DownloadRead
  <2>1. DsSame
    BY <1>0, <2>0 DEF DsRecord, DsSame
  <2>2. \/ Tamely /\ dsState' = "DS_Fault"
        \/ TakeAndPost(<<Signal("DS_READY")>>) /\ dsState' = "WaitingOnDSActivity"
    BY <1>4, TameSteps DEF DownloadRead, ReportReady, Enter
  <2>3. Vetted /\ ~Starting
    BY <1>0 DEF StoreInv, PartsSound, Work
  <2> QED BY <1>0, <2>1, <2>2, <2>3, DsStays DEF DlStates, StoreStill, DsSame
<1> QED BY <1>1, <1>2, <1>3, <1>4

LEMMA ChecksumGoes ==
  ASSUME TypeInv, StoreInv, ChecksumRead PROVE DsGoes
<1>1. ds \in DsRecord /\ master' = master /\ dsState \notin RestStates
  BY DsFacts DEF ChecksumRead, RestStates
<1>2. PICK cs \in ReadChecksum :
          \/ /\ ~master.valid
             /\ ds' = [ds EXCEPT !.cs = cs, !.command = "UL_START"]
             /\ Enter("CheckDSValidity", <<WriteReq("CMD", 0)>>)
          \/ /\ master.valid /\ ds.download /\ master.cs # cs
             /\ ds' = [ds EXCEPT !.cs = cs, !.command = "DL_START"]
             /\ Enter("Decompose_Set", <<WriteReq("CMD", 0)>>)
          \/ /\ master.valid /\ ~(ds.download /\ master.cs # cs)
             /\ ds' = [ds EXCEPT !.cs = cs]
             /\ ReportReady
  BY DEF ChecksumRead
<1>3. StoreStill
  <2>1. \/ ds' = [ds EXCEPT !.cs = cs] \/ ds' = [ds EXCEPT !.cs = cs, !.command = "UL_START"]
        \/ ds' = [ds EXCEPT !.cs = cs, !.command = "DL_START"]
    BY <1>2
  <2>2. DsSame
    BY <1>1, <2>1 DEF DsRecord, DsSame
  <2> QED BY <1>1, <2>2 DEF StoreStill, DsSame
<1>4. \/ Tamely /\ dsState' = "CheckDSValidity"
      \/ Tamely /\ dsState' = "Decompose_Set" /\ ds.download /\ master.valid
      \/ TakeAndPost(<<Signal("DS_READY")>>) /\ dsState' = "WaitingOnDSActivity"
  BY <1>2, TameSteps DEF ReportReady, Enter
<1>5. Vetted /\ ~Starting
  BY <1>1 DEF StoreInv, PartsSound, Work
<1> QED BY <1>1, <1>3, <1>4, <1>5, DsStays DEF DlStates

LEMMA ParameterGoes ==
  ASSUME TypeInv, StoreInv, ParameterRead PROVE DsGoes
<1>1. ds \in DsRecord /\ master \in Store /\ dsState = "ReadParameter" /\ dsState \notin RestStates
  BY DsFacts DEF ParameterRead, RestStates
<1>2. CASE BreakOff
  BY <1>1, <1>2, BreakOffGoes
<1>3. CASE Head(mbox).res = "OK" /\ ~BreakOff
  <2>1. master'.id = master.id /\ master'.valid = master.valid
    <3>1. CASE ds.il > 0 /\ master.pos < N
      <4>1. master' = [master EXCEPT !.pos = @ + 1, !.data[master.pos + 1] = ReadValue,
                                     !.size = IF ds.il < N THEN @ ELSE master.pos + 1]
        BY <1>3, <3>1 DEF ParameterRead
      <4> QED BY <1>1, <4>1 DEF Store
    <3>2. CASE ~(ds.il > 0 /\ master.pos < N)
      BY <1>3, <3>2 DEF ParameterRead
    <3> QED BY <3>1, <3>2
  <2>2. DsSame
    <3>1. ds' = ds \/ ds' = [ds EXCEPT !.il = @ + 1]
      BY <1>3 DEF ParameterRead
    <3> QED BY <1>1, <3>1 DEF DsRecord, DsSame
  <2>3. Tamely /\ dsState' \in {"ReadParameter", "StoreDataSet"}
    <3>1. CASE ds.il < N
      <4>1. IndexList[ds.il + 1] \in DsIndexes \ {"CMD"}
        <5>1. ds.il + 1 \in 1 .. N
          BY <3>1, DsFacts, ListFacts
        <5> QED BY <5>1, ListFacts, PortJobsAssumption DEF DsIndexes
      <4>2. ReadIn("ReadParameter", IndexList[ds.il + 1])
        BY <1>3, <3>1 DEF ParameterRead
      <4> QED BY <4>1, <4>2, TameSteps
    <3>2. CASE ~(ds.il < N)
      <4>1. ReadIn("StoreDataSet", "CHECKSUM")
        BY <1>3, <3>2 DEF ParameterRead
      <4> QED BY <4>1, TameSteps, PortJobsAssumption DEF DsIndexes
    <3> QED BY <3>1, <3>2
  <2> QED BY <1>1, <2>1, <2>2, <2>3, DsStays DEF DlStates, StoreStill, DsSame
<1> QED BY <1>2, <1>3 DEF ParameterRead

(* The parameters of the set are written one after the other. *)
LEMMA WriteNextGoes ==
  ASSUME TypeInv, StoreInv, dsState \in DlStates, NEW pos \in 0 .. N, WriteNext(pos) PROVE DsGoes
<1>1. ds \in DsRecord /\ master \in Store /\ dsState \notin RestStates
  BY DsFacts DEF DlStates, RestStates
<1>2. CASE pos < master.size
  <2>1. pos + 1 \in 1 .. N /\ pos + 1 \in 0 .. N
    BY <1>2, DsFacts, ListFacts
  <2>2. IndexList[pos + 1] \in DsIndexes
    BY <2>1, ListFacts DEF DsIndexes
  <2>3. TakeAndPost(<<WriteReq(IndexList[pos + 1], pos + 1)>>) /\ dsState' = "Write_Parameter"
    BY <1>2 DEF WriteNext, Enter
  <2>4. StoreStill
    <3>1. master' = [master EXCEPT !.pos = pos + 1] /\ ds' = ds
      BY <1>2 DEF WriteNext
    <3> QED BY <1>1, <3>1, StoreKeepsId DEF StoreStill, DsSame
  <2>5. \E index \in DsIndexes, p \in 0 .. N : TakeAndPost(<<WriteReq(index, p)>>)
    BY <2>1, <2>2, <2>3
  <2> QED BY <1>1, <2>3, <2>4, <2>5, DsStays
<1>3. CASE ~(pos < master.size)
  <2>1. WriteIn("Download_Done", "DL_END") /\ master' = [master EXCEPT !.pos = pos]
    BY <1>3 DEF WriteNext
  <2>2. Tamely /\ ds' = [ds EXCEPT !.command = "DL_END"]
    BY <2>1, TameSteps
  <2>3. StoreStill
    BY <1>1, <2>1, <2>2, StoreKeepsId, DsKeepsPending DEF StoreStill, DsSame
  <2> QED BY <1>1, <2>2, <2>3, DsStays
<1> QED BY <1>2, <1>3

LEMMA UploadEndedGoes ==
  ASSUME TypeInv, StoreInv, UploadEnded PROVE DsGoes
<1>1. Vetted /\ ~Starting
  BY DEF StoreInv, PartsSound, Work, UploadEnded, RestStates
<1>2. master \in Store /\ dev.id # NoId
  <2>1. dev \in Device
    BY DEF TypeInv, EnvTyped
  <2> QED BY <2>1, DsFacts, PortJobsAssumption DEF Device
<1>3. master'.id = ds.pending /\ ds' = ds
  BY <1>2 DEF UploadEnded, Store
<1>4. dsState' \in RestStates /\ dsState' \notin DlStates /\ TakeAndPost(<<Signal("DS_READY")>>)
  BY DEF UploadEnded, ReportReady, Enter, RestStates, DlStates
<1>5. Fits => master'.id = dev.id
  BY <1>1, <1>3 DEF Fits, Vetted
<1> QED BY <1>1, <1>2, <1>3, <1>4, <1>5 DEF DsGoes, DsSame, Vetted

LEMMA WriteCnfGoes ==
  ASSUME TypeInv, StoreInv, DsWriteCnf PROVE DsGoes
<1>0. ds \in DsRecord /\ master \in Store /\ master.pos \in 0 .. N /\ 0 \in 0 .. N
      /\ {"CHECKSUM", "LIST"} \subseteq DsIndexes \ {"CMD"}
  BY DsFacts, ListFacts, PortJobsAssumption DEF DsIndexes
<1>1. CASE UploadStarted
  <2>1. Tamely /\ dsState' = "ReadParameter" /\ dsState \notin RestStates
    BY <1>0, <1>1, TameSteps DEF UploadStarted, RestStates
  <2>2. StoreStill
    BY <1>0, <1>1, StoreKeepsId, DsKeepsPending DEF UploadStarted, StoreStill, DsSame
  <2> QED BY <2>1, <2>2, DsStays DEF DlStates
<1>2. CASE DownloadStarted \/ ParameterWritten
  BY <1>0, <1>2, WriteNextGoes DEF DownloadStarted, ParameterWritten, DlStates
<1>3. CASE DownloadEnded
  <2>1. Tamely /\ dsState \in DlStates /\ dsState \notin RestStates /\ StoreStill
    BY <1>0, <1>3, TameSteps DEF DownloadEnded, DlStates, RestStates, StoreStill, DsSame
  <2> QED BY <2>1, DsStays
<1>4. CASE BrokenOff
  <2>1. Tamely /\ dsState' = "WaitingOnDSActivity" /\ StoreStill
    BY <1>4, TameSteps DEF BrokenOff, StoreStill, DsSame
  <2> QED BY <2>1, DsStays DEF DlStates, RestStates
<1> QED BY <1>1, <1>2, <1>3, <1>4, UploadEndedGoes, ComErrGoes, IgnoreGoes DEF DsWriteCnf

LEMMA DsStore ==
  ASSUME TypeInv, PortInv, StoreInv, DsStep
  PROVE  StoreInv'
<1>1. DsStill /\ DsJob /\ mbox # <<>>
  BY DEF DsStep, DsStill, DsJob, cmVars, smVars, dlVars, envVars, DsInitCb, DsDeleteCb, DsStartupCb,
         DsUploadCb, DsReadCnf, DsWriteCnf, Take
<1>2. CASE DsInitCb \/ DsDeleteCb
  <2>1. Kind(Head(mbox)) = IF DsInitCb THEN "DS_INIT" ELSE "DS_DELETE"
    BY <1>2, HeadKind DEF DsInitCb, DsDeleteCb, Take, Plain, JobTypes
  <2>2. TakeAndPost(<<>>)
    BY <1>2 DEF DsInitCb, DsDeleteCb, Enter
  <2>3. dsState \in RestStates => dsState' \in RestStates
    BY <1>2 DEF DsInitCb, DsDeleteCb, Enter, RestStates
  <2>4. master \in Store /\ ds \in DsRecord
    BY DsFacts
  <2>5. Kind(Head(mbox)) = "DS_INIT" =>
            /\ master' = master /\ ds'.pending = Head(mbox).cfg.id
            /\ ds'.download => Head(mbox).cfg.backup # "CHECK_NO"
    BY <1>2, <2>1, <2>4 DEF DsInitCb, DsDeleteCb, DsRecord
  <2>6. Kind(Head(mbox)) = "DS_DELETE" => ds' = ds /\ (dsState \in RestStates => ~master'.valid)
    BY <1>2, <2>1, <2>4 DEF DsInitCb, DsDeleteCb, Store
  <2> QED BY <1>1, <2>1, <2>2, <2>3, <2>5, <2>6, DsConfigured
<1>3. CASE DsStartupCb \/ DsUploadCb \/ DsReadCnf \/ DsWriteCnf
  <2>1. Kind(Head(mbox)) \in Loud
    BY <1>3, HeadKind DEF DsStartupCb, DsUploadCb, DsReadCnf, DsWriteCnf, Take, Plain, JobTypes, Loud, Calm
  <2>2. DsReadCnf => DsGoes
    BY ReadsGo, ChecksumGoes, ParameterGoes, ComErrGoes, IgnoreGoes DEF DsReadCnf
  <2>3. DsGoes
    BY <1>1, <1>3, <2>2, StartGoes, WriteCnfGoes
  <2> QED BY <1>1, <2>1, <2>3, DsMoves
<1> QED BY <1>1, <1>2, <1>3 DEF DsJob

-----------------------------------------------------------------------------
(* The AL.                                                                 *)

AlStill == UNCHANGED <<portId, cm, cmCfg, dsState, ds, master, sm, smCfg, smReal, smAux, linked, dev>>

LEMMA AlMoves ==
  ASSUME TypeInv, PortInv, StoreInv, mbox # <<>>, Kind(Head(mbox)) \in Loud, AlStill,
         dl'.mode = dl.mode, dl'.mdh = dl.mdh, NEW s \in Mute, TakeAndPost(s),
         svc'.dir = "write" /\ svc'.index \in Params => Fits
  PROVE  StoreInv'
<1>1. /\ portId' = portId /\ cm' = cm /\ cmCfg' = cmCfg /\ dsState' = dsState /\ ds' = ds
      /\ master' = master /\ sm' = sm /\ smCfg' = smCfg /\ smReal' = smReal /\ smAux' = smAux
      /\ linked' = linked /\ dev' = dev
  BY DEF AlStill
<1>2. /\ (Vetted' <=> Vetted) /\ (Matches' <=> Matches) /\ (Starting' <=> Starting)
      /\ (Named' <=> Named) /\ (Fits' <=> Fits)
  BY <1>1 DEF Vetted, Matches, Starting, Named, Fits
<1>3. Allowed \subseteq Allowed'
  BY <1>1, <1>2, AllowedKept
<1>4. Carried
  <2>1. /\ s \in Seq(PortJob) /\ AllSound(s, Allowed', dev', smAux'.addr, cmCfg')
        /\ \A i \in DOMAIN s : Kind(s[i]) \notin {"SMI_CFG", "SM_CFG", "DS_INIT", "DS_DELETE"}
    BY MuteSound
  <2>2. MboxTyped /\ JobsSound /\ Announced(mbox) /\ Cleared /\ Tail(mbox) \in Seq(PortJob)
    BY SmFacts, HeadFacts DEF StoreInv
  <2>3. mbox' = Tail(mbox) \o s
    BY DEF TakeAndPost
  <2> QED BY <1>1, <1>3, <2>1, <2>2, <2>3, JobsCarried
<1>5. ~Waiting("SMI_CFG")' /\ ~Waiting("SM_CFG")' /\ ~Waiting("SM_CFG")
  BY <1>4, LoudHead DEF Carried
<1>6. Waiting("DS_INIT") => Waiting("DS_INIT")'
  BY <1>4 DEF Carried, Loud, Calm
<1>7. PartsSound'
  <2>1. Work' => Vetted' /\ ~Starting'
    BY <1>1, <1>2 DEF StoreInv, PartsSound, Work
  <2>2. sm' = "SMOperate" /\ linked' /\ ~Waiting("SM_CFG")' => Vetted'
    BY <1>1, <1>2, <1>5 DEF StoreInv, PartsSound
  <2>3. sm' \in {"waitonDLPreoperate", "waitonDLOperate", "checkSerNum"} => smReal'.id = dev'.id
    BY <1>1 DEF StoreInv, PartsSound
  <2>4. cm' = "SM_Startup" => /\ cmCfg' \in Cfgs /\ cmCfg'.mode \in {"IOL_MAN", "IOL_AUTO"}
                              /\ Waiting("DS_INIT")' \/ Named'
    BY <1>1, <1>2, <1>6 DEF StoreInv, PartsSound
  <2> QED BY <1>5, <2>1, <2>2, <2>3, <2>4 DEF PartsSound
<1>8. ModeSound' /\ RevSound'
  BY <1>1 DEF StoreInv, ModeSound, RevSound, Legacy
<1>9. StoreSound'
  BY <1>1, <1>2 DEF StoreInv, StoreSound
<1>10. Cleared'
  <2>1. ~Waiting("DS_INIT")'
    BY <1>4, <1>5, AnnouncedWaiting DEF StoreInv, Carried
  <2> QED BY <1>4, <2>1 DEF Cleared, Carried
<1> QED BY <1>4, <1>7, <1>8, <1>9, <1>10 DEF StoreInv, Carried

(* An answer of the AL, and of the DL to it, says nothing of the device. *)
LEMMA AlCnfMute ==
  ASSUME NEW dir \in {"none", "read", "write"}, NEW index \in Indexes \cup {"CMD"},
         NEW res \in Results, NEW snap \in Snapshot
  PROVE  <<AlCnf(dir, index, res, snap)>> \in Mute
<1> DEFINE x == AlCnf(dir, index, res, snap)
<1>1. x \in PortJob /\ Kind(x) \in IF index \in {"SERNUM", "CYCL"} THEN {index} ELSE {"AL_READ_CNF", "AL_WRITE_CNF"}
  BY AlCnfKind
<1> HIDE DEF x
<1>2. Kind(x) \notin Grave
  BY <1>1 DEF Grave, Vows, Works
<1>3. <<x>> \in Mute
  BY <1>1, <1>2, MuteOne
<1> QED BY <1>3 DEF x

LEMMA AlStore ==
  ASSUME TypeInv, PortInv, StoreInv, AlBusy \/ AlService \/ AlConfirm
  PROVE  StoreInv'
<1>1. MboxTyped /\ svc \in Service /\ dl \in DlRecord
  BY SmFacts DEF TypeInv, EnvTyped
<1>2. CASE AlBusy
  <2>1. /\ mbox # <<>> /\ Head(mbox).index \in Indexes \cup {"CMD"} /\ Kind(Head(mbox)) \in Loud
    BY <1>2, AlHead DEF AlBusy
  <2>2. AlStill /\ dl' = dl /\ svc' = svc
    BY <1>2 DEF AlBusy, AlStill, cmVars, dsVars, smVars, dlVars, envVars
  <2> DEFINE s == <<AlCnf(ReqDir, Head(mbox).index, "BUSY", NoSnap)>>
  <2>3. s \in Mute
    BY <2>1, WildFacts, AlCnfMute DEF ReqDir, Results
  <2>4. TakeAndPost(s)
    BY <1>2 DEF AlBusy
  <2> HIDE DEF s
  <2>5. svc'.dir = "write" /\ svc'.index \in Params => Fits
    BY <2>2 DEF StoreInv, StoreSound
  <2> QED BY <2>1, <2>2, <2>3, <2>4, <2>5, AlMoves
<1>3. CASE AlService
  <2>1. /\ mbox # <<>> /\ Head(mbox).index \in Indexes \cup {"CMD"} /\ Kind(Head(mbox)) \in Loud
        /\ Kind(Head(mbox)) = IF Head(mbox).index \in {"SERNUM", "CYCL"} THEN Head(mbox).index
                              ELSE Head(mbox).type
    BY <1>3, AlHead DEF AlService
  <2>2. AlStill
    BY <1>3 DEF AlService, AlStill, cmVars, dsVars, smVars, envVars
  <2>3. PICK s \in Mute : TakeAndPost(s)
    <3>1. <<>> \in Mute /\ <<ParamCnf("ERR")>> \in Mute /\ <<IsduCnf("ERR", NoSnap)>> \in Mute
      BY MuteFacts, WildFacts DEF Results
    <3>2. \/ TakeAndPost(<<>>) \/ TakeAndPost(<<ParamCnf("ERR")>>)
          \/ TakeAndPost(<<IsduCnf("ERR", NoSnap)>>)
      BY <1>3 DEF AlService
    <3> QED BY <3>1, <3>2
  <2>4. dl'.mode = dl.mode /\ dl'.mdh = dl.mdh
    <3>1. dl' = DL_WriteParam_req(dl) \/ dl' = DL_ISDUTransport_req(dl) \/ dl' = dl
      BY <1>3 DEF AlService
    <3>2. /\ DL_WriteParam_req(dl).mode = dl.mode /\ DL_WriteParam_req(dl).mdh = dl.mdh
      BY <1>1, DlShape DEF DL_WriteParam_req
    <3>3. /\ DL_ISDUTransport_req(dl).mode = dl.mode /\ DL_ISDUTransport_req(dl).mdh = dl.mdh
      BY <1>1, DlShape DEF DL_ISDUTransport_req
    <3> QED BY <3>1, <3>2, <3>3
  <2>5. svc'.dir = "write" /\ svc'.index \in Params => Fits
    <3>1. svc'.dir = ReqDir /\ svc'.index = Head(mbox).index
      BY <1>3 DEF AlService
    <3>2. svc'.dir = "write" /\ svc'.index \in Params => Kind(Head(mbox)) = "AL_WRITE_REQ"
      BY <1>3, <2>1, <3>1, PortJobsAssumption DEF ReqDir, AlService, AlReq
    <3> QED BY <1>1, <2>1, <3>1, <3>2, WorkHead DEF StoreInv
  <2> QED BY <2>1, <2>2, <2>3, <2>4, <2>5, AlMoves
<1>4. CASE AlConfirm
  <2>1. mbox # <<>> /\ Kind(Head(mbox)) \in Loud
    BY <1>4, HeadKind DEF AlConfirm, Take, Plain, JobTypes, Loud, Calm
  <2>2. AlStill /\ dl' = dl
    BY <1>4 DEF AlConfirm, AlStill, cmVars, dsVars, smVars, dlVars, envVars
  <2>3. PICK s \in Mute : TakeAndPost(s)
    <3>1. <<>> \in Mute
      BY MuteFacts
    <3>2. <<AlCnf(svc.dir, svc.index, Head(mbox).res, Head(mbox).snap)>> \in Mute
      BY <1>1, <2>1, HeadFacts, AlCnfMute DEF Service
    <3>3. TakeAndPost(<<>>) \/ TakeAndPost(<<AlCnf(svc.dir, svc.index, Head(mbox).res, Head(mbox).snap)>>)
      BY <1>4 DEF AlConfirm
    <3> QED BY <3>1, <3>2, <3>3
  <2>4. svc'.dir = "write" /\ svc'.index \in Params => Fits
    <3>1. svc' = NoSvc \/ svc' = svc
      BY <1>4 DEF AlConfirm
    <3> QED BY <3>1 DEF NoSvc, StoreInv, StoreSound
  <2> QED BY <2>1, <2>2, <2>3, <2>4, AlMoves
<1> QED BY <1>2, <1>3, <1>4

-----------------------------------------------------------------------------
(* The SM. *)

SmStill == UNCHANGED <<portId, cm, cmCfg, dsState, master, linked, svc, dev>>

LEMMA SmMoves ==
  ASSUME TypeInv, PortInv, StoreInv, mbox # <<>>, SmStill, DsSame,
         NEW s \in Seq(PortJob), TakeAndPost(s), AllSound(s, Allowed', dev', smAux'.addr, cmCfg'),
         \A i \in DOMAIN s : Kind(s[i]) \notin {"SMI_CFG", "SM_CFG", "DS_INIT", "DS_DELETE"},
         \/ Starting
         \/ ~Among(Vows, Tail(mbox)) /\ dsState \in RestStates
         \/ smReal'.id = smReal.id /\ smCfg' = smCfg /\ ~Starting',
         smAux'.addr = smAux.addr \/ ~Among({"READ"}, Tail(mbox)),
         sm' \in {"write_master_cycl", "wait_devmode_cnf"} => Vetted' /\ ~Starting',
         sm' = "SMOperate" => /\ sm = "SMOperate" \/ Vetted
                              /\ smReal'.id = smReal.id /\ Kind(Head(mbox)) # "SM_CFG",
         sm' \in {"waitonDLPreoperate", "waitonDLOperate", "checkSerNum"} => smReal'.id = dev.id,
         Kind(Head(mbox)) \notin {"DS_INIT", "DS_DELETE"}, ModeSound', RevSound'
  PROVE  StoreInv'
<1>1. /\ portId' = portId /\ cm' = cm /\ cmCfg' = cmCfg /\ dsState' = dsState /\ master' = master
      /\ linked' = linked /\ svc' = svc /\ dev' = dev
      /\ ds'.pending = ds.pending /\ ds'.download = ds.download
  BY DEF SmStill, DsSame
<1>2. /\ smReal'.id = smReal.id => (Vetted' <=> Vetted)
      /\ (Named' <=> Named) /\ (Fits' <=> Fits)
  BY <1>1 DEF Vetted, Named, Fits
<1>3. Allowed \subseteq Allowed' \/ ~Among(Vows, Tail(mbox))
  <2>1. CASE Starting \/ (smReal'.id = smReal.id /\ smCfg' = smCfg /\ ~Starting')
    <3>1. Vetted /\ ~Starting => Vetted' /\ ~Starting'
      BY <1>2, <2>1
    <3>2. smReal.id = dev.id /\ Matches /\ ~Starting => smReal'.id = dev'.id /\ Matches' /\ ~Starting'
      BY <1>1, <2>1 DEF Matches
    <3>3. Fits => Fits'
      BY <1>2
    <3> QED BY <3>1, <3>2, <3>3, AllowedKept
  <2>2. CASE ~Among(Vows, Tail(mbox))
    BY <2>2
  <2> QED BY <2>1, <2>2
<1>4. Carried
  <2>1. MboxTyped /\ JobsSound /\ Announced(mbox) /\ Cleared /\ Tail(mbox) \in Seq(PortJob)
    BY SmFacts, HeadFacts DEF StoreInv
  <2>2. mbox' = Tail(mbox) \o s
    BY DEF TakeAndPost
  <2>3. (dev'.id = dev.id /\ dev'.rev = dev.rev /\ smAux'.addr = smAux.addr) \/ ~Among({"READ"}, Tail(mbox))
    BY <1>1
  <2> QED BY <1>1, <1>3, <2>1, <2>2, <2>3, JobsCarried
<1>5. PartsSound'
  <2>1. Work' => Vetted' /\ ~Starting'
    <3>1. Work' => dsState \notin RestStates \/ sm' \in {"write_master_cycl", "wait_devmode_cnf"}
      BY <1>1 DEF Work
    <3>2. dsState \notin RestStates => Vetted /\ ~Starting
      BY DEF StoreInv, PartsSound, Work
    <3> QED BY <1>2, <3>1, <3>2
  <2>2. sm' = "SMOperate" /\ linked' /\ ~Waiting("SM_CFG")' => Vetted'
    BY <1>1, <1>2, <1>4 DEF StoreInv, PartsSound, Carried
  <2>3. sm' \in {"waitonDLPreoperate", "waitonDLOperate", "checkSerNum"} => smReal'.id = dev'.id
    BY <1>1
  <2>4. Waiting("SMI_CFG")' \/ Waiting("SM_CFG")' => dsState' \in RestStates /\ svc' = NoSvc
    BY <1>1, <1>4 DEF StoreInv, PartsSound, Carried
  <2>5. cm' = "SM_Startup" => /\ cmCfg' \in Cfgs /\ cmCfg'.mode \in {"IOL_MAN", "IOL_AUTO"}
                              /\ Waiting("DS_INIT")' \/ Named'
    BY <1>1, <1>2, <1>4 DEF StoreInv, PartsSound, Carried
  <2> QED BY <2>1, <2>2, <2>3, <2>4, <2>5 DEF PartsSound
<1>6. StoreSound'
  BY <1>1, <1>2 DEF StoreInv, StoreSound
<1>7. Cleared'
  BY <1>1, <1>4, ClearedKept DEF StoreInv, Carried
<1> QED BY <1>4, <1>5, <1>6, <1>7 DEF StoreInv, Carried

(* The state, the configuration, what is known of the device and the modes *)
(* stay.                                                                   *)
SmSame ==
    /\ sm' = sm /\ smCfg' = smCfg /\ smReal'.id = smReal.id /\ smAux'.addr = smAux.addr
    /\ dl'.mode = dl.mode /\ dl'.mdh = dl.mdh /\ DsSame

LEMMA SmStays ==
  ASSUME TypeInv, PortInv, StoreInv, mbox # <<>>, SmStill, SmSame, NEW s \in Mute, TakeAndPost(s),
         Kind(Head(mbox)) \notin {"DS_INIT", "DS_DELETE", "SM_CFG"}
  PROVE  StoreInv'
<1>1. SmSame /\ linked' = linked /\ dev' = dev
  BY DEF SmStill
<1>2. ModeSound' /\ RevSound'
  <2>1. ModeSound /\ RevSound
    BY DEF StoreInv
  <2>2. Legacy' <=> Legacy
    BY <1>1 DEF SmSame, Legacy
  <2> QED BY <1>1, <2>1, <2>2 DEF SmSame, ModeSound, RevSound
<1>3. Starting' <=> Starting
  BY <1>1 DEF SmSame, Starting
<1>4. Vetted' <=> Vetted
  BY <1>1 DEF SmSame, DsSame, SmStill, Vetted
<1>5. /\ s \in Seq(PortJob) /\ AllSound(s, Allowed', dev', smAux'.addr, cmCfg')
      /\ \A i \in DOMAIN s : Kind(s[i]) \notin {"SMI_CFG", "SM_CFG", "DS_INIT", "DS_DELETE"}
  BY MuteSound
<1>6. sm' \in {"write_master_cycl", "wait_devmode_cnf"} => Vetted' /\ ~Starting'
  BY <1>1, <1>3, <1>4 DEF SmSame, StoreInv, PartsSound, Work
<1>7. sm' \in {"waitonDLPreoperate", "waitonDLOperate", "checkSerNum"} => smReal'.id = dev.id
  BY <1>1 DEF SmSame, StoreInv, PartsSound
<1> QED BY <1>1, <1>2, <1>3, <1>5, <1>6, <1>7, SmMoves DEF SmSame

LEMMA SmIgnoreStore ==
  ASSUME TypeInv, PortInv, StoreInv, mbox # <<>>, SmStill, SmIgnore,
         Kind(Head(mbox)) \notin {"DS_INIT", "DS_DELETE", "SM_CFG"}
  PROVE  StoreInv'
<1>1. SmSame /\ TakeAndPost(<<>>)
  BY DEF SmIgnore, SmEnter, SmSame, DsSame
<1> QED BY <1>1, MuteFacts, SmStays

(* The DL is told a mode. *)
LEMMA ToldMode ==
  ASSUME TypeInv, NEW mode \in DlCmds, dl' = DL_SetMode_req(dl, mode)
  PROVE  dl'.mode = mode /\ dl'.mdh = dl.mdh
  BY SmFacts, DlShape DEF DL_SetMode_req

LEMMA ComlostStore ==
  ASSUME TypeInv, PortInv, StoreInv, mbox # <<>>, SmStill, UNCHANGED <<smCfg, smReal>>,
         NEW state, SmComlost(state), state = "PortInactive" \/ (state = sm /\ sm = "RestartDevice"),
         Kind(Head(mbox)) \notin {"DS_INIT", "DS_DELETE"}
  PROVE  StoreInv'
<1>1. /\ sm' = state /\ dl' = DL_SetMode_req(dl, "INACTIVE") /\ smAux' = smAux
      /\ TakeAndPost(<<Signal("COMLOST")>>) /\ ds' = ds /\ smCfg' = smCfg /\ smReal' = smReal
      /\ linked' = linked /\ dev' = dev
  BY DEF SmComlost, SmEnter, SmStill
<1>2. dl'.mode = "INACTIVE" /\ dl'.mdh = dl.mdh
  BY <1>1, ToldMode, DlNames
<1>3. <<Signal("COMLOST")>> \in Mute
  <2>1. Signal("COMLOST") \in PortJob /\ Kind(Signal("COMLOST")) = "COMLOST"
    BY SignalJob, SignalKind DEF JobTypes
  <2>2. "COMLOST" \notin Grave
    BY DEF Grave, Vows, Works
  <2> QED BY <2>1, <2>2, MuteOne
<1>4. /\ <<Signal("COMLOST")>> \in Seq(PortJob)
      /\ AllSound(<<Signal("COMLOST")>>, Allowed', dev', smAux'.addr, cmCfg')
      /\ \A i \in DOMAIN <<Signal("COMLOST")>> :
            Kind(<<Signal("COMLOST")>>[i]) \notin {"SMI_CFG", "SM_CFG", "DS_INIT", "DS_DELETE"}
  BY <1>3, MuteSound
<1>5. ModeSound' /\ RevSound'
  <2>1. ModeSound
    BY DEF StoreInv
  <2>2. ModeSound'
    BY <1>1, <1>2, <2>1 DEF ModeSound, Reading
  <2>3. RevSound'
    BY <1>1 DEF RevSound, Legacy
  <2> QED BY <2>2, <2>3
<1>6. Starting \/ ~Starting'
  BY <1>1, <1>2 DEF Starting, Reading
<1> DEFINE s == <<Signal("COMLOST")>>
<1> HIDE DEF s
<1>7. /\ s \in Seq(PortJob) /\ TakeAndPost(s) /\ AllSound(s, Allowed', dev', smAux'.addr, cmCfg')
      /\ \A i \in DOMAIN s : Kind(s[i]) \notin {"SMI_CFG", "SM_CFG", "DS_INIT", "DS_DELETE"}
  BY <1>1, <1>4 DEF s
<1> QED BY <1>1, <1>5, <1>6, <1>7, SmMoves DEF DsSame

LEMMA EventStore ==
  ASSUME TypeInv, PortInv, StoreInv, mbox # <<>>, SmStill, EventModeComlost \/ EventCnfComlost,
         Kind(Head(mbox)) \notin {"DS_INIT", "DS_DELETE", "SM_CFG"}
  PROVE  StoreInv'
<1>1. CASE SmComlost("PortInactive") /\ UNCHANGED <<smCfg, smReal>>
  BY <1>1, ComlostStore
<1>2. CASE sm = "RestartDevice" /\ SmComlost("RestartDevice") /\ UNCHANGED <<smCfg, smReal>>
  BY <1>2, ComlostStore
<1>3. CASE SmIgnore
  BY <1>3, SmIgnoreStore
<1>4. CASE sm = "RestartDevice" /\ SmEnter("CheckComp", dl, <<>>) /\ UNCHANGED <<smCfg, smReal, smAux>>
  <2>1. /\ sm' = "CheckComp" /\ dl' = dl /\ TakeAndPost(<<>>) /\ ds' = ds /\ smAux' = smAux
        /\ smReal' = smReal /\ smCfg' = smCfg
    BY <1>4 DEF SmEnter
  <2>2. Starting
    BY <1>4 DEF Starting, Reading
  <2>3. ModeSound'
    BY <1>4, <2>1 DEF StoreInv, ModeSound, Reading
  <2>4. RevSound'
    BY <2>1 DEF RevSound, Legacy
  <2>5. /\ <<>> \in Seq(PortJob) /\ AllSound(<<>>, Allowed', dev', smAux'.addr, cmCfg')
        /\ \A i \in DOMAIN <<>> : Kind(<<>>[i]) \notin {"SMI_CFG", "SM_CFG", "DS_INIT", "DS_DELETE"}
    BY MuteFacts, MuteSound
  <2> DEFINE s == <<>>
  <2> HIDE DEF s
  <2>6. /\ s \in Seq(PortJob) /\ TakeAndPost(s) /\ AllSound(s, Allowed', dev', smAux'.addr, cmCfg')
        /\ \A i \in DOMAIN s : Kind(s[i]) \notin {"SMI_CFG", "SM_CFG", "DS_INIT", "DS_DELETE"}
    BY <2>1, <2>5 DEF s
  <2> QED BY <2>1, <2>2, <2>3, <2>4, <2>6, SmMoves DEF DsSame
<1> QED BY <1>1, <1>2, <1>3, <1>4 DEF EventModeComlost, EventCnfComlost

(* A move whose jobs say nothing of the device. *)
LEMMA SmMutes ==
  ASSUME TypeInv, PortInv, StoreInv, mbox # <<>>, SmStill, DsSame,
         NEW s \in Mute, TakeAndPost(s),
         \/ Starting
         \/ ~Among(Vows, Tail(mbox)) /\ dsState \in RestStates
         \/ smReal'.id = smReal.id /\ smCfg' = smCfg /\ ~Starting',
         smAux'.addr = smAux.addr \/ ~Among({"READ"}, Tail(mbox)),
         sm' \in {"write_master_cycl", "wait_devmode_cnf"} => Vetted' /\ ~Starting',
         sm' = "SMOperate" => /\ sm = "SMOperate" \/ Vetted
                              /\ smReal'.id = smReal.id /\ Kind(Head(mbox)) # "SM_CFG",
         sm' \in {"waitonDLPreoperate", "waitonDLOperate", "checkSerNum"} => smReal'.id = dev.id,
         Kind(Head(mbox)) \notin {"DS_INIT", "DS_DELETE"}, ModeSound', RevSound'
  PROVE  StoreInv'
<1>1. /\ s \in Seq(PortJob) /\ AllSound(s, Allowed', dev', smAux'.addr, cmCfg')
      /\ \A i \in DOMAIN s : Kind(s[i]) \notin {"SMI_CFG", "SM_CFG", "DS_INIT", "DS_DELETE"}
  BY MuteSound
<1> QED BY <1>1, SmMoves

(* A block is asked for in STARTUP, when the last one has been answered. *)
LEMMA AskedAlone ==
  ASSUME TypeInv, PortInv, mbox # <<>>, Kind(Head(mbox)) \in Granted \cup {"MODE_STARTUP"}
  PROVE  /\ dl.mode = "STARTUP" /\ dl.mdh = "STARTUP" /\ ~Among({"READ"}, Tail(mbox))
         /\ Kind(Head(mbox)) \in Granted => linked
<1>1. mbox \in Seq(PortJob)
  BY SmFacts DEF MboxTyped
<1>2. CASE Kind(Head(mbox)) \in Granted
  <2>1. Among(Granted, mbox)
    BY <1>1, <1>2, AmongTail
  <2>2. Ready /\ linked
    BY <2>1 DEF PortInv, Asking
  <2>3. ~Among(Asked, Tail(mbox))
    <3>1. Single(Asked, mbox)
      BY DEF PortInv, Asking
    <3>2. Kind(Head(mbox)) \in Asked
      BY <1>2 DEF Granted, Asked
    <3> QED BY <1>1, <3>1, <3>2, SingleTail
  <2>4. ~Among({"READ"}, Tail(mbox))
    BY <2>3 DEF Among, Asked
  <2> QED BY <2>2, <2>4 DEF Ready
<1>3. CASE Kind(Head(mbox)) = "MODE_STARTUP"
  <2> DEFINE K == {"MODE_STARTUP"}
  <2>1. Kind(Head(mbox)) \in K
    BY <1>3
  <2> HIDE DEF K
  <2>2. Among(K, mbox)
    BY <1>1, <2>1, AmongTail
  <2>3. Waiting("MODE_STARTUP")
    BY <2>2 DEF K, Waiting
  <2>4. sm = "PortInactive" /\ dl.mdh = "STARTUP" /\ dl.mode = "STARTUP"
    BY <2>3 DEF PortInv, Woken
  <2>5. ~Among({"READ", "NOT_READ"}, mbox)
    BY <2>4 DEF PortInv, Asking, Reading
  <2> DEFINE R == {"READ"}
  <2>6. ~Among(R, mbox)
    BY <2>5 DEF Among
  <2> HIDE DEF R
  <2>7. ~Among(R, Tail(mbox))
    BY <1>1, <2>6, AmongTail
  <2>8. "MODE_STARTUP" \notin Granted
    BY DEF Granted
  <2> QED BY <1>3, <2>4, <2>7, <2>8 DEF R
<1> QED BY <1>2, <1>3

(* The next block is asked for. *)
LEMMA BlockStore ==
  ASSUME TypeInv, PortInv, StoreInv, mbox # <<>>, SmStill, UNCHANGED smCfg,
         NEW state \in Reading \cup Writing, NEW rw \in {"read", "write"}, NEW block \in Blocks,
         NEW aux \in Aux, SmBlock(state, rw, block, aux),
         Kind(Head(mbox)) \in Granted \cup {"MODE_STARTUP"},
         state = "waitonDLOperate" => block = "OPERATE",
         state = "ReadComParameter" => block = "COMM",
         state \in {"CheckCompV10", "waitonDLOperate"} => dev.rev = "V10",
         state \in {"waitonDLPreoperate", "waitonDLOperate"} => smReal'.id = dev.id
  PROVE  StoreInv'
<1>1. /\ smAux' = [aux EXCEPT !.addr = block] /\ sm' = state /\ dl' = DL_ReadWrite_req(dl, rw)
      /\ ds' = ds /\ smCfg' = smCfg /\ linked' = linked /\ dev' = dev
  BY DEF SmBlock, SmEnter, SmStill
<1>2. dl.mode = "STARTUP" /\ dl.mdh = "STARTUP" /\ ~Among({"READ"}, Tail(mbox))
  BY AskedAlone
<1>3. dl'.mode = "STARTUP" /\ dl'.mdh = "STARTUP"
  BY <1>1, <1>2, SmFacts, DlShape DEF DL_ReadWrite_req
<1>4. smAux'.addr = block
  BY <1>1 DEF Aux
<1>5. PICK s \in Mute : TakeAndPost(s)
  <2>1. <<BlockCnf(rw, block, "ERR", NoSnap)>> \in Mute
    BY ResultNames, WildFacts, BlockMute DEF Results
  <2>2. TakeAndPost(<<>>) \/ TakeAndPost(<<BlockCnf(rw, block, "ERR", NoSnap)>>)
    BY DEF SmBlock, SmEnter
  <2> QED BY <2>1, <2>2, MuteFacts
<1>6. Starting
  BY <1>2 DEF Starting
<1>7. ModeSound'
  BY <1>1, <1>3 DEF ModeSound, Reading, Writing
<1>8. RevSound'
  <2>1. Legacy' => state \in {"CheckCompV10", "waitonDLOperate"}
    BY <1>1, <1>3 DEF Legacy
  <2> QED BY <1>1, <1>4, <2>1 DEF RevSound
<1>9. state \notin {"write_master_cycl", "wait_devmode_cnf", "SMOperate", "checkSerNum"}
  BY DEF Reading, Writing
<1>10. Kind(Head(mbox)) \notin {"DS_INIT", "DS_DELETE"}
  BY DEF Granted
<1> QED BY <1>1, <1>2, <1>5, <1>6, <1>7, <1>8, <1>9, <1>10, SmMutes DEF DsSame

(* The last block is answered, and the DL is told where to go. *)
LEMMA LeaveStartup ==
  ASSUME TypeInv, PortInv, StoreInv, mbox # <<>>, SmStill, Kind(Head(mbox)) \in Granted,
         smCfg' = smCfg, smAux' = smAux, DsSame,
         NEW mode \in {"INACTIVE", "PREOPERATE", "OPERATE"}, dl' = DL_SetMode_req(dl, mode),
         NEW s \in Mute, TakeAndPost(s),
         \/ sm' = "InspectionFault"
         \/ sm' = sm /\ sm = "waitonDLPreoperate" /\ mode = "PREOPERATE" /\ smReal' = smReal
         \/ sm' = sm /\ sm = "waitonDLOperate" /\ mode = "OPERATE" /\ smReal' = smReal,
         mode = "OPERATE" => dev.rev = "V10"
  PROVE  StoreInv'
<1>1. linked' = linked /\ dev' = dev
  BY DEF SmStill
<1>2. dl.mode = "STARTUP" /\ dl.mdh = "STARTUP"
  BY AskedAlone
<1>3. dl'.mode = mode /\ dl'.mdh = "STARTUP"
  BY <1>2, ToldMode, DlNames
<1>4. Starting
  BY <1>2 DEF Starting
<1>5. ModeSound'
  BY <1>3 DEF ModeSound, Reading
<1>6. RevSound'
  <2>1. Legacy' => mode = "OPERATE"
    BY <1>3 DEF Legacy
  <2>2. sm' = "waitonDLOperate" => smAux'.addr = "OPERATE"
    BY DEF StoreInv, RevSound
  <2> QED BY <1>1, <2>1, <2>2 DEF RevSound
<1>7. sm' \in {"waitonDLPreoperate", "waitonDLOperate", "checkSerNum"} => smReal'.id = dev.id
  BY DEF StoreInv, PartsSound
<1>8. Kind(Head(mbox)) \notin {"DS_INIT", "DS_DELETE"}
  BY DEF Granted
<1> QED BY <1>4, <1>5, <1>6, <1>7, <1>8, SmMutes

LEMMA FaultMute == <<Signal("FAULT")>> \in Mute /\ <<Signal("OPERATE")>> \in Mute
<1>1. /\ Signal("FAULT") \in PortJob /\ Kind(Signal("FAULT")) = "FAULT"
      /\ Signal("OPERATE") \in PortJob /\ Kind(Signal("OPERATE")) = "OPERATE"
  BY SignalJob, SignalKind DEF JobTypes
<1>2. "FAULT" \notin Grave /\ "OPERATE" \notin Grave
  BY DEF Grave, Vows, Works
<1> QED BY <1>1, <1>2, MuteOne

LEMMA SetOperatePending ==
  ASSUME TypeInv, NEW state, NEW id, NEW s, SmSetOperate(state, id, s)
  PROVE  DsSame
<1>1. ds \in DsRecord /\ (ds' = ds \/ ds' = [ds EXCEPT !.enable = FALSE])
  BY SmFacts DEF SmSetOperate
<1> QED BY <1>1 DEF DsRecord, DsSame

LEMMA AuxSet ==
  ASSUME TypeInv
  PROVE  smAux \in Aux /\ [smAux EXCEPT !.retry = TRUE] \in Aux /\ [smAux EXCEPT !.error = TRUE] \in Aux
  BY SmFacts, AuxFields

LEMMA IdentStore ==
  ASSUME TypeInv, PortInv, StoreInv, mbox # <<>>, SmStill, UNCHANGED smCfg, Kind(Head(mbox)) = "READ",
         Head(mbox).index = "IDENT" => smReal'.id = dev.id, IdentRead
  PROVE  StoreInv'
<1>1. smAux \in Aux /\ Kind(Head(mbox)) \in Granted /\ linked
  BY SmFacts, AskedAlone DEF Granted
<1>2. {"IDENT", "PREOP", "OPERATE", "RESTART"} \subseteq Blocks
  BY DEF Blocks
<1>3. sm = "CheckCompV10" => dev.rev = "V10"
  BY <1>1 DEF StoreInv, RevSound, Legacy
<1>4. CASE sm \in {"CheckComp", "CheckCompV10"} /\ ReadBlock(sm, "IDENT")
  BY <1>1, <1>2, <1>3, <1>4, BlockStore DEF ReadBlock, Reading
<1>5. CASE sm = "CheckComp" /\ Head(mbox).index = "IDENT" /\ CheckCompDone
  <2>1. CASE WriteBlock("waitonDLPreoperate", "PREOP")
    BY <1>1, <1>2, <1>5, <2>1, BlockStore DEF WriteBlock, Writing
  <2>2. CASE SmBlock("RestartDevice", "write", "RESTART", [smAux EXCEPT !.retry = TRUE])
    BY <1>1, <1>2, <2>2, AuxSet, BlockStore DEF Reading
  <2>3. CASE SmBlock("InspectionFault", "write", "PREOP", [smAux EXCEPT !.error = TRUE])
    <3>1. "InspectionFault" \in Reading \cup Writing /\ [smAux EXCEPT !.error = TRUE] \in Aux
      BY AuxSet DEF Writing
    <3> QED BY <1>1, <1>2, <2>3, <3>1, BlockStore
  <2> QED BY <1>5, <2>1, <2>2, <2>3 DEF CheckCompDone
<1>6. CASE sm = "CheckCompV10" /\ Head(mbox).index = "IDENT" /\ CheckCompV10Done
  <2>1. CASE WriteBlock("waitonDLOperate", "OPERATE")
    BY <1>1, <1>2, <1>3, <1>6, <2>1, BlockStore DEF WriteBlock, Writing
  <2>2. CASE SmEnter("InspectionFault", DL_SetMode_req(dl, "INACTIVE"), <<Signal("FAULT")>>) /\ UNCHANGED smAux
    BY <1>1, <2>2, FaultMute, LeaveStartup DEF SmEnter, DsSame
  <2>3. CASE SmSetOperate("InspectionFault", smReal'.id, <<Signal("FAULT")>>) /\ UNCHANGED smAux
    <3>1. DsSame
      BY <2>3, SetOperatePending
    <3> QED BY <1>1, <1>3, <1>6, <2>3, <3>1, FaultMute, LeaveStartup DEF SmSetOperate
  <2> QED BY <1>6, <2>1, <2>2, <2>3 DEF CheckCompV10Done
<1> QED BY <1>4, <1>5, <1>6 DEF IdentRead

LEMMA ReadCnfStore ==
  ASSUME TypeInv, PortInv, StoreInv, SmStill, SmReadCnf PROVE StoreInv'
<1>1. mbox # <<>> /\ Head(mbox).type = "DL_READ_CNF"
  BY DEF SmReadCnf, Take
<1>2. Kind(Head(mbox)) \in {"WURQ", "READ", "NOT_READ"}
  BY <1>1, AnswerHead
<1>3. CASE EventCnfComlost
  BY <1>1, <1>2, <1>3, EventStore
<1>4. CASE ReadIgnored
  BY <1>1, <1>2, <1>4, SmIgnoreStore DEF ReadIgnored
<1>5. CASE /\ Head(mbox).res = "OK" /\ Head(mbox).index # "WURQ"
           /\ smReal' = CASE Head(mbox).index = "COMM"  -> [smReal EXCEPT !.rev = Head(mbox).snap.rev]
                          [] Head(mbox).index = "IDENT" -> [smReal EXCEPT !.id = Head(mbox).snap.id]
                          [] OTHER                      -> smReal
           /\ ComParameterRead \/ IdentRead \/ Restarted
           /\ UNCHANGED smCfg
  <2>1. Kind(Head(mbox)) = "READ"
    BY <1>1, <1>5, AnswerHead
  <2>2. smAux \in Aux /\ Kind(Head(mbox)) \in Granted /\ MboxTyped /\ JobsSound /\ smReal \in Real
    BY <2>1, SmFacts DEF Granted, StoreInv
  <2>3. /\ Head(mbox).index = smAux.addr
        /\ Head(mbox).index = "IDENT" => Head(mbox).snap.id = dev.id
        /\ Head(mbox).index = "COMM" => Head(mbox).snap.rev = dev.rev
    BY <1>1, <2>1, <2>2, WorkHead
  <2>4. Head(mbox).index = "IDENT" => smReal'.id = dev.id
    BY <1>5, <2>2, <2>3 DEF Real
  <2>5. Head(mbox).index = "COMM" => smReal'.rev = dev.rev
    BY <1>5, <2>2, <2>3 DEF Real
  <2>6. {"IDENT", "MASTER_IDENT", "COMM"} \subseteq Blocks
    BY DEF Blocks
  <2>7. CASE ComParameterRead
    <3>1. Head(mbox).index = "COMM"
      BY <2>3, <2>7 DEF ComParameterRead, StoreInv, RevSound
    <3>2. CASE smReal'.rev = "V10" /\ ReadBlock("CheckCompV10", "IDENT")
      BY <1>1, <1>5, <2>2, <2>5, <2>6, <3>1, <3>2, BlockStore DEF ReadBlock, Reading
    <3>3. CASE WriteBlock("CheckVxy", "MASTER_IDENT")
      BY <1>1, <1>5, <2>2, <2>6, <3>3, BlockStore DEF WriteBlock, Writing
    <3> QED BY <2>7, <3>2, <3>3 DEF ComParameterRead
  <2>8. CASE IdentRead
    BY <1>1, <1>5, <2>1, <2>4, <2>8, IdentStore
  <2>9. CASE Restarted
    BY <1>1, <1>5, <2>2, <2>6, <2>9, BlockStore DEF Restarted, ReadBlock, Reading
  <2> QED BY <1>5, <2>7, <2>8, <2>9
<1> QED BY <1>3, <1>4, <1>5 DEF SmReadCnf

LEMMA WriteCnfStore ==
  ASSUME TypeInv, PortInv, StoreInv, SmStill, SmWriteCnf PROVE StoreInv'
<1>1. mbox # <<>> /\ Head(mbox).type = "DL_WRITE_CNF"
  BY DEF SmWriteCnf, Take
<1>2. Kind(Head(mbox)) = "WRITTEN" /\ Head(mbox).res = "OK" /\ sm \in Writing
  BY <1>1, AnswerHead
<1>3. smAux \in Aux /\ Kind(Head(mbox)) \in Granted /\ UNCHANGED <<smCfg, smReal>> /\ linked
  BY <1>1, <1>2, SmFacts, AskedAlone DEF Granted, SmWriteCnf
<1>4. {"IDENT", "PREOP", "RESTART", "MIN"} \subseteq Blocks
  BY DEF Blocks
<1>5. CASE VxyWritten
  <2>1. CASE ReadBlock("CheckComp", "IDENT")
    BY <1>1, <1>3, <1>4, <2>1, BlockStore DEF ReadBlock, Reading
  <2>2. CASE SmBlock("RestartDevice", "write", "RESTART", [smAux EXCEPT !.retry = TRUE])
    BY <1>1, <1>3, <1>4, <2>2, AuxSet, BlockStore DEF Reading
  <2>3. CASE SmBlock("InspectionFault", "write", "PREOP", [smAux EXCEPT !.error = TRUE])
    <3>1. "InspectionFault" \in Reading \cup Writing /\ [smAux EXCEPT !.error = TRUE] \in Aux
      BY AuxSet DEF Writing
    <3> QED BY <1>1, <1>3, <1>4, <2>3, <3>1, BlockStore
  <2> QED BY <1>5, <2>1, <2>2, <2>3 DEF VxyWritten
<1>6. CASE RestartWritten
  BY <1>1, <1>3, <1>4, <1>6, BlockStore DEF RestartWritten, ReadBlock, Reading
<1>7. CASE FaultWritten
  <2>1. CASE SmEnter(sm, DL_SetMode_req(dl, "PREOPERATE"), <<Signal("FAULT")>>)
    BY <1>1, <1>3, <1>7, <2>1, FaultMute, LeaveStartup DEF FaultWritten, SmEnter, DsSame
  <2>2. CASE SmEnter(sm, dl, <<>>)
    <3>1. SmIgnore
      BY <1>3, <1>7, <2>2 DEF FaultWritten, SmIgnore
    <3> QED BY <1>1, <1>2, <3>1, SmIgnoreStore
  <2> QED BY <1>7, <2>1, <2>2 DEF FaultWritten
<1>8. CASE PreopWritten
  BY <1>1, <1>3, <1>8, MuteFacts, LeaveStartup DEF PreopWritten, SmEnter, DsSame
<1>9. CASE OperateWritten
  <2>1. DsSame
    BY <1>9, SetOperatePending DEF OperateWritten
  <2>2. dev.rev = "V10"
    BY <1>3, <1>9 DEF OperateWritten, StoreInv, RevSound, Legacy
  <2> QED BY <1>1, <1>3, <1>9, <2>1, <2>2, MuteFacts, LeaveStartup DEF OperateWritten, SmSetOperate
<1> QED BY <1>2, <1>5, <1>6, <1>7, <1>8, <1>9 DEF SmWriteCnf

LEMMA ComlostMute == <<Signal("COMLOST")>> \in Mute
<1>1. Signal("COMLOST") \in PortJob /\ Kind(Signal("COMLOST")) = "COMLOST"
  BY SignalJob, SignalKind DEF JobTypes
<1>2. "COMLOST" \notin Grave
  BY DEF Grave, Vows, Works
<1> QED BY <1>1, <1>2, MuteOne

(* The mode the SM waits for: it asks for the serial number. *)
LEMMA AwaitedStore ==
  ASSUME TypeInv, PortInv, StoreInv, mbox # <<>>, SmStill, ModeAwaited,
         Kind(Head(mbox)) \notin {"DS_INIT", "DS_DELETE", "SM_CFG"}
  PROVE  StoreInv'
<1>1. smCfg' = smCfg /\ smReal' = smReal /\ smAux' = smAux /\ linked' = linked /\ dev' = dev
  BY DEF ModeAwaited, SmStill
<1>2. CASE sm \in {"waitonDLPreoperate", "waitonDLOperate"} /\ SmEnter("checkSerNum", dl, <<ReadReq("SERNUM")>>)
  <2>1. sm' = "checkSerNum" /\ dl' = dl /\ ds' = ds /\ TakeAndPost(<<ReadReq("SERNUM")>>)
    BY <1>2 DEF SmEnter
  <2>2. <<ReadReq("SERNUM")>> \in Mute
    <3>1. ReadReq("SERNUM") \in PortJob /\ Kind(ReadReq("SERNUM")) = "SERNUM"
      BY ReadIsJob, RequestKind DEF Indexes
    <3>2. "SERNUM" \notin Grave
      BY DEF Grave, Vows, Works
    <3> QED BY <3>1, <3>2, MuteOne
  <2>3. ModeSound'
    <3>1. ModeSound
      BY DEF StoreInv
    <3>2. dl.mode # "INACTIVE"
      BY <1>2, <3>1 DEF ModeSound
    <3> QED BY <2>1, <3>1, <3>2 DEF ModeSound, Reading
  <2>4. RevSound'
    <3>1. Legacy' => Legacy
      BY <1>2, <2>1 DEF Legacy, StoreInv, ModeSound
    <3>2. linked /\ Legacy => dev.rev = "V10"
      BY DEF StoreInv, RevSound
    <3> QED BY <1>1, <2>1, <3>1, <3>2 DEF RevSound
  <2>5. Starting' => Starting
    BY <2>1 DEF Starting, Reading
  <2>6. smReal'.id = dev.id
    BY <1>1, <1>2 DEF StoreInv, PartsSound
  <2>7. Starting \/ (smReal'.id = smReal.id /\ smCfg' = smCfg /\ ~Starting')
    BY <1>1, <2>5
  <2> QED BY <1>1, <2>1, <2>2, <2>3, <2>4, <2>6, <2>7, SmMutes DEF DsSame
<1>3. CASE sm = "SMOperate" /\ SmEnter(sm, dl, <<Signal("OPERATE")>>)
  <2>1. SmSame /\ TakeAndPost(<<Signal("OPERATE")>>)
    BY <1>1, <1>3 DEF SmEnter, SmSame, DsSame
  <2> QED BY <2>1, FaultMute, SmStays
<1> QED BY <1>2, <1>3 DEF ModeAwaited

LEMMA WhenInactiveStore ==
  ASSUME TypeInv, PortInv, StoreInv, mbox # <<>>, SmStill, Head(mbox).type \in ModeJobs, ModeWhenInactive,
         Kind(Head(mbox)) = Head(mbox).type
  PROVE  StoreInv'
<1>1. sm = "PortInactive" /\ UNCHANGED <<smCfg, smReal>> /\ Kind(Head(mbox)) \notin {"DS_INIT", "DS_DELETE", "SM_CFG"}
  BY DEF ModeWhenInactive, ModeJobs
<1>2. CASE Take("MODE_STARTUP") /\ SmBlock("ReadComParameter", "read", "COMM", [smAux EXCEPT !.retry = FALSE])
  <2>1. [smAux EXCEPT !.retry = FALSE] \in Aux
    BY SmFacts, AuxFields
  <2>2. "ReadComParameter" \in Reading \cup Writing /\ "COMM" \in Blocks
    BY DEF Reading, Blocks
  <2>3. Kind(Head(mbox)) \in Granted \cup {"MODE_STARTUP"}
    BY <1>2 DEF Take
  <2> QED BY <1>1, <1>2, <2>1, <2>2, <2>3, BlockStore
<1>3. CASE /\ SmEnter(sm, dl, IF smCfg.mode = "DEACTIVE" THEN <<>> ELSE <<Signal("COMLOST")>>)
           /\ UNCHANGED smAux
  <2>1. SmSame /\ (TakeAndPost(<<>>) \/ TakeAndPost(<<Signal("COMLOST")>>))
    BY <1>1, <1>3 DEF SmEnter, SmSame, DsSame
  <2> QED BY <1>1, <2>1, MuteFacts, ComlostMute, SmStays
<1>4. CASE SmEnter(sm, dl, <<>>) /\ UNCHANGED smAux
  <2>1. SmIgnore
    BY <1>1, <1>4 DEF SmIgnore
  <2> QED BY <1>1, <2>1, SmIgnoreStore
<1> QED BY <1>2, <1>3, <1>4 DEF ModeWhenInactive

LEMMA ModeIndStore ==
  ASSUME TypeInv, PortInv, StoreInv, SmStill, SmModeInd PROVE StoreInv'
<1>1. mbox # <<>>
  BY DEF SmModeInd
<1>2. ASSUME Head(mbox).type \in ModeJobs \cup {"MODE_COMLOST"}
      PROVE  Kind(Head(mbox)) = Head(mbox).type /\ Kind(Head(mbox)) \notin {"DS_INIT", "DS_DELETE", "SM_CFG"}
  BY <1>1, <1>2, ModeHead DEF Upsets
<1>3. CASE Head(mbox).type \in ModeJobs /\ ModeWhenInactive
  BY <1>1, <1>2, <1>3, WhenInactiveStore
<1>4. CASE Head(mbox).type \in ModeJobs /\ ModeAwaited
  BY <1>1, <1>2, <1>4, AwaitedStore
<1>5. CASE Head(mbox).type \in ModeJobs \cup {"MODE_COMLOST"} /\ (SmIgnore \/ EventModeComlost)
  BY <1>1, <1>2, <1>5, SmIgnoreStore, EventStore
<1>6. ModeUnexpected => SmIgnore \/ EventModeComlost
  BY DEF ModeUnexpected
<1> QED BY <1>3, <1>4, <1>5, <1>6 DEF SmModeInd, Take

LEMMA SernumStore ==
  ASSUME TypeInv, PortInv, StoreInv, SmStill, SmSernumCnf PROVE StoreInv'
<1>1. mbox # <<>> /\ Head(mbox).type = "SERNUM_CNF"
  BY DEF SmSernumCnf, Take
<1>2. Kind(Head(mbox)) = "SERNUM"
  BY <1>1, HeadKind
<1>3. CASE EventCnfComlost \/ EventModeComlost
  BY <1>1, <1>2, <1>3, EventStore
<1>4. CASE SmIgnore
  BY <1>1, <1>2, <1>4, SmIgnoreStore
<1>5. CASE /\ sm = "checkSerNum" /\ UNCHANGED <<smCfg, smReal, smAux>>
           /\ SmEnter("InspectionFault", dl, <<Signal("FAULT")>>) \/ SmEnter("wait", dl, <<Signal("COMREADY")>>)
  <2>1. /\ sm' \in {"InspectionFault", "wait"} /\ dl' = dl /\ ds' = ds
        /\ smCfg' = smCfg /\ smReal' = smReal /\ smAux' = smAux /\ linked' = linked /\ dev' = dev
    BY <1>5 DEF SmEnter, SmStill
  <2>2. dl.mode # "STARTUP"
    BY <1>5 DEF PortInv, Moded
  <2>3. ~Starting'
    BY <2>1, <2>2 DEF Starting, Reading
  <2>4. ModeSound'
    <3>1. ModeSound /\ dl.mode # "INACTIVE"
      BY <1>5 DEF StoreInv, ModeSound
    <3> QED BY <2>1, <3>1 DEF ModeSound, Reading
  <2>5. RevSound'
    <3>1. Legacy' => Legacy
      BY <1>5, <2>1 DEF Legacy
    <3>2. linked /\ Legacy => dev.rev = "V10"
      BY DEF StoreInv, RevSound
    <3> QED BY <2>1, <3>1, <3>2 DEF RevSound
  <2>6. CASE TakeAndPost(<<Signal("FAULT")>>)
    BY <1>1, <1>2, <2>1, <2>3, <2>4, <2>5, <2>6, FaultMute, SmMutes DEF DsSame
  <2>7. CASE TakeAndPost(<<Signal("COMREADY")>>)
    <3>1. Signal("COMREADY") \in PortJob /\ Kind(Signal("COMREADY")) = "COMREADY"
      BY SignalJob, SignalKind DEF JobTypes
    <3>2. "COMREADY" \in Allowed'
      <4>1. smReal.id = dev.id
        BY <1>5 DEF StoreInv, PartsSound
      <4>2. smCfg.backup = "CHECK_NO" \/ smReal.id = smCfg.id
        BY <1>5 DEF PortInv, Followed, Passed
      <4>3. smReal'.id = dev'.id /\ Matches' /\ ~Starting'
        BY <2>1, <2>3, <4>1, <4>2 DEF Matches
      <4> QED BY <4>3 DEF Allowed
    <3> DEFINE s == <<Signal("COMREADY")>>
               ok == Allowed'
    <3>3. s \in Seq(PortJob) /\ \A i \in DOMAIN s : Kind(s[i]) = "COMREADY"
      BY <3>1
    <3> HIDE DEF s, ok
    <3>4. AllSound(s, ok, dev', smAux'.addr, cmCfg')
      BY <3>2, <3>3, SoundWorks DEF ok
    <3>5. TakeAndPost(s) /\ AllSound(s, Allowed', dev', smAux'.addr, cmCfg')
      BY <2>7, <3>4 DEF s, ok
    <3> QED BY <1>1, <1>2, <2>1, <2>3, <2>4, <2>5, <3>3, <3>5, SmMoves DEF DsSame
  <2> QED BY <1>5, <2>6, <2>7 DEF SmEnter
<1> QED BY <1>3, <1>4, <1>5 DEF SmSernumCnf

LEMMA OperateStore ==
  ASSUME TypeInv, PortInv, StoreInv, SmStill, SmOperate PROVE StoreInv'
<1>1. mbox # <<>> /\ Head(mbox).type = "SM_OPERATE"
  BY DEF SmOperate, Take
<1>2. Kind(Head(mbox)) = "SM_OPERATE"
  BY <1>1, HeadKind DEF Plain, JobTypes
<1>3. CASE SmIgnore
  BY <1>1, <1>2, <1>3, SmIgnoreStore
<1>4. CASE /\ UNCHANGED <<smCfg, smReal, smAux>>
           /\ \/ SmEnter("SMOperate", dl, <<Signal("OPERATE")>>)
              \/ SmEnter("write_master_cycl", dl, <<WriteReq("CYCL", 0)>>)
  <2>1. /\ sm' \in {"SMOperate", "write_master_cycl"} /\ dl' = dl /\ ds' = ds
        /\ smCfg' = smCfg /\ smReal' = smReal /\ smAux' = smAux
        /\ dev' = dev /\ portId' = portId
    BY <1>4 DEF SmEnter, SmStill
  <2>2. PICK s \in Mute : TakeAndPost(s)
    <3>1. WriteReq("CYCL", 0) \in PortJob /\ Kind(WriteReq("CYCL", 0)) = "CYCL"
      <4>1. "CYCL" \in Indexes \cup {"CMD"} /\ 0 \in 0 .. N
        BY ListFacts DEF Indexes
      <4> QED BY <4>1, WriteIsJob, RequestKind
    <3>2. "CYCL" \notin Grave
      BY DEF Grave, Vows, Works
    <3>3. <<WriteReq("CYCL", 0)>> \in Mute
      BY <3>1, <3>2, MuteOne
    <3>4. TakeAndPost(<<Signal("OPERATE")>>) \/ TakeAndPost(<<WriteReq("CYCL", 0)>>)
      BY <1>4 DEF SmEnter
    <3> QED BY <3>3, <3>4, FaultMute
  <2>3. Vetted /\ ~Starting
    <3>1. MboxTyped /\ JobsSound
      BY SmFacts DEF StoreInv
    <3> QED BY <1>1, <1>2, <3>1, WorkHead DEF Works
  <2>4. Vetted' /\ ~Starting'
    BY <2>1, <2>3 DEF Vetted, Starting, Reading, DsSame
  <2>5. ModeSound'
    BY <2>1 DEF StoreInv, ModeSound, Reading
  <2>6. RevSound'
    BY <2>1 DEF RevSound, Legacy
  <2> QED BY <1>1, <1>2, <2>1, <2>2, <2>3, <2>4, <2>5, <2>6, SmMutes DEF DsSame
<1> QED BY <1>3, <1>4 DEF SmOperate

LEMMA CyclStore ==
  ASSUME TypeInv, PortInv, StoreInv, SmStill, SmCyclCnf PROVE StoreInv'
<1>1. mbox # <<>> /\ Head(mbox).type = "CYCL_CNF"
  BY DEF SmCyclCnf, Take
<1>2. Kind(Head(mbox)) = "CYCL"
  BY <1>1, HeadKind
<1>3. CASE EventCnfComlost
  BY <1>1, <1>2, <1>3, EventStore
<1>4. CASE SmIgnore
  BY <1>1, <1>2, <1>4, SmIgnoreStore
<1>5. CASE /\ sm = "write_master_cycl" /\ UNCHANGED <<smCfg, smReal, smAux>>
           /\ SmEnter("wait_devmode_cnf", DL_Write_Devicemode_req(dl, "OPERATE"), DevmodeAnswer(dl, "OPERATE"))
  <2>1. /\ sm' = "wait_devmode_cnf" /\ dl' = DL_Write_Devicemode_req(dl, "OPERATE") /\ ds' = ds
        /\ TakeAndPost(DevmodeAnswer(dl, "OPERATE"))
        /\ smCfg' = smCfg /\ smReal' = smReal /\ smAux' = smAux /\ dev' = dev /\ portId' = portId
    BY <1>5 DEF SmEnter, SmStill
  <2>2. dl'.mode = dl.mode /\ dl'.mdh = dl.mdh
    BY <1>1, <2>1, DevmodeAsked DEF SameModes
  <2>3. DevmodeAnswer(dl, "OPERATE") \in Mute
    BY SmFacts, DlNames, MuteFacts
  <2>4. Vetted /\ ~Starting
    BY <1>5 DEF StoreInv, PartsSound, Work
  <2>5. Vetted' /\ ~Starting'
    BY <2>1, <2>2, <2>4 DEF Vetted, Starting, Reading, DsSame
  <2>6. ModeSound'
    BY <2>1, <2>2 DEF StoreInv, ModeSound, Reading
  <2>7. RevSound'
    BY <2>1 DEF RevSound, Legacy
  <2> QED BY <1>1, <1>2, <2>1, <2>3, <2>5, <2>6, <2>7, SmMutes DEF DsSame
<1> QED BY <1>3, <1>4, <1>5 DEF SmCyclCnf

LEMMA DevmodeStore ==
  ASSUME TypeInv, PortInv, StoreInv, SmStill, SmDevmodeCnf PROVE StoreInv'
<1>1. mbox # <<>> /\ Head(mbox).type = "DEVMODE_CNF"
  BY DEF SmDevmodeCnf, Take
<1>2. Kind(Head(mbox)) = "DEVMODE_CNF"
  BY <1>1, ModeHead
<1>3. CASE sm = "wait_devmode_cnf" /\ SmSetOperate("SMOperate", smReal.id, <<>>) /\ UNCHANGED <<smCfg, smReal, smAux>>
  <2>1. /\ sm' = "SMOperate" /\ dl' = DL_SetMode_req(dl, "OPERATE") /\ TakeAndPost(<<>>)
        /\ smCfg' = smCfg /\ smReal' = smReal /\ smAux' = smAux
    BY <1>3 DEF SmSetOperate
  <2>2. DsSame
    BY <1>3, SetOperatePending
  <2>3. dl'.mode = "OPERATE" /\ dl'.mdh = dl.mdh
    BY <2>1, ToldMode, DlNames
  <2>4. Vetted
    BY <1>3 DEF StoreInv, PartsSound, Work
  <2>5. ~Starting'
    BY <2>1, <2>3 DEF Starting, Reading
  <2>6. ModeSound'
    BY <2>1, <2>3 DEF ModeSound, Reading
  <2>7. RevSound'
    BY <2>1 DEF RevSound, Legacy
  <2> QED BY <1>1, <1>2, <2>1, <2>2, <2>4, <2>5, <2>6, <2>7, MuteFacts, SmMutes
<1>4. CASE sm = "waitForFallback" /\ ToInactive(DL_SetMode_req(dl, "INACTIVE")) /\ UNCHANGED <<smCfg, smReal>>
  <2>1. /\ sm' = "PortInactive" /\ dl' = DL_SetMode_req(dl, "INACTIVE") /\ TakeAndPost(<<>>)
        /\ smCfg' = smCfg /\ smReal' = smReal /\ ds' = ds
    BY <1>4 DEF ToInactive, SmEnter
  <2>2. dl'.mode = "INACTIVE" /\ dl'.mdh = dl.mdh
    BY <2>1, ToldMode, DlNames
  <2>3. ~Starting'
    BY <2>1, <2>2 DEF Starting, Reading
  <2>4. ModeSound'
    BY <2>1, <2>2 DEF ModeSound, Reading
  <2>5. RevSound'
    BY <2>1 DEF RevSound, Legacy
  <2>6. ~Among({"READ"}, Tail(mbox))
    <3>1. ~Among({"READ", "NOT_READ"}, mbox)
      BY <1>4 DEF PortInv, Asking, Reading
    <3> DEFINE R == {"READ"}
    <3>2. ~Among(R, mbox)
      BY <3>1 DEF Among
    <3> HIDE DEF R
    <3>3. ~Among(R, Tail(mbox))
      BY <1>1, <3>2, SmFacts, AmongTail DEF MboxTyped
    <3> QED BY <3>3 DEF R
  <2> QED BY <1>1, <1>2, <2>1, <2>3, <2>4, <2>5, <2>6, MuteFacts, SmMutes DEF DsSame
<1>5. CASE EventCnfComlost \/ EventModeComlost
  BY <1>1, <1>2, <1>5, EventStore
<1> QED BY <1>3, <1>4, <1>5 DEF SmDevmodeCnf

(* The configuration reaches the SM when nothing is under way. *)
LEMMA SetPortConfigStore ==
  ASSUME TypeInv, PortInv, StoreInv, SmStill, SmSetPortConfig PROVE StoreInv'
<1> DEFINE cfg == Head(mbox).cfg
           quiet == [dl EXCEPT !.wurq = FALSE]
<1>1. mbox # <<>> /\ Take("SM_CFG") /\ smCfg' = cfg /\ smReal' = smReal
      /\ (SmCfgCom(cfg) \/ SmCfgDiDo(cfg) \/ SmCfgInactive(cfg))
  BY DEF SmSetPortConfig, Take
<1>2. /\ Kind(Head(mbox)) = "SM_CFG" /\ Waiting("SM_CFG") /\ sm \in SmRest /\ ~Among(Loud, mbox)
  BY <1>1, CfgHead
<1>3. dsState \in RestStates
  BY <1>2 DEF StoreInv, PartsSound
<1>4. ~Among(Vows, Tail(mbox)) /\ ~Among({"READ"}, Tail(mbox))
  <2>1. ~Among(Loud, Tail(mbox))
    BY <1>1, <1>2, SmFacts, AmongTail DEF MboxTyped
  <2>2. Vows \subseteq Loud /\ "READ" \in Loud
    BY DEF Vows, Works, Loud, JobTypes, Calm, Asked
  <2> QED BY <2>1, <2>2 DEF Among
<1>5. dl \in DlRecord /\ quiet \in DlRecord /\ quiet.mdh = dl.mdh
  <2>1. dl \in DlRecord
    BY SmFacts
  <2>2. quiet \in DlRecord
    BY <2>1, DlMoreFields
  <2>3. quiet.mdh = dl.mdh
    BY <2>1, DlShape
  <2> QED BY <2>1, <2>2, <2>3
<1> HIDE DEF cfg, quiet
<1>6. ASSUME NEW d \in DlRecord, NEW mode \in {"STARTUP", "INACTIVE"}, dl' = DL_SetMode_req(d, mode),
             sm' \in {"PortInactive", "DIDO"}, TakeAndPost(<<>>), ds' = ds
      PROVE  StoreInv'
  <2>1. dl'.mode = mode
    BY <1>6, DlShape DEF DL_SetMode_req
  <2>2. ModeSound'
    BY <1>6, <2>1 DEF ModeSound, Reading
  <2>3. RevSound'
    BY <1>6 DEF RevSound, Legacy
  <2> QED BY <1>1, <1>2, <1>3, <1>4, <1>6, <2>2, <2>3, MuteFacts, SmMutes DEF DsSame
<1>7. CASE SmCfgCom(cfg)
  <2>1. /\ sm' = "PortInactive" /\ dl' = DL_SetMode_req(quiet, "STARTUP") /\ TakeAndPost(<<>>) /\ ds' = ds
    BY <1>7 DEF SmCfgCom, ToInactive, SmEnter, quiet
  <2> QED BY <1>5, <1>6, <2>1
<1>8. CASE SmCfgDiDo(cfg)
  <2>1. sm' = "DIDO" /\ dl' = DL_SetMode_req(quiet, "INACTIVE") /\ TakeAndPost(<<>>) /\ ds' = ds
    BY <1>2, <1>8 DEF SmCfgDiDo, SmEnter, SmRest, quiet
  <2> QED BY <1>5, <1>6, <2>1
<1>9. CASE SmCfgInactive(cfg) /\ sm \in {"PortInactive", "DIDO"}
  <2>1. sm' = "PortInactive" /\ dl' = DL_SetMode_req(dl, "INACTIVE") /\ TakeAndPost(<<>>) /\ ds' = ds
    BY <1>9 DEF SmCfgInactive, ToInactive, SmEnter
  <2> QED BY <1>5, <1>6, <2>1
<1>10. CASE SmCfgInactive(cfg) /\ sm \notin {"PortInactive", "DIDO"}
  <2>1. /\ sm' = "waitForFallback" /\ dl' = DL_Write_Devicemode_req(dl, "FALLBACK")
        /\ TakeAndPost(DevmodeAnswer(dl, "FALLBACK")) /\ ds' = ds /\ smAux' = smAux
    BY <1>10 DEF SmCfgInactive, SmEnter
  <2>2. dl'.mode = dl.mode /\ dl'.mdh = dl.mdh
    BY <1>1, <2>1, DevmodeAsked DEF SameModes
  <2>3. DevmodeAnswer(dl, "FALLBACK") \in Mute
    BY <1>5, DlNames, MuteFacts
  <2>4. ModeSound'
    BY <2>1, <2>2 DEF StoreInv, ModeSound, Reading
  <2>5. RevSound'
    BY <2>1 DEF RevSound, Legacy
  <2> QED BY <1>1, <1>2, <1>3, <1>4, <2>1, <2>3, <2>4, <2>5, SmMutes DEF DsSame
<1> QED BY <1>1, <1>7, <1>8, <1>9, <1>10

LEMMA SmStore ==
  ASSUME TypeInv, PortInv, StoreInv, SmStep
  PROVE  StoreInv'
<1>1. SmJob /\ SmStill
  BY DEF SmStep, SmStill, cmVars, envVars
<1>2. ~SmConfigDropped
  BY CfgHead DEF SmConfigDropped
<1> QED BY <1>1, <1>2, SetPortConfigStore, ModeIndStore, ReadCnfStore, WriteCnfStore, SernumStore,
           OperateStore, CyclStore, DevmodeStore DEF SmJob
-----------------------------------------------------------------------------
(* The invariant, and what it gives.                                       *)

LEMMA StoreStart == Init => StoreInv
<1> SUFFICES ASSUME Init PROVE StoreInv
  OBVIOUS
<1>1. /\ mbox = <<>> /\ cm = "Port_Deactivated" /\ sm = "PortInactive" /\ svc = NoSvc
      /\ dl.mdh = "IDLE" /\ dl.mode = "INACTIVE" /\ dsState = "CheckActivationState"
      /\ ~master.valid
  BY DEF Init, JobsInit, CmInit, SmInit, DlInit, DsInit
<1>2. DOMAIN mbox = {}
  BY <1>1
<1>3. JobsSound /\ Announced(mbox)
  BY <1>2 DEF JobsSound, AllSound, Announced
<1>4. \A k : ~Waiting(k)
  BY <1>2 DEF Waiting, Among
<1>5. ~Work /\ dsState \notin DlStates
  BY <1>1 DEF Work, RestStates, DlStates
<1>6. PartsSound
  BY <1>1, <1>4, <1>5 DEF PartsSound
<1>7. ModeSound
  BY <1>1 DEF ModeSound, Reading
<1>8. RevSound
  BY <1>1 DEF RevSound, Legacy
<1>9. StoreSound
  BY <1>1, <1>5 DEF StoreSound, NoSvc, RestStates
<1>10. Cleared
  BY <1>2, <1>4 DEF Cleared, NoneAfter
<1> QED BY <1>10, <1>3, <1>6, <1>7, <1>8, <1>9 DEF StoreInv

(* What StoreInv speaks of. *)
StoreVars == <<mbox, portId, sm, smCfg, smReal, smAux, cm, cmCfg, dsState, ds, master, svc, dl,
               linked, dev>>

LEMMA StoreUnchanged ==
  ASSUME StoreInv, UNCHANGED StoreVars PROVE StoreInv'
<1>1. /\ mbox' = mbox /\ portId' = portId /\ sm' = sm /\ smCfg' = smCfg /\ smReal' = smReal
      /\ smAux' = smAux /\ cm' = cm /\ cmCfg' = cmCfg /\ dsState' = dsState /\ ds' = ds
      /\ master' = master /\ svc' = svc /\ dl' = dl /\ linked' = linked /\ dev' = dev
  BY DEF StoreVars
<1>2. /\ Vetted' = Vetted /\ Starting' = Starting /\ Matches' = Matches
      /\ Named' = Named /\ Fits' = Fits
  BY <1>1 DEF Vetted, Starting, Matches, Named, Fits
<1>3. Allowed' = Allowed
  BY <1>1, <1>2 DEF Allowed
<1>4. JobsSound' /\ Announced(mbox)'
  BY <1>1, <1>3 DEF JobsSound, StoreInv, AllSound, Announced, Sound
<1>5. Work' = Work /\ \A k : Waiting(k)' = Waiting(k)
  BY <1>1 DEF Work, Waiting, Among
<1>6. PartsSound'
  BY <1>1, <1>2, <1>5 DEF PartsSound, StoreInv
<1>7. ModeSound'
  BY <1>1 DEF ModeSound, StoreInv
<1>8. RevSound'
  BY <1>1 DEF RevSound, StoreInv, Legacy
<1>9. StoreSound'
  BY <1>1, <1>2 DEF StoreSound, StoreInv
<1>10. Cleared'
  BY <1>1, <1>5 DEF Cleared, StoreInv, NoneAfter
<1> QED BY <1>10, <1>4, <1>6, <1>7, <1>8, <1>9 DEF StoreInv

LEMMA StoreStep ==
  ASSUME Orderly, ~Parallel, OwnSets
  PROVE  TypeInv /\ PortInv /\ StoreInv /\ [Next]_vars => StoreInv'
<1> SUFFICES ASSUME TypeInv, PortInv, StoreInv, [Next]_vars PROVE StoreInv'
  OBVIOUS
<1>1. PortInv'
  BY PortStep
<1>2. dl' \in DlRecord
  <2>1. TypeInv'
    BY TypeStep
  <2> QED BY <2>1 DEF TypeInv, DlTypeOK
<1>3. CASE MainThread
  BY <1>3, CmStore, DsStore, SmStore, AlStore DEF MainThread
<1>4. CASE DlThread
  BY <1>1, <1>2, <1>4, DlStepStore, WakeUpStore, BlockDoneStore DEF DlThread
<1>5. CASE DevAnswers
  BY <1>1, <1>2, <1>5, DeviceStore
<1>6. CASE Environment
  BY <1>1, <1>2, <1>6, WakeUpFailedStore, DeviceStore, LocalChangeStore, RestStore DEF Environment
<1>7. CASE UNCHANGED vars
  <2>1. UNCHANGED StoreVars
    BY <1>7 DEF StoreVars, vars, cmVars, dsVars, smVars, dlVars, envVars
  <2> QED BY <2>1, StoreUnchanged
<1> QED BY <1>3, <1>4, <1>5, <1>6, <1>7 DEF Next

LEMMA StoreAlways ==
  ASSUME Orderly, ~Parallel, OwnSets PROVE Spec => [](TypeInv /\ PortInv /\ StoreInv)
<1>1. Init => TypeInv /\ PortInv /\ StoreInv
  BY TypeStart, PortStart, StoreStart
<1>2. TypeInv /\ PortInv /\ StoreInv /\ [Next]_vars => (TypeInv /\ PortInv /\ StoreInv)'
  BY TypeStep, PortStep, StoreStep
<1> QED BY <1>1, <1>2, PTL DEF Spec

(* On a port that is configured at rest, whatever the configurations, the  *)
(* devices, the disturbances and the sets the application writes to the    *)
(* store, on one core with the DL thread at the higher priority            *)
(* (~Parallel): while the write of a parameter is on the line              *)
(* (ds_download, OD_SM_Ind), the device that is there is the one whose set *)
(* it comes from. The store was compared with the device long before, when *)
(* the DS started (ds_init, ds_startup), in the main thread's copies of an *)
(* identity that the SM had read: no event, change of device or late       *)
(* answer between has made the copies untrue.                              *)
THEOREM WritesChecked ==
  ASSUME Orderly, ~Parallel, OwnSets PROVE Spec => []WritesToChecked
<1>1. TypeInv /\ PortInv /\ StoreInv => WritesToChecked
  BY DEF WritesToChecked, StoreInv, StoreSound, Fits
<1> QED BY <1>1, StoreAlways, PTL
=============================================================================

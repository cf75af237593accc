------------------------------- MODULE MCDsPort -------------------------------
(***************************************************************************)
(* DsPort for TLC: up to four devices, two parameters, the configurations  *)
(* and the bounds of each run.                                             *)
(***************************************************************************)
EXTENDS DsPort, TLC

CONSTANTS d1, d2, d3, d4, p1, p2, v1, v2

MCIndexList == <<p1, p2>>

Man(backup, id) == [mode |-> "IOL_MAN", backup |-> backup, id |-> id]
Other(mode)     == [mode |-> mode, backup |-> "CHECK_NO", id |-> NoId]

BackupCfgs   == {Man("BAK_RESTORE", d1), Man("RESTORE", d1), Man("CHECK_V11", d1)}
TwoCfgs      == {Man("BAK_RESTORE", d1), Man("BAK_RESTORE", d2)}
FaultCfgs    == TwoCfgs \cup {Man("CHECK_V10", d2), Man("CHECK_V10", d3),
                             Other("IOL_AUTO"), Other("DI_DO"), Other("UNKNOWN"),
                             Other("DEACTIVE")}

(* d1 and d2 come from one vendor, the other devices from another. *)
MCVendor == [id \in Ids \cup {NoId} |-> IF id \in {d1, d2} THEN v1 ELSE v2]

OneSet == {[id |-> d2, set |-> FirstSet(d2)]}

(* At most so many configurations, losses of communication, refusals,      *)
(* changes at the device, exchanges of the device and sets served.         *)
Bounds(config, loss, refusal, change, device, serve) ==
    [config |-> config, loss |-> loss, refusal |-> refusal, change |-> change,
     device |-> device, serve |-> serve]

LimitBackup    == Bounds(3, 2, 0, 2, 2, 0)
LimitFaults    == Bounds(2, 1, 1, 1, 1, 1)
LimitDisturbed == Bounds(2, 1, 1, 1, 1, 0)
LimitComlost   == Bounds(1, 1, 0, 0, 0, 0)
=============================================================================

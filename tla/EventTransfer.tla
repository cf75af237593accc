--------------------------- MODULE EventTransfer ----------------------------
(***************************************************************************)
(* What the event channel promises a device: the sets of events it raises  *)
(* are handed to the application layer whole and in their order, each      *)
(* before it is confirmed and, unless communication was lost meanwhile,    *)
(* once; and a set that was raised is handed and confirmed in the end.     *)
(* A device that restarts forgets the set it had raised.                   *)
(***************************************************************************)
EXTENDS Naturals, Sequences

VARIABLES
    raised,     \* number of the last set the device raised
    settled,    \* number of the last set that was confirmed, or forgotten
    handed,     \* the numbers of the sets handed over
    lost,       \* communication was lost since the last set was handed over
    restarts    \* how often the device has restarted

vars == <<raised, settled, handed, lost, restarts>>

Last == IF handed = <<>> THEN 0 ELSE handed[Len(handed)]

Init == raised = 0 /\ settled = 0 /\ handed = <<>> /\ lost = FALSE /\ restarts = 0

Raise ==
    /\ settled = raised
    /\ raised' = raised + 1
    /\ UNCHANGED <<settled, handed, lost, restarts>>

Hand ==
    /\ settled < raised
    /\ Last = raised => lost
    /\ handed' = Append(handed, raised)
    /\ lost' = FALSE
    /\ UNCHANGED <<raised, settled, restarts>>

Confirm ==
    /\ settled < raised /\ Last = raised
    /\ settled' = raised
    /\ lost' \in {lost, TRUE}
    /\ UNCHANGED <<raised, handed, restarts>>

Loss   == lost' = TRUE /\ UNCHANGED <<raised, settled, handed, restarts>>
Forget ==
    /\ settled' = raised
    /\ restarts' = restarts + 1
    /\ UNCHANGED <<raised, handed, lost>>

Next == Raise \/ Hand \/ Confirm \/ Loss \/ Forget

Spec == Init /\ [][Next]_vars /\ WF_vars(Hand) /\ WF_vars(Confirm)
=============================================================================

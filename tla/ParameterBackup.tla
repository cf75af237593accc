--------------------------- MODULE ParameterBackup ---------------------------
(***************************************************************************)
(* What the data storage of a port promises, without states, services or   *)
(* messages: the parameters of a device are stored as one set and restored *)
(* as one set, into a device of the same identity only.                    *)
(***************************************************************************)
CONSTANTS
    Nothing,    \* the empty store
    Factory,    \* devices as they are delivered: identity and parameters
    Served,     \* the sets the application may put into the store
    Own(_)      \* the values a device of an identity may give a parameter

VARIABLES
    stored,     \* the set in the store
    device,     \* the identity and the parameters of the device
    offer       \* the set the device had when it last ended an upload

vars == <<stored, device, offer>>

Init == stored = Nothing /\ device \in Factory /\ offer = Nothing

(* The device ends an upload. *)
Offer  == offer' = device /\ UNCHANGED <<stored, device>>

(* The store takes over what was offered, as a whole. *)
Backup == stored' = offer /\ UNCHANGED <<device, offer>>

(* The application clears or replaces the store. *)
Forget == stored' = Nothing /\ UNCHANGED <<device, offer>>
Serve  == stored' \in Served /\ UNCHANGED <<device, offer>>

(* A device of the same identity gets the stored set as a whole. *)
Restore == device.id = stored.id /\ device' = stored /\ UNCHANGED <<stored, offer>>

(* One parameter is changed at the device, or another device is plugged in. *)
Change ==
    /\ device'.id = device.id
    /\ \E p \in DOMAIN device.set, v \in Own(device.id) :
          device'.set = [device.set EXCEPT ![p] = v]
    /\ UNCHANGED <<stored, offer>>
Replace == device' \in Factory /\ offer' = Nothing /\ UNCHANGED stored

Next == Offer \/ Backup \/ Forget \/ Serve \/ Restore \/ Change \/ Replace

Spec == Init /\ [][Next]_vars
=============================================================================

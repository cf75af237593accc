--------------------------- MODULE MCDeviceEvents ---------------------------
(***************************************************************************)
(* DeviceEvents for TLC: the sets a device raises and the bounds of each   *)
(* run.                                                                    *)
(***************************************************************************)
EXTENDS DeviceEvents

Set(details, bits, upload) == [details |-> details, bits |-> bits, upload |-> upload]

(* An upload request is the first entry of its set, or the last. *)
MCKinds ==
    {Set(TRUE, {0, 2}, MaxEvents), Set(TRUE, {1}, 1), Set(FALSE, {1}, MaxEvents)}
UploadKinds == {Set(TRUE, {0, 2}, 2), Set(FALSE, {1}, MaxEvents)}

(* At most so many sets, lost messages, control codes, changes of the port *)
(* and restarts of the device.                                             *)
Bounds(raise, loss, control, config, restart) ==
    [raise |-> raise, loss |-> loss, control |-> control, config |-> config,
     restart |-> restart]

MCLimit     == Bounds(2, 2, 1, 1, 1)
UploadLimit == Bounds(2, 0, 0, 0, 0)
=============================================================================

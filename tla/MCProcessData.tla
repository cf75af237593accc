--------------------------- MODULE MCProcessData ---------------------------
(***************************************************************************)
(* ProcessData for TLC: the bounds of each run.                            *)
(***************************************************************************)
EXTENDS ProcessData

(* At most so many configurations, lost messages and changes of the        *)
(* validity of the inputs.                                                 *)
Bounds(config, loss, inputs) ==
    [config |-> config, loss |-> loss, inputs |-> inputs]

MCLimit == Bounds(3, 1, 1)
OneLimit == Bounds(1, 0, 0)
=============================================================================

----------------------------- MODULE MCTransceiver -----------------------------
(* Both channels of a MAX14819. *)
EXTENDS Transceiver

CONSTANTS A, B

MCChannels == {A, B}
=============================================================================

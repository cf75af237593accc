----------------------------- MODULE MCOnRequest -----------------------------
(***************************************************************************)
(* OnRequest for TLC.  The .cfg files give the constants their values.     *)
(***************************************************************************)
EXTENDS OnRequest
=============================================================================

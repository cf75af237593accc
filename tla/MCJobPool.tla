----------------------------- MODULE MCJobPool -----------------------------
(***************************************************************************)
(* JobPool for TLC: a small master.                                        *)
(***************************************************************************)
EXTENDS JobPool

CONSTANTS p1, p2, a1, s1, s2, r1

MCPorts == {p1, p2}
MCApps == {a1}
MCStackJobs == {s1, s2}
MCApiJobs == {r1}
=============================================================================

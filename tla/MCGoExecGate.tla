------------------------------ MODULE MCGoExecGate ------------------------------
(* Two pids and three programs: two versions of the Go target, one other. *)
EXTENDS GoExecGate

CONSTANTS p1, p2, client, client2, wrapper

MCPids    == {p1, p2}
MCImages  == {client, client2, wrapper}
MCMatched == {client, client2}
MCGoTLS   == {client, client2}
===============================================================================

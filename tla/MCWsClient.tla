----------------------------- MODULE MCWsClient -----------------------------
(***************************************************************************)
(* Instances of WsClient for TLC.                                          *)
(***************************************************************************)
EXTENDS WsClient, TLC

\* Callers are interchangeable, and so are sockets (safety only).
Symmetry == Permutations(Callers) \cup Permutations(Conns)
=============================================================================

----------------------------- MODULE WebServerMC -----------------------------
(***************************************************************************)
(* Instances of WebServer for TLC.                                         *)
(***************************************************************************)
EXTENDS WebServer, TLC

\* Clients are interchangeable: nothing orders or names them.
Symmetry == Permutations(Conns)
=============================================================================

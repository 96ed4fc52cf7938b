------------------------- MODULE MCConexionMemoria -------------------------
(* Small instances of ConexionMemoria for TLC.                             *)
EXTENDS ConexionMemoria, TLC

CONSTANTS c1, c2, c3
=============================================================================

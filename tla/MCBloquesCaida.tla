--------------------------- MODULE MCBloquesCaida ---------------------------
(* Small instances of BloquesCaida for TLC.                                *)
EXTENDS BloquesCaida

CONSTANTS f1, f2

\* One file goes between none and three blocks, the most; the other takes two.
Truncan == (f1 :> {0, 2, 4, 5}) @@ (f2 :> {0, 4})
=============================================================================

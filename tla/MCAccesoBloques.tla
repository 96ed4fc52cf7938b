-------------------------- MODULE MCAccesoBloques ---------------------------
(* Small instances of AccesoBloques for TLC.                               *)
EXTENDS AccesoBloques

CONSTANTS f1, f2

\* One file goes between none and four blocks, the most, and asks for too many;
\* the other takes two.
Truncan == (f1 :> {0, 3, 8, 12, 13}) @@ (f2 :> {6})
=============================================================================

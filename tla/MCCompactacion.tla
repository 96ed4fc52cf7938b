--------------------------- MODULE MCCompactacion ---------------------------
(* Small instances of Compactacion for TLC.                                *)
EXTENDS Compactacion, TLC

CONSTANTS p1, p2, p3, f1, f2

SinRecursos == [r \in Recursos |-> 0]

\* Two processes with a file each and one without.
UnoCadaUno == (p1 :> {f1}) @@ (p2 :> {f2}) @@ (p3 :> {})

\* Two processes with two files between them.
UsanTodo == [p \in Procesos |-> NombresDeArchivo]

\* Two processes share a file and the third has its own.
DosComparten == (p1 :> {f1}) @@ (p2 :> {f2}) @@ (p3 :> {f1})
=============================================================================

----------------------------- MODULE MCArchivos -----------------------------
(* Small instances of Archivos for TLC.                                    *)
EXTENDS Archivos, TLC

CONSTANTS p1, p2, p3, f1, f2

SinRecursos == [r \in Recursos |-> 0]

\* Every script names every file.
UsanTodo == [p \in Procesos |-> NombresDeArchivo]
=============================================================================

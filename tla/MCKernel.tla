------------------------------ MODULE MCKernel ------------------------------
(* Small instances of Kernel for TLC.                                      *)
EXTENDS Kernel, TLC

CONSTANTS p1, p2, p3, p4, r1, r2

UnaInstancia == [r \in Recursos |-> 1]

\* Processes are interchangeable: nothing but equality tells them apart.
Simetria == Permutations(Procesos)
=============================================================================

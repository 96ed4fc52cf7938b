----------------------------- MODULE MCMemoria ------------------------------
(* Small instances of Memoria for TLC.                                     *)
EXTENDS Memoria

CONSTANTS p1, p2, p3

BasuraMC == {[base |-> 0, tamanio |-> 0], [base |-> 3, tamanio |-> 9]}

Simetria == Permutations(Procesos)
=============================================================================

----------------------------- MODULE MCContexto -----------------------------
(* Small instances of Contexto for TLC.                                    *)
EXTENDS Contexto

CONSTANTS p1, p2, p3

BasuraMC == {[base |-> 0, tamanio |-> 0], [base |-> 3, tamanio |-> 9]}

Simetria == Permutations(Procesos)
=============================================================================

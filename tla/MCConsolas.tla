----------------------------- MODULE MCConsolas -----------------------------
(* Small instances of Consolas for TLC.                                    *)
EXTENDS Consolas, TLC

CONSTANTS c1, c2, c3

Linea(tipo, args) == [tipo |-> tipo, args |-> args]
Cadena(texto, largo) == <<"cadena", [texto |-> texto, largo |-> largo]>>
Registro(r) == <<"registro", r>>  \* its number in t_registro
A(n) == <<"paramIntA", n>>
B(n) == <<"paramIntB", n>>

\* Every kind of instruction, a line no console knows, and lines after the EXIT.
Completo ==
  <<Linea("SET", <<Registro(0), Cadena("hola", 5)>>),
    Linea("MOV_OUT", <<A(4), Registro(1)>>),
    Linea("MOV_IN", <<Registro(11), A(8)>>),
    Linea("IO", <<A(2)>>),
    Linea("#", <<>>),
    Linea("CREATE_SEGMENT", <<A(1), B(64)>>),
    Linea("F_OPEN", <<Cadena("notas", 6)>>),
    Linea("F_TRUNCATE", <<Cadena("notas", 6), A(16)>>),
    Linea("F_SEEK", <<Cadena("notas", 6), A(3)>>),
    Linea("F_WRITE", <<Cadena("notas", 6), A(4), B(2)>>),
    Linea("F_READ", <<Cadena("notas", 6), A(8), B(3)>>),
    Linea("F_CLOSE", <<Cadena("notas", 6)>>),
    Linea("WAIT", <<Cadena("disco", 6)>>),
    Linea("SIGNAL", <<Cadena("disco", 6)>>),
    Linea("DELETE_SEGMENT", <<A(1)>>),
    Linea("YIELD", <<>>),
    Linea("EXIT", <<>>),
    Linea("YIELD", <<>>)>>

Corto == <<Linea("MOV_OUT", <<A(0), Registro(0)>>), Linea("EXIT", <<>>)>>

SinEXIT == <<Linea("IO", <<A(1)>>)>>

GuionesMC ==
  [t \in Consolas |-> IF t = c2 THEN {Corto, NoExiste, SinEXIT} ELSE {Completo}]

ASSUME GuionesSeEntiendenMC == GuionesSeEntienden
=============================================================================

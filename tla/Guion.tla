-------------------------------- MODULE Guion --------------------------------
(***************************************************************************)
(* The script of a console on its way to the kernel: what consola.c packs  *)
(* of each line of the file and what hilo_consola.c unpacks of the buffer. *)
(* The buffer has no marks: the kernel knows where an instruction ends     *)
(* only because it expects, for each kind, the fields the console packed.  *)
(*                                                                         *)
(* A cell of the buffer is a word of four bytes (the kind, a register, a   *)
(* number or a length) or one byte of a string.  A string is [texto,       *)
(* largo], where largo counts its final zero; the names and values of the  *)
(* scripts fit in the console's buffer for them.  An instruction is        *)
(* [tipo, args], its arguments with their names, in the order of the file. *)
(***************************************************************************)
EXTENDS Naturals, SequencesExt

\* How the console packs the arguments of each kind.
TiposConsola ==
  [SET |-> <<"palabra", "cadena">>, MOV_IN |-> <<"palabra", "palabra">>,
   MOV_OUT |-> <<"palabra", "palabra">>, IO |-> <<"palabra">>,
   F_OPEN |-> <<"cadena">>, F_CLOSE |-> <<"cadena">>,
   F_SEEK |-> <<"cadena", "palabra">>,
   F_READ |-> <<"cadena", "palabra", "palabra">>,
   F_WRITE |-> <<"cadena", "palabra", "palabra">>,
   F_TRUNCATE |-> <<"cadena", "palabra">>,
   WAIT |-> <<"cadena">>, SIGNAL |-> <<"cadena">>,
   CREATE_SEGMENT |-> <<"palabra", "palabra">>,
   DELETE_SEGMENT |-> <<"palabra">>, YIELD |-> <<>>, EXIT |-> <<>>]

\* The fields the kernel unpacks for each kind, in its order.
CamposKernel ==
  [SET |-> <<"registro", "cadena">>, MOV_IN |-> <<"registro", "paramIntA">>,
   MOV_OUT |-> <<"paramIntA", "registro">>, IO |-> <<"paramIntA">>,
   F_OPEN |-> <<"cadena">>, F_CLOSE |-> <<"cadena">>,
   F_SEEK |-> <<"cadena", "paramIntA">>,
   F_READ |-> <<"cadena", "paramIntA", "paramIntB">>,
   F_WRITE |-> <<"cadena", "paramIntA", "paramIntB">>,
   F_TRUNCATE |-> <<"cadena", "paramIntA">>,
   WAIT |-> <<"cadena">>, SIGNAL |-> <<"cadena">>,
   CREATE_SEGMENT |-> <<"paramIntA", "paramIntB">>,
   DELETE_SEGMENT |-> <<"paramIntA">>, YIELD |-> <<>>, EXIT |-> <<>>]

-----------------------------------------------------------------------------
(* consola.c: agregarInstruccionesDesdeArchivo.                            *)

\* A string goes with its length before it.
EmpaquetarCadena(c) == <<c.largo>> \o [i \in 1 .. c.largo |-> <<c.texto, i>>]

\* A line that begins with any other word is skipped without a message.
EmpaquetarLinea(linea) ==
  LET campos == TiposConsola[linea.tipo] IN
  IF linea.tipo \notin DOMAIN TiposConsola THEN <<>>
  ELSE FlattenSeq(<<<<linea.tipo>>>> \o
         [i \in DOMAIN campos |-> IF campos[i] = "cadena"
                                  THEN EmpaquetarCadena(linea.args[i][2])
                                  ELSE <<linea.args[i][2]>>])

Empaquetar(lineas) == FlattenSeq([i \in DOMAIN lineas |-> EmpaquetarLinea(lineas[i])])

-----------------------------------------------------------------------------
(* hilo_consola.c: recibir_instruciones_desde_consola.                     *)

\* The kernel reads past the end of the buffer.
Agotado == [tipo |-> "agotado", args |-> <<>>]

\* Reading from position i of the buffer: the value and the next position.
LeerPalabra(buffer, i) == [valor |-> buffer[i], sigue |-> i + 1]

LeerCadena(buffer, i) ==
  [valor |-> [texto |-> buffer[i + 1][1], largo |-> buffer[i]],
   sigue |-> i + 1 + buffer[i]]

\* The fields of an instruction from position i on, one after the other.
LeerCampos(buffer, i, campos) ==
  FoldLeft(LAMBDA leido, campo :
             LET uno == IF campo = "cadena" THEN LeerCadena(buffer, leido.sigue)
                        ELSE LeerPalabra(buffer, leido.sigue)
             IN [args |-> Append(leido.args, <<campo, uno.valor>>),
                 sigue |-> uno.sigue],
           [args |-> <<>>, sigue |-> i], campos)

\* The loop ends at EXIT, whatever comes after it, and unpacking the kind from an
\* empty buffer is exit(-1).
Desempaquetar(buffer) ==
  LET desde[i \in 1 .. Len(buffer) + 1] ==
        IF i > Len(buffer) THEN <<Agotado>>
        ELSE LET leido == LeerCampos(buffer, i + 1, CamposKernel[buffer[i]])
                 instruccion == [tipo |-> buffer[i], args |-> leido.args]
             IN IF buffer[i] = "EXIT" THEN <<instruccion>>
                ELSE <<instruccion>> \o desde[leido.sigue]
  IN desde[1]

\* A script up to its first EXIT, without the lines the console skips.
HastaEXIT(lineas) ==
  LET conocidas == SelectSeq(lineas, LAMBDA l : l.tipo \in DOMAIN TiposConsola)
      primero == SelectInSeq(conocidas, LAMBDA l : l.tipo = "EXIT")
  IN SubSeq(conocidas, 1, primero)

=============================================================================

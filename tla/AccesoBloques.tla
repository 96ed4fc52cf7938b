--------------------------- MODULE AccesoBloques ----------------------------
(***************************************************************************)
(* F_WRITE and F_READ of filesystem/src: how escribir_bloques and          *)
(* leer_bloques cut a run of bytes of a file into accesses to its blocks.  *)
(* Extends the allocation of module Bloques, whose unit of size it keeps   *)
(* (a cell).  The contents of a cell are abstracted to where its bytes     *)
(* should be read: <<file, position>>.                                     *)
(*                                                                         *)
(* A block is seen through two variables, as pointers (punteros) and as    *)
(* data (datos): a block that is in use is one of the two (SinCompartir).  *)
(* So nothing is followed (caido) once a write has gone past the blocks of *)
(* its file, where another file may have its pointers, or an access has    *)
(* used no block at all.                                                   *)
(***************************************************************************)
EXTENDS Bloques

CONSTANTS
  Punteros,    \* positions the scripts seek to
  Cantidades   \* sizes they read and write

ASSUME AccesoAssumption ==
  /\ Punteros \subseteq Nat
  /\ Cantidades \subseteq Nat \ {0}

VARIABLES
  datos,      \* each block read as data
  escrito,    \* history: positions of each file written and not cut off since
  respuesta   \* answer to the last read or write, and bytes it counted

varsAB == <<varsB, datos, escrito, respuesta>>

Nada == [header |-> "ninguna", pedidos |-> 0, escritos |-> 0]
Basura == <<"basura", 0>>   \* a byte past the end of the buffer

InitAB ==
  /\ InitB
  /\ datos = [b \in Bloques |-> [c \in Indices |-> Basura]]
  /\ escrito = [f \in Archivos |-> {}]
  /\ respuesta = Nada

-----------------------------------------------------------------------------
(* bloques.c.                                                              *)

Acceso(i, offset, n) == [bloque |-> i, offset |-> offset, n |-> n]

\* The sobrante of escribir_bloques and leer_bloques subtracts the number of
\* whole blocks, not their size.
sobrante(n, restante, enteros) == n - restante - enteros

\* The accesses to the blocks of a file that n bytes from a position take: the
\* rest of the first block, whole blocks, and what is left.
Accesos(puntero, n) ==
  LET bloque == puntero \div BLOCK_SIZE + 1
      offset == puntero % BLOCK_SIZE
      restante == IF n > BLOCK_SIZE - offset THEN BLOCK_SIZE - offset ELSE n
      enteros == (n - restante) \div BLOCK_SIZE
      sobra == sobrante(n, restante, enteros) IN
  <<Acceso(bloque, offset, restante)>>
    \o [i \in 1 .. enteros |-> Acceso(bloque + i, 0, BLOCK_SIZE)]
    \o (IF sobra = 0 THEN <<>> ELSE <<Acceso(bloque + enteros + 1, 0, sobra)>>)

\* Bytes counted by the accesses before the k-th.
Contados(accesos, k) ==
  LET hasta[i \in 0 .. Len(accesos)] ==
        IF i = 0 THEN 0 ELSE hasta[i - 1] + accesos[i].n
  IN hasta[k - 1]

\* The block an access of f falls in: buscar_bloque, or none when the file has
\* no block of pointers or the index is past its end.
Destino(f, a) ==
  IF a.bloque = 1 THEN FCB[f].directo
  ELSE IF FCB[f].indirecto # SinBloque /\ a.bloque - 2 \in Indices
       THEN punteros[FCB[f].indirecto][a.bloque - 2]
  ELSE SinBloque

\* Bytes of a run that leer_bloque copies: those of every access, but for the last
\* one when it would go past the end of its block.
Llegan(puntero, n) ==
  LET accesos == Accesos(puntero, n)
      ultimo == Len(accesos) IN
  Contados(accesos, IF accesos[ultimo].n > BLOCK_SIZE THEN ultimo ELSE ultimo + 1)

\* An access to no block, or past the blocks of the file.
FueraDelArchivo(f, a) == Destino(f, a) = SinBloque \/ a.bloque > Ocupa(FCB[f].tam)

\* escribir_bloque from the start of the buffer every time.
escribir_bloque_SinAvanzar(d, f, puntero, n, k) ==
  LET a == Accesos(puntero, n)[k]
      b == Destino(f, a) IN
  IF b = SinBloque THEN d
  ELSE [d EXCEPT ![b] =
         [c \in Indices |->
            IF c - a.offset \in 0 .. a.n - 1 THEN <<f, puntero + c - a.offset>>
            ELSE @[c]]]

\* escribir_bloque for the k-th access: the bytes of the buffer that come after
\* the ones already counted; whatever does not fit in the block is dropped.
escribir_bloque(d, f, puntero, n, k) ==
  LET a == Accesos(puntero, n)[k]
      b == Destino(f, a)
      desde == Contados(Accesos(puntero, n), k) IN
  IF b = SinBloque THEN d
  ELSE [d EXCEPT ![b] =
         [c \in Indices |->
            IF c - a.offset \in 0 .. a.n - 1
            THEN IF desde + c - a.offset < n
                 THEN <<f, puntero + desde + c - a.offset>> ELSE Basura
            ELSE @[c]]]

escribir_bloques(f, puntero, n) ==
  LET turno[k \in 0 .. Len(Accesos(puntero, n))] ==
        IF k = 0 THEN datos ELSE escribir_bloque(turno[k - 1], f, puntero, n, k)
  IN turno[Len(Accesos(puntero, n))]

\* leer_bloques: byte j of the result comes from the access that counts it;
\* leer_bloque copies nothing when it would go past the end of the block.
leer_bloques(f, puntero, n) ==
  LET accesos == Accesos(puntero, n) IN
  [j \in 0 .. n - 1 |->
     LET k == CHOOSE k \in DOMAIN accesos :
                j - Contados(accesos, k) \in 0 .. accesos[k].n - 1
         a == accesos[k] IN
     IF a.offset + a.n > BLOCK_SIZE \/ Destino(f, a) = SinBloque THEN Basura
     ELSE datos[Destino(f, a)][a.offset + j - Contados(accesos, k)]]

Contestar(h, n, escritos) ==
  respuesta' = [header |-> h, pedidos |-> n, escritos |-> escritos]

-----------------------------------------------------------------------------
(* hilo_consumidor.c.                                                      *)

\* F_READ and F_WRITE past the end of the file.
FueraDeRango(f, puntero, n) ==
  /\ puntero + n > FCB[f].tam
  /\ Contestar("FS_ERROR", n, n)
  /\ UNCHANGED <<varsB, datos, escrito>>

\* F_WRITE, once memory has sent the bytes: the answer compares the bytes
\* counted with the bytes asked for.  Those counted and not asked for come from
\* past the buffer, over what the file had there.
F_WRITE(f, puntero, n) ==
  LET accesos == Accesos(puntero, n)
      total == Contados(accesos, Len(accesos) + 1) IN
  /\ puntero + n <= FCB[f].tam
  /\ datos' = escribir_bloques(f, puntero, n)
  /\ escrito' = [escrito EXCEPT ![f] =
       (@ \ (puntero .. puntero + total - 1)) \union (puntero .. puntero + n - 1)]
  /\ Contestar(IF total = n THEN "FS_OK" ELSE "FS_ERROR", n, total)
  /\ caido' = (\E k \in DOMAIN accesos : FueraDelArchivo(f, accesos[k]))
  /\ UNCHANGED <<bitmap, FCB, existe, punteros>>

\* F_READ: the bytes go to memory, which acknowledges them.  Bytes copied past the
\* buffer may break the heap or not.
F_READ(f, puntero, n) ==
  LET accesos == Accesos(puntero, n) IN
  /\ puntero + n <= FCB[f].tam
  /\ Contestar("FS_OK", n, n)
  /\ caido' \in IF \E k \in DOMAIN accesos : Destino(f, accesos[k]) = SinBloque
                THEN {TRUE}
                ELSE IF Llegan(puntero, n) > n THEN BOOLEAN ELSE {FALSE}
  /\ UNCHANGED <<bitmap, FCB, existe, punteros, datos, escrito>>

\* F_CREATE and F_TRUNCATE: what is cut off does not have to be kept.
Administrar(f) ==
  /\ F_CREATE(f) \/ \E t \in Tamanios[f] : F_TRUNCATE(f, t)
  /\ escrito' = [escrito EXCEPT ![f] = {x \in @ : x < FCB'[f].tam}]
  /\ UNCHANGED <<datos, respuesta>>

NextAB ==
  /\ ~caido
  /\ \E f \in Archivos :
       \/ Administrar(f)
       \/ /\ f \in existe
          /\ \E p \in Punteros, n \in Cantidades :
               FueraDeRango(f, p, n) \/ F_WRITE(f, p, n) \/ F_READ(f, p, n)

SpecAB == InitAB /\ [][NextAB]_varsAB

-----------------------------------------------------------------------------
(* Properties.                                                             *)

\* A read the server carries out returns what was last written at each position
\* it copies, across the bounds of the blocks and whatever this and other files
\* wrote, grew or shrank in between, with blocks left or without.  It copies all
\* but the end of a run of whole blocks whose sobrante comes out larger than a
\* block, and what such a run writes past its own end counts as not written.
LeeLoEscrito ==
  ~caido =>
    \A f \in existe, p \in Punteros, n \in Cantidades :
      p + n <= FCB[f].tam =>
        \A j \in 0 .. n - 1 :
          p + j \in escrito[f] /\ j < Llegan(p, n) =>
            leer_bloques(f, p, n)[j] = <<f, p + j>>

\* bloques.h:15, "Retorno: Cantidad de bytes escritos": the bytes a write counts
\* are the bytes it was asked to write.
EscribeLoPedido == respuesta.escritos = respuesta.pedidos
=============================================================================

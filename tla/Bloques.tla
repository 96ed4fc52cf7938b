------------------------------ MODULE Bloques -------------------------------
(***************************************************************************)
(* How filesystem/src gives its blocks to files: the bitmap (bitmap.c),    *)
(* the FCB of each file (FCB.c) and the blocks of pointers, as F_CREATE    *)
(* and F_TRUNCATE change them (asignar_bloques and liberar_bloques of      *)
(* bloques.c).  The consumer thread serves one request at a time, so a     *)
(* step is a request.  Bitmap, blocks and FCBs are files: they outlive the *)
(* process, and an entry of l_FCBs_abiertos repeats the FCB file, so       *)
(* F_OPEN and a restart between two requests change nothing here.          *)
(*                                                                         *)
(* The unit of size is the pointer, so a block holds BLOCK_SIZE pointers.  *)
(***************************************************************************)
EXTENDS Integers, Sequences, FiniteSets, TLC

CONSTANTS
  Archivos,     \* the names of files
  BLOCK_SIZE,   \* of the superblock, in pointers
  BLOCK_COUNT,  \* of the superblock
  Tamanios      \* sizes the scripts truncate each file to

ASSUME BloquesAssumption ==
  /\ IsFiniteSet(Archivos)
  /\ BLOCK_SIZE \in Nat \ {0}
  /\ BLOCK_COUNT \in Nat \ {0}
  /\ Tamanios \in [Archivos -> SUBSET Nat]

VARIABLES
  bitmap,    \* the blocks whose bit is set
  FCB,       \* size, direct and indirect pointer of each file
  existe,    \* the files that have an FCB
  punteros,  \* each block read as a block of pointers
  caido      \* the process used the block -1, outside the mapping: it died

varsB == <<bitmap, FCB, existe, punteros, caido>>

Bloques == 0 .. BLOCK_COUNT - 1
SinBloque == -1
Indices == 0 .. BLOCK_SIZE - 1

InitB ==
  /\ bitmap = {}
  /\ FCB = [f \in Archivos |-> [tam |-> 0, directo |-> SinBloque,
                                indirecto |-> SinBloque]]
  /\ existe = {}
  /\ punteros = [b \in Bloques |-> [i \in Indices |-> 0]]
  /\ caido = FALSE

-----------------------------------------------------------------------------
(* bitmap.c and bloques.c.                                                 *)

\* Blocks of data a file of size t takes: ceil(t / tam_bloque).
Ocupa(t) == (t + BLOCK_SIZE - 1) \div BLOCK_SIZE

tam_max_arch ==
  IF 1 + BLOCK_SIZE <= BLOCK_COUNT THEN BLOCK_SIZE * (1 + BLOCK_SIZE)
  ELSE BLOCK_SIZE * BLOCK_COUNT

\* The blocks whose bit is clear.
Libres == Bloques \ bitmap

\* The k lowest free blocks, in order.
MasBajos(k) ==
  LET bajos == {b \in Libres : Cardinality({c \in Libres : c < b}) < k} IN
  {s \in [1 .. k -> bajos] : \A i, j \in 1 .. k : i < j => s[i] < s[j]}

\* k calls of get_free_block: the lowest free block each time, and -1 from the
\* moment there are no more.
get_free_block(k) ==
  LET hay == Cardinality(Libres) IN
  IF k <= hay THEN MasBajos(k)
  ELSE {[i \in 1 .. k |-> IF i <= hay THEN s[i] ELSE SinBloque] :
          s \in MasBajos(hay)}

\* asignar_bloques writing the new pointers one place further.
asignar_bloques_Corrido(f, t) ==
  LET ya == Ocupa(FCB[f].tam)
      nuevos == Ocupa(t) - ya
      d == IF FCB[f].tam = 0 THEN 1 ELSE 0
      p == IF Ocupa(t) > 1 /\ FCB[f].tam <= BLOCK_SIZE THEN 1 ELSE 0 IN
  \E s \in get_free_block(nuevos + p) :
    LET pd == IF d = 1 THEN s[1] ELSE FCB[f].directo
        pis == IF p = 1 THEN s[d + 1] ELSE FCB[f].indirecto IN
    /\ bitmap' = bitmap \union ({s[i] : i \in DOMAIN s} \ {SinBloque})
    /\ FCB' = [FCB EXCEPT ![f] = [tam |-> t, directo |-> pd, indirecto |-> pis]]
    /\ IF Ocupa(t) > 1 /\ nuevos > d
       THEN /\ caido' = (pis = SinBloque)
            /\ punteros' =
                 IF pis = SinBloque THEN punteros
                 ELSE [punteros EXCEPT ![pis] =
                   [i \in Indices |->
                      IF i - ya \in 0 .. nuevos - d - 1
                      THEN s[d + p + 1 + i - ya] ELSE @[i]]]
       ELSE UNCHANGED <<punteros, caido>>

\* asignar_bloques writing the new pointers over the ones the file had.
asignar_bloques_DesdeCero(f, t) ==
  LET nuevos == Ocupa(t) - Ocupa(FCB[f].tam)
      d == IF FCB[f].tam = 0 THEN 1 ELSE 0
      p == IF Ocupa(t) > 1 /\ FCB[f].tam <= BLOCK_SIZE THEN 1 ELSE 0 IN
  \E s \in get_free_block(nuevos + p) :
    LET pd == IF d = 1 THEN s[1] ELSE FCB[f].directo
        pis == IF p = 1 THEN s[d + 1] ELSE FCB[f].indirecto IN
    /\ bitmap' = bitmap \union ({s[i] : i \in DOMAIN s} \ {SinBloque})
    /\ FCB' = [FCB EXCEPT ![f] = [tam |-> t, directo |-> pd, indirecto |-> pis]]
    /\ IF Ocupa(t) > 1 /\ nuevos > d
       THEN /\ caido' = (pis = SinBloque)
            /\ punteros' =
                 IF pis = SinBloque THEN punteros
                 ELSE [punteros EXCEPT ![pis] =
                   [i \in Indices |->
                      IF i \in 0 .. nuevos - d - 1 THEN s[d + p + 1 + i]
                      ELSE @[i]]]
       ELSE UNCHANGED <<punteros, caido>>

\* asignar_bloques: a direct pointer if the file had no size, a block of
\* pointers if it had none and needs one, and a pointer in it to each of the
\* other new blocks, after the ones it had.  Writing the block of pointers
\* when there was no block left for it is an access outside the mapping.
asignar_bloques(f, t) ==
  LET ya == Ocupa(FCB[f].tam)
      nuevos == Ocupa(t) - ya
      d == IF FCB[f].tam = 0 THEN 1 ELSE 0
      p == IF Ocupa(t) > 1 /\ FCB[f].tam <= BLOCK_SIZE THEN 1 ELSE 0
      ultimo == IF ya = 0 THEN 0 ELSE ya - 1 IN
  \E s \in get_free_block(nuevos + p) :
    LET pd == IF d = 1 THEN s[1] ELSE FCB[f].directo
        pis == IF p = 1 THEN s[d + 1] ELSE FCB[f].indirecto IN
    /\ bitmap' = bitmap \union ({s[i] : i \in DOMAIN s} \ {SinBloque})
    /\ FCB' = [FCB EXCEPT ![f] = [tam |-> t, directo |-> pd, indirecto |-> pis]]
    /\ IF Ocupa(t) > 1 /\ nuevos > d
       THEN /\ caido' = (pis = SinBloque)
            /\ punteros' =
                 IF pis = SinBloque THEN punteros
                 ELSE [punteros EXCEPT ![pis] =
                   [i \in Indices |->
                      IF i - ultimo \in 0 .. nuevos - d - 1
                      THEN s[d + p + 1 + i - ultimo] ELSE @[i]]]
       ELSE UNCHANGED <<punteros, caido>>

\* liberar_bloques keeping the block of pointers of a file left with one block.
liberar_bloques_SinIndirecto(f, t) ==
  LET antes == Ocupa(FCB[f].tam)
      ahora == Ocupa(t)
      directo == IF ahora = 0 THEN {FCB[f].directo} ELSE {}
      a_liberar == antes - ahora - Cardinality(directo)
      datos == IF antes > 1
               THEN {punteros[FCB[f].indirecto][i] :
                       i \in antes - 1 - a_liberar .. antes - 2}
               ELSE {}
      indirecto == IF antes > 1 /\ ahora = 0 THEN {FCB[f].indirecto} ELSE {} IN
  /\ bitmap' = bitmap \ (directo \union datos \union indirecto)
  /\ FCB' = [FCB EXCEPT ![f].tam = t]
  /\ caido' = (SinBloque \in directo \union datos \union indirecto)
  /\ UNCHANGED punteros

\* liberar_bloques: the direct block if nothing is left, the last pointers, and
\* the block of pointers if one block or none is left.  The pointers of the FCB
\* keep their values.
liberar_bloques(f, t) ==
  LET antes == Ocupa(FCB[f].tam)
      ahora == Ocupa(t)
      directo == IF ahora = 0 THEN {FCB[f].directo} ELSE {}
      a_liberar == antes - ahora - Cardinality(directo)
      datos == IF antes > 1
               THEN {punteros[FCB[f].indirecto][i] :
                       i \in antes - 1 - a_liberar .. antes - 2}
               ELSE {}
      indirecto == IF antes > 1 /\ ahora <= 1 THEN {FCB[f].indirecto} ELSE {} IN
  /\ bitmap' = bitmap \ (directo \union datos \union indirecto)
  /\ FCB' = [FCB EXCEPT ![f].tam = t]
  /\ caido' = (SinBloque \in directo \union datos \union indirecto)
  /\ UNCHANGED punteros

-----------------------------------------------------------------------------
(* hilo_consumidor.c.                                                      *)

\* The kernel creates a file after it was told that it does not exist.
F_CREATE(f) ==
  /\ f \notin existe
  /\ existe' = existe \union {f}
  /\ FCB' = [FCB EXCEPT ![f] = [tam |-> 0, directo |-> SinBloque,
                                indirecto |-> SinBloque]]
  /\ UNCHANGED <<bitmap, punteros, caido>>

\* A size above the maximum leaves the file as it was, and so does its own size.
F_TRUNCATE(f, t) ==
  /\ f \in existe
  /\ \/ t > FCB[f].tam /\ t <= tam_max_arch /\ asignar_bloques(f, t)
     \/ t < FCB[f].tam /\ liberar_bloques(f, t)
     \/ t > FCB[f].tam /\ t > tam_max_arch /\ UNCHANGED <<bitmap, FCB, punteros, caido>>
     \/ t = FCB[f].tam /\ UNCHANGED <<bitmap, FCB, punteros, caido>>
  /\ UNCHANGED existe

NextB ==
  /\ ~caido
  /\ \E f \in Archivos :
       F_CREATE(f) \/ \E t \in Tamanios[f] : F_TRUNCATE(f, t)

SpecB == InitB /\ [][NextB]_varsB

-----------------------------------------------------------------------------
(* Properties.                                                             *)

\* Every variable keeps its type.
TypeOKB ==
  /\ bitmap \subseteq Bloques
  /\ FCB \in [Archivos -> [tam : Nat, directo : Bloques \union {SinBloque},
                           indirecto : Bloques \union {SinBloque}]]
  /\ existe \subseteq Archivos
  /\ punteros \in [Bloques -> [Indices -> Bloques \union {SinBloque}]]
  /\ caido \in BOOLEAN

\* The i-th block of data of a file, as buscar_bloque finds it.
buscar_bloque(f, i) ==
  IF i = 1 THEN FCB[f].directo ELSE punteros[FCB[f].indirecto][i - 2]

\* The places where a file holds a block: its blocks of data and, as number 0,
\* its block of pointers.
Lugares(f) ==
  (1 .. Ocupa(FCB[f].tam)) \union (IF Ocupa(FCB[f].tam) > 1 THEN {0} ELSE {})

BloqueEn(f, i) == IF i = 0 THEN FCB[f].indirecto ELSE buscar_bloque(f, i)

\* A block is in one place of one file: two files never share a block, nor does
\* a file use one twice, whatever was truncated, freed and taken again before,
\* with blocks left or without.
SinCompartir ==
  ~caido =>
    \A f, g \in Archivos : \A i \in Lugares(f), j \in Lugares(g) :
      BloqueEn(f, i) = BloqueEn(g, j) /\ BloqueEn(f, i) # SinBloque =>
        f = g /\ i = j

\* The bits that are set are those of the blocks some file holds: no block in use
\* may be given away and no block is lost by growing and shrinking files.
BitmapExacto ==
  ~caido =>
    bitmap = (UNION {{BloqueEn(f, i) : i \in Lugares(f)} : f \in Archivos})
               \ {SinBloque}

\* Truncating a file changes no block of another, and the file keeps, in their
\* places, the blocks it has before and after.
TruncarConserva ==
  [][\A f \in Archivos : \A i \in Lugares(f) \ {0} :
       i \in Lugares(f)' => BloqueEn(f, i)' = BloqueEn(f, i)]_varsB

\* bloques.c:293, "Asigno la cantidad de punteros a bloques de datos que
\* necesito": a file has a block for each part of its size.
TamanioRespaldado ==
  \A f \in Archivos : \A i \in Lugares(f) :
    ~caido => BloqueEn(f, i) # SinBloque
=============================================================================

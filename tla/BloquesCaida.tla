---------------------------- MODULE BloquesCaida ----------------------------
(***************************************************************************)
(* asignar_bloques and liberar_bloques of filesystem/src/bloques.c one     *)
(* write at a time, with the death of the process between any two of them  *)
(* and its restart.  The bitmap and the blocks are mapped with MAP_SHARED: *)
(* what was stored is in the file when the process dies.  The FCB is       *)
(* changed in memory (config_set_value) and reaches the file only in       *)
(* actualizar_FCB.  Here FCB, of Bloques, is the file, and the FCB in      *)
(* memory is in the request under way: between requests the two agree.     *)
(*                                                                         *)
(* Without crashes this implements Bloques, where a request is one step.   *)
(***************************************************************************)
EXTENDS Bloques

CONSTANTS
  MaxCaidas,  \* bound on the deaths that are not the code's doing
  MaxPedidos  \* bound on the requests

ASSUME CaidaAssumption == MaxCaidas \in Nat /\ MaxPedidos \in Nat

VARIABLES
  peticion,  \* the F_TRUNCATE under way: its next step and its locals
  pedidos,   \* requests so far
  caidas,    \* deaths so far
  rotos,     \* history: the files whose request died between its two saves
  previo     \* history: the disk before the request, until the first death

disco == <<bitmap, FCB, existe, punteros>>
varsC == <<varsB, peticion, pedidos, caidas, rotos, previo>>

Ninguna == [paso |-> "libre"]

Disco == [bitmap |-> bitmap, FCB |-> FCB, existe |-> existe,
          punteros |-> punteros]

InitC ==
  /\ InitB
  /\ peticion = Ninguna
  /\ pedidos = 0
  /\ caidas = 0
  /\ rotos = {}
  /\ previo = Disco

-----------------------------------------------------------------------------
(* The steps of a request.                                                 *)

En(paso) == peticion.paso = paso

Antes == Ocupa(peticion.tam_ant)
Total == Ocupa(peticion.fcb.tam)

Ir(p, paso) == peticion' = [p EXCEPT !.paso = paso]
Terminar == peticion' = Ninguna

\* The lowest free block, or none.
MasBajo == IF Libres = {} THEN SinBloque
           ELSE CHOOSE b \in Libres : \A c \in Libres : b <= c

\* get_free_block handing a block without setting its bit.
TomarBloque_SinMarcar(b) ==
  /\ b = MasBajo
  /\ UNCHANGED <<bitmap, FCB, punteros>>

\* get_free_block: b is the block, whose bit is set, or -1.
TomarBloque(b) ==
  /\ b = MasBajo
  /\ bitmap' = bitmap \union ({b} \ {SinBloque})
  /\ UNCHANGED <<FCB, punteros>>

\* actualizar_FCB: the FCB in memory becomes the file.
actualizar_FCB ==
  /\ FCB' = [FCB EXCEPT ![peticion.f] = peticion.fcb]
  /\ UNCHANGED <<bitmap, punteros>>

\* bitarray_clean_bit; with -1 it is a store outside the mapping.
Limpiar(b) ==
  /\ b # SinBloque
  /\ bitmap' = bitmap \ {b}
  /\ UNCHANGED <<FCB, punteros>>

\* Where asignar_bloques goes once the direct pointer is there, and where once
\* the block of pointers is.
TrasIndirecto(p) ==
  IF Ocupa(p.fcb.tam) > 1 /\ p.faltan > 0 THEN "datos" ELSE "guardar"

TrasDirecto(p) ==
  IF Ocupa(p.fcb.tam) > 1 /\ p.tam_ant <= BLOCK_SIZE THEN "indirecto"
  ELSE TrasIndirecto(p)

\* Where liberar_bloques goes once the direct block is cleared, or kept.
TrasLimpiarDirecto(p) == IF Ocupa(p.tam_ant) > 1 THEN "leer" ELSE "fin"

TrasLimpiarDatos(p) == IF Ocupa(p.fcb.tam) <= 1 THEN "limpiar_indirecto" ELSE "fin"

\* liberar_bloques clearing bits without saving the new size.
PrimerPasoDeLiberar_SinGuardar(p) ==
  IF Ocupa(p.fcb.tam) = 0 THEN "limpiar_directo" ELSE TrasLimpiarDirecto(p)

\* liberar_bloques saves the new size before it clears any bit.
PrimerPasoDeLiberar(p) == "guardar_tam"

\* A request comes.  Nothing is promised of the files of rotos: the model stops
\* when there is one.
Recibe ==
  /\ En("libre")
  /\ rotos = {}
  /\ pedidos < MaxPedidos
  /\ pedidos' = pedidos + 1

\* F_TRUNCATE of an existing file up to the change of the size in memory.
Truncar(f, t) ==
  LET p == [paso |-> "libre", f |-> f, tam_ant |-> FCB[f].tam,
            fcb |-> [FCB[f] EXCEPT !.tam = t],
            faltan |-> IF t > FCB[f].tam THEN Ocupa(t) - Ocupa(FCB[f].tam)
                       ELSE Ocupa(FCB[f].tam) - Ocupa(t),
            lista |-> <<>>] IN
  /\ Recibe
  /\ f \in existe
  /\ \/ t < FCB[f].tam /\ Ir(p, PrimerPasoDeLiberar(p))
     \/ /\ t > FCB[f].tam
        /\ t <= tam_max_arch
        /\ Ir(p, IF FCB[f].tam = 0 THEN "directo" ELSE TrasDirecto(p))
  /\ previo' = IF caidas = 0 THEN Disco ELSE previo
  /\ UNCHANGED <<disco, caido, caidas, rotos>>

Crear(f) ==
  /\ Recibe
  /\ F_CREATE(f)
  /\ UNCHANGED <<peticion, caidas, rotos, previo>>

\* bloques.c:267-273.
AsignarDirecto ==
  /\ En("directo")
  /\ \E b \in Bloques \union {SinBloque} :
       LET p == [peticion EXCEPT !.fcb.directo = b, !.faltan = @ - 1] IN
       TomarBloque(b) /\ Ir(p, TrasDirecto(p))

\* bloques.c:276-280.
AsignarIndirecto ==
  /\ En("indirecto")
  /\ \E b \in Bloques \union {SinBloque} :
       /\ TomarBloque(b)
       /\ Ir([peticion EXCEPT !.fcb.indirecto = b], "guardar_indirecto")

\* bloques.c:282, which saves the new size too.
GuardarIndirecto ==
  /\ En("guardar_indirecto")
  /\ actualizar_FCB
  /\ Ir(peticion, TrasIndirecto(peticion))

\* bloques.c:295-298 with i <= bloques_nuevos_a_ocupar.
AsignarDato_HastaElUltimo ==
  /\ En("datos")
  /\ \E b \in Bloques \union {SinBloque} :
       LET p == [peticion EXCEPT !.lista = Append(@, b), !.faltan = @ - 1] IN
       TomarBloque(b) /\ Ir(p, IF p.faltan >= 0 THEN "datos" ELSE "punteros")

\* bloques.c:295-298, one turn of the loop.
AsignarDato ==
  /\ En("datos")
  /\ \E b \in Bloques \union {SinBloque} :
       LET p == [peticion EXCEPT !.lista = Append(@, b), !.faltan = @ - 1] IN
       TomarBloque(b) /\ Ir(p, IF p.faltan > 0 THEN "datos" ELSE "punteros")

\* bloques.c:303 over the first pointers of the block.
EscribirPunteros_DesdeCero ==
  /\ En("punteros")
  /\ peticion.fcb.indirecto # SinBloque
  /\ punteros' = [punteros EXCEPT ![peticion.fcb.indirecto] =
                    [i \in Indices |-> IF i + 1 \in DOMAIN peticion.lista
                                       THEN peticion.lista[i + 1] ELSE @[i]]]
  /\ Ir(peticion, "guardar")
  /\ UNCHANGED <<bitmap, FCB>>

\* bloques.c:303: the new pointers after the ones the block had.
EscribirPunteros ==
  LET ultimo == IF Antes = 0 THEN 0 ELSE Antes - 1 IN
  /\ En("punteros")
  /\ peticion.fcb.indirecto # SinBloque
  /\ punteros' = [punteros EXCEPT ![peticion.fcb.indirecto] =
                    [i \in Indices |->
                       IF i - ultimo + 1 \in DOMAIN peticion.lista
                       THEN peticion.lista[i - ultimo + 1] ELSE @[i]]]
  /\ Ir(peticion, "guardar")
  /\ UNCHANGED <<bitmap, FCB>>

\* bloques.c:308.
GuardarFinal ==
  /\ En("guardar")
  /\ actualizar_FCB
  /\ Terminar

\* bloques.c:348.
GuardarTamanio ==
  /\ En("guardar_tam")
  /\ actualizar_FCB
  /\ Ir(peticion, IF Total = 0 THEN "limpiar_directo"
                  ELSE TrasLimpiarDirecto(peticion))

\* bloques.c:350-354.
LimpiarDirecto ==
  /\ En("limpiar_directo")
  /\ Limpiar(peticion.fcb.directo)
  /\ Ir([peticion EXCEPT !.faltan = @ - 1], TrasLimpiarDirecto(peticion))

\* bloques.c:369: the pointers to the blocks that go.
LeerPunteros ==
  LET primero == Antes - 1 - peticion.faltan
      lista == [k \in 1 .. peticion.faltan |->
                  punteros[peticion.fcb.indirecto][primero + k - 1]] IN
  /\ En("leer")
  /\ \/ /\ peticion.faltan > 0
        /\ peticion.fcb.indirecto # SinBloque
        /\ Ir([peticion EXCEPT !.lista = lista], "limpiar_datos")
     \/ /\ peticion.faltan = 0
        /\ Ir(peticion, TrasLimpiarDatos(peticion))
  /\ UNCHANGED <<bitmap, FCB, punteros>>

\* bloques.c:372-376, one turn of the loop.
LimpiarDato ==
  LET p == [peticion EXCEPT !.lista = Tail(@)] IN
  /\ En("limpiar_datos")
  /\ Limpiar(Head(peticion.lista))
  /\ Ir(p, IF p.lista = <<>> THEN TrasLimpiarDatos(p) ELSE "limpiar_datos")

\* bloques.c:379-382 leaving the bit of the block of pointers set.
LimpiarIndirecto_SinLimpiar ==
  /\ En("limpiar_indirecto")
  /\ Ir(peticion, "fin")
  /\ UNCHANGED <<bitmap, FCB, punteros>>

\* bloques.c:379-382.
LimpiarIndirecto ==
  /\ En("limpiar_indirecto")
  /\ Limpiar(peticion.fcb.indirecto)
  /\ Ir(peticion, "fin")

\* bloques.c:386-389, with the answer to the kernel.
FinDeLiberar ==
  /\ En("fin")
  /\ Terminar
  /\ UNCHANGED <<bitmap, FCB, punteros>>

Paso ==
  /\ \/ AsignarDirecto \/ AsignarIndirecto \/ GuardarIndirecto \/ AsignarDato
     \/ EscribirPunteros \/ GuardarFinal
     \/ GuardarTamanio \/ LimpiarDirecto \/ LeerPunteros \/ LimpiarDato
     \/ LimpiarIndirecto \/ FinDeLiberar
  /\ UNCHANGED <<existe, caido, pedidos, caidas, rotos, previo>>

-----------------------------------------------------------------------------
(* Death and restart.                                                      *)

\* The next step uses the block -1: an access outside the mapping.
Muere ==
  \/ En("punteros") /\ peticion.fcb.indirecto = SinBloque
  \/ En("leer") /\ peticion.faltan > 0 /\ peticion.fcb.indirecto = SinBloque
  \/ En("limpiar_directo") /\ peticion.fcb.directo = SinBloque
  \/ En("limpiar_datos") /\ Head(peticion.lista) = SinBloque
  \/ En("limpiar_indirecto") /\ peticion.fcb.indirecto = SinBloque

\* The size is saved and the pointers to its blocks are not written yet.
EntreGuardados ==
  /\ peticion.paso \in {"datos", "punteros"}
  /\ FCB[peticion.f].tam = peticion.fcb.tam

\* The process dies and main starts it again over the same files
\* (levantar_volumen creates only those that are missing).
Caida ==
  /\ rotos = {}
  /\ Muere \/ caidas < MaxCaidas
  /\ caidas' = IF caidas < MaxCaidas THEN caidas + 1 ELSE caidas
  /\ rotos' = IF EntreGuardados THEN rotos \union {peticion.f} ELSE rotos
  /\ previo' = IF caidas = 0 /\ En("libre") THEN Disco ELSE previo
  /\ Terminar
  /\ UNCHANGED <<disco, caido, pedidos>>

NextC ==
  \/ \E f \in Archivos : Crear(f) \/ \E t \in Tamanios[f] : Truncar(f, t)
  \/ Paso
  \/ Caida

SpecC == InitC /\ [][NextC]_varsC

-----------------------------------------------------------------------------
(* Properties.                                                             *)

\* Every variable keeps its type.
TypeOKC ==
  /\ TypeOKB
  /\ pedidos \in 0 .. MaxPedidos
  /\ caidas \in 0 .. MaxCaidas
  /\ rotos \subseteq Archivos
  /\ DOMAIN peticion \in {{"paso"},
                          {"paso", "f", "tam_ant", "fcb", "faltan", "lista"}}
  /\ ~En("libre") =>
       /\ peticion.f \in existe
       /\ peticion.faltan \in 0 .. BLOCK_SIZE + 1
       /\ peticion.lista \in Seq(Bloques \union {SinBloque})

\* The files of which the size on disk runs ahead of their pointers, now or
\* since a death.
AMedias == rotos \union (IF EntreGuardados THEN {peticion.f} ELSE {})

\* Whatever the moment the process dies, even several times and with the bitmap
\* full, the files on disk do not share a block, nor has one a block twice: the
\* order of the stores in asignar_bloques and liberar_bloques is what makes it so.
\* The gap between the saves of bloques.c:282 and 308 is left out.
SinCompartirEnDisco ==
  AMedias = {} =>
    \A f, g \in Archivos : \A i \in Lugares(f), j \in Lugares(g) :
      BloqueEn(f, i) = BloqueEn(g, j) /\ BloqueEn(f, i) # SinBloque =>
        f = g /\ i = j

\* And no block a file on disk uses has its bit clear, so that a restart does
\* not give it away: a death can only lose free blocks.
UsadosMarcados ==
  AMedias = {} =>
    \A f \in Archivos : \A i \in Lugares(f) :
      BloqueEn(f, i) # SinBloque => BloqueEn(f, i) \in bitmap

\* No step of a request, no death and no restart moves a block of data that a
\* file has on disk before and after.
ConservaEnDisco ==
  [][AMedias = {} =>
       \A f \in Archivos : \A i \in Lugares(f) \ {0} :
         i \in Lugares(f)' => BloqueEn(f, i)' = BloqueEn(f, i)]_varsC

\* SinCompartirEnDisco without the exception: what a restart finds after a death
\* between bloques.c:282 and 303 breaks it.
RestoSinCompartir ==
  En("libre") =>
    \A f, g \in Archivos : \A i \in Lugares(f), j \in Lugares(g) :
      BloqueEn(f, i) = BloqueEn(g, j) /\ BloqueEn(f, i) # SinBloque =>
        f = g /\ i = j

\* The disk as a request left it, until a death.
Quieto == En("libre") /\ caidas = 0
B == INSTANCE Bloques
       WITH bitmap <- IF Quieto THEN bitmap ELSE previo.bitmap,
            FCB <- IF Quieto THEN FCB ELSE previo.FCB,
            existe <- IF Quieto THEN existe ELSE previo.existe,
            punteros <- IF Quieto THEN punteros ELSE previo.punteros

\* While nothing dies, the stores of a request add up to the one step Bloques
\* takes for it.
ImplementaBloques == B!SpecB
=============================================================================

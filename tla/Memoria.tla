------------------------------ MODULE Memoria -------------------------------
(***************************************************************************)
(* The segment administration of memoria/src: the list of segments, the    *)
(* list of holes, the three allocation algorithms, the joining of holes    *)
(* (buddySystem) and the compaction, as the thread hilo_kernel_m runs them *)
(* for the requests of the kernel.  The kernel sends one request at a time *)
(* and waits for the answer (the mutex of its memory socket apart), so a   *)
(* step is a whole request.                                                *)
(*                                                                         *)
(* listaHuecos holds pointers: an entry carries the object it points to,   *)
(* for eliminarProceso may add the same object several times.              *)
(***************************************************************************)
EXTENDS Integers, Sequences, FiniteSets, SequencesExt, TLC

CONSTANTS
  Procesos,       \* pids
  TamMemoria,     \* TAM_MEMORIA of memoria.cfg
  TamSegmento0,   \* TAM_SEGMENTO_0
  AlgoritmoAsignacion, \* ALGORITMO_ASIGNACION: "FIRST", "BEST" or "WORST"
  Tamanios,       \* sizes the scripts ask for
  Terminan,       \* the processes that may end
  MaxSegmentos,   \* bound: segments of a process at a time
  Modulo,         \* uint32_t counts modulo this
  Basura          \* what a hole may contain once it is freed

Global == "global"   \* the pid (20000) of segmento_0

ASSUME MemoriaAssumption ==
  /\ TamMemoria \in Nat /\ TamSegmento0 \in 1 .. TamMemoria
  /\ AlgoritmoAsignacion \in {"FIRST", "BEST", "WORST"}
  /\ Tamanios \subseteq Nat \ {0}
  /\ Terminan \subseteq Procesos
  /\ MaxSegmentos \in Nat
  /\ Modulo \in Nat /\ Modulo > TamMemoria
  /\ Basura \subseteq [base : Nat, tamanio : Nat]
  /\ Global \notin Procesos

VARIABLES
  listaSegmentos,  \* the segments, in the order of the list
  listaHuecos,     \* the holes, in the order of the list
  vivos,           \* processes initiated and not finalised
  muertos,         \* processes finalised
  pendiente,       \* segment the kernel asks for again after compacting
  compactada,      \* the memory has just been compacted for it
  respuesta        \* last answer sent to the kernel

varsM == <<listaSegmentos, listaHuecos, vivos, muertos, pendiente, compactada,
           respuesta>>

segmentoCrear(p, i, b, t) == [pid |-> p, id |-> i, base |-> b, tamanio |-> t]
Hueco(o, b, t) == [obj |-> o, base |-> b, tamanio |-> t]
segmento_0 == segmentoCrear(Global, 0, 0, TamSegmento0)
Nada == segmentoCrear(Global, 0, 0, 0)

InitM ==
  /\ listaSegmentos = <<segmento_0>>
  /\ listaHuecos = <<Hueco(1, TamSegmento0, TamMemoria - TamSegmento0)>>
  /\ vivos = {}
  /\ muertos = {}
  /\ pendiente = Nada
  /\ compactada = FALSE
  /\ respuesta = "ninguna"

-----------------------------------------------------------------------------
(* funciones.c and algoritmos.c.                                           *)

\* list_sort by base: entries with the same base may end in any order.  The ways
\* to take n indices of the list, each time one with the lowest base of the rest.
Primeros(l) ==
  LET orden[n \in 0 .. Len(l)] ==
        IF n = 0 THEN {<<>>}
        ELSE {Append(o[1], o[2]) :
                o \in {x \in orden[n - 1] \X DOMAIN l :
                        /\ x[2] \notin Range(x[1])
                        /\ \A j \in DOMAIN l \ Range(x[1]) :
                             l[x[2]].base <= l[j].base}}
  IN orden

EnOrdenDeBase(l) == {[i \in DOMAIN l |-> l[o[i]]] : o \in Primeros(l)[Len(l)]}

\* An object no entry of the list points to (malloc).
ObjetoNuevo(l) ==
  CHOOSE o \in 1 .. Len(l) + 1 : \A i \in DOMAIN l : l[i].obj # o

\* Writing through a pointer: every entry that points to the object changes.
Escribir(l, o, b, t) ==
  [i \in DOMAIN l |-> IF l[i].obj = o THEN Hueco(o, b, t) ELSE l[i]]

\* The holes that could take a segment of size t.
Cabe(t) == {i \in DOMAIN listaHuecos : listaHuecos[i].tamanio >= t}

\* espacioLibre after each turn of the loop that adds up the holes of l.
EspacioLibre(l) ==
  LET hasta[i \in 0 .. Len(l)] ==
        IF i = 0 THEN 0 ELSE (hasta[i - 1] + l[i].tamanio) % Modulo
  IN hasta

\* comprobar_Creacion_de_Seg wanting room to spare (> for >=).
comprobar_Estricto(t) ==
  IF \E i \in Cabe(t) : listaHuecos[i].tamanio > t THEN 1
  ELSE IF \E k \in DOMAIN listaHuecos : EspacioLibre(listaHuecos)[k] >= t THEN -1
  ELSE 0

\* comprobar_Creacion_de_Seg: 1 if some hole is large enough, -1 if the holes
\* are large enough together, 0 if there is no memory.
comprobar_Creacion_de_Seg(t) ==
  IF Cabe(t) # {} THEN 1
  ELSE IF \E k \in DOMAIN listaHuecos : EspacioLibre(listaHuecos)[k] >= t THEN -1
  ELSE 0

\* algoritmoFirstFit, algoritmoBestFit and algoritmoWorstFit: the hole each one
\* takes, the first that is large enough once the list is sorted by base, by size
\* or by size downwards.  Equal keys may be sorted in any order, and that order
\* is not kept: whoever reads the list next sorts it first or does not mind.
Elegible(i, t) ==
  /\ i \in Cabe(t)
  /\ \A j \in Cabe(t) :
       CASE AlgoritmoAsignacion = "FIRST" ->
              listaHuecos[i].base <= listaHuecos[j].base
         [] AlgoritmoAsignacion = "BEST" ->
              listaHuecos[i].tamanio <= listaHuecos[j].tamanio
         [] AlgoritmoAsignacion = "WORST" ->
              listaHuecos[i].tamanio >= listaHuecos[j].tamanio

\* The hole shrinks but its base stays where the segment was put.
Ocupar_SinMover(i, t) ==
  LET h == listaHuecos[i] IN
  IF h.tamanio > t
  THEN {Escribir(listaHuecos, h.obj, h.base, h.tamanio - t)}
  ELSE {RemoveAt(listaHuecos, i)}

\* The hole shrinks twice, once in the algorithm and once in its caller.
Ocupar_DosVeces(i, t) ==
  LET h == listaHuecos[i] IN
  IF h.tamanio > t
  THEN {Escribir(listaHuecos, h.obj, h.base + t, h.tamanio - 2 * t)}
  ELSE {RemoveAt(listaHuecos, i)}

\* The hole shrinks, and loses its entry when nothing is left of it.  The entry
\* is freed then: another entry for the same object reads garbage from there on.
Ocupar(i, t) ==
  LET h == listaHuecos[i]
      resto == RemoveAt(listaHuecos, i) IN
  IF h.tamanio > t
  THEN {Escribir(listaHuecos, h.obj, h.base + t, h.tamanio - t)}
  ELSE IF \E j \in DOMAIN resto : resto[j].obj = h.obj
       THEN {Escribir(resto, h.obj, g.base, g.tamanio) : g \in Basura}
  ELSE {resto}

\* One turn of the loop of buddySystem that forgets to add the sizes.
Unir_SinSumar(l, i) ==
  IF i >= Len(l) \/ l[i].base + l[i].tamanio # l[i + 1].base THEN l
  ELSE RemoveFirst(Escribir(l, l[i + 1].obj, l[i].base, l[i + 1].tamanio), l[i])

\* One turn of the loop of buddySystem: the second of two adjacent holes grows
\* over the first, whose entry is removed.
Unir(l, i) ==
  IF i >= Len(l) \/ l[i].base + l[i].tamanio # l[i + 1].base THEN l
  ELSE RemoveFirst(Escribir(l, l[i + 1].obj, l[i].base,
                            l[i + 1].tamanio + l[i].tamanio), l[i])

\* buddySystem: sort, then one pass; the index advances after a union too, so
\* the hole just made is not compared with the next one.
Pasada(l) ==
  LET turno[i \in 0 .. Len(l)] == IF i = 0 THEN l ELSE Unir(turno[i - 1], i)
  IN turno

buddySystem(l) == {Pasada(m)[Len(m)] : m \in EnOrdenDeBase(l)}

\* buscarSegmentoPorPID: one turn for each entry of the list.
Hallados(l, p) ==
  LET turno[i \in 0 .. Len(l)] ==
        IF i = 0 THEN <<>>
        ELSE IF l[i].pid = p THEN Append(turno[i - 1], l[i]) ELSE turno[i - 1]
  IN turno[Len(l)]

buscarSegmentoPorPID(p) == Hallados(listaSegmentos, p)

\* eliminarProceso: the loop compares a growing index with the length of a list
\* that shrinks, so half of the segments (rounded up) become holes, and all of
\* them are one object, with the contents of the last one.
eliminarProceso(borrar) ==
  LET vueltas == (Len(borrar) + 1) \div 2
      h == Hueco(ObjetoNuevo(listaHuecos), borrar[vueltas].base,
                 borrar[vueltas].tamanio) IN
  IF vueltas = 0 THEN listaHuecos
  ELSE listaHuecos \o [i \in 1 .. vueltas |-> h]

\* Where each segment of l ends when it is put right after the one before it.
Desplazamiento(l) ==
  LET hasta[i \in 0 .. Len(l)] == IF i = 0 THEN 0 ELSE hasta[i - 1] + l[i].tamanio
  IN hasta

Rebasados(l) ==
  [i \in DOMAIN l |-> [l[i] EXCEPT !.base = Desplazamiento(l)[i - 1]]]

\* What is left of the memory after the segments of l.
HuecoNuevo(o, l) ==
  Hueco(o, Desplazamiento(l)[Len(l)], (TamMemoria - Desplazamiento(l)[Len(l)]) % Modulo)

\* compactar forgetting to clear the old holes.
compactar_SinLimpiar ==
  \E l \in EnOrdenDeBase(listaSegmentos) :
    /\ listaSegmentos' = Rebasados(l)
    /\ listaHuecos' = Append(listaHuecos, HuecoNuevo(ObjetoNuevo(listaHuecos), l))

\* compactar: the segments move down in order of base and one hole is left,
\* of size 0 if the memory is full.
compactar ==
  \E l \in EnOrdenDeBase(listaSegmentos) :
    /\ listaSegmentos' = Rebasados(l)
    /\ listaHuecos' = <<HuecoNuevo(1, l)>>

-----------------------------------------------------------------------------
(* comunicacion_K.c: the requests of the kernel.                           *)

\* INICIAR_PROCESO: only the size of segmento_0 is answered, also while a creation
\* waits for its compaction, since the crear_pcb threads ask on their own.
IniciarProceso(p) ==
  /\ p \notin vivos \union muertos
  /\ vivos' = vivos \union {p}
  /\ respuesta' = "TAMANIO"
  /\ UNCHANGED <<listaSegmentos, listaHuecos, muertos, pendiente, compactada>>

\* FINALIZAR_PROCESO: the segments of the process stay in listaSegmentos.
FinalizarProceso(p) ==
  /\ pendiente = Nada
  /\ p \in vivos \intersect Terminan
  /\ vivos' = vivos \ {p}
  /\ muertos' = muertos \union {p}
  /\ listaHuecos' \in buddySystem(eliminarProceso(buscarSegmentoPorPID(p)))
  /\ respuesta' = "PROCESO_BORRADO"
  /\ UNCHANGED <<listaSegmentos, pendiente, compactada>>

\* CREATE_SEGMENT with room: the algorithm picks a hole.  mandarLaBase would take
\* the base 0 for SIN_MEMORIA: segmento_0 has it, and no hole does.
CrearConLugar(p, id, t) ==
  /\ comprobar_Creacion_de_Seg(t) = 1
  /\ \E i \in DOMAIN listaHuecos :
       /\ Elegible(i, t)
       /\ listaHuecos' \in Ocupar(i, t)
       /\ listaSegmentos' =
            Append(listaSegmentos, segmentoCrear(p, id, listaHuecos[i].base, t))
  /\ respuesta' = "BASE"
  /\ pendiente' = Nada

\* CREATE_SEGMENT without room: base 0 or -1, which mandarLaBase turns into
\* SIN_MEMORIA or NECESITO_COMPACTAR.
CrearSinLugar(p, id, t) ==
  /\ \/ /\ comprobar_Creacion_de_Seg(t) = 0
        /\ respuesta' = "SIN_MEMORIA"
        /\ pendiente' = Nada
     \/ /\ comprobar_Creacion_de_Seg(t) = -1
        /\ respuesta' = "NECESITO_COMPACTAR"
        /\ pendiente' = segmentoCrear(p, id, 0, t)
  /\ UNCHANGED <<listaSegmentos, listaHuecos>>

CREATE_SEGMENT(p, id, t) ==
  /\ CrearConLugar(p, id, t) \/ CrearSinLugar(p, id, t)
  /\ compactada' = FALSE
  /\ UNCHANGED <<vivos, muertos>>

\* The scripts do not reuse a number in use; which of the others they use makes
\* no difference, and the model takes the smallest.
PedirSegmento(p) ==
  LET usados == {s.id : s \in Range(buscarSegmentoPorPID(p))} IN
  /\ pendiente = Nada
  /\ p \in vivos
  /\ \E id \in (1 .. MaxSegmentos) \ usados :
       /\ 1 .. id - 1 \subseteq usados
       /\ \E t \in Tamanios : CREATE_SEGMENT(p, id, t)

\* recibir_respuesta_create_segment in the kernel: after the compaction the
\* segment is asked for again.
PedirDeNuevo ==
  /\ pendiente # Nada
  /\ compactada
  /\ CREATE_SEGMENT(pendiente.pid, pendiente.id, pendiente.tamanio)

\* DELETE_SEGMENT of a segment that exists.
DELETE_SEGMENT(p, s) ==
  /\ pendiente = Nada
  /\ p \in vivos
  /\ s \in Range(buscarSegmentoPorPID(p))
  /\ listaHuecos' \in buddySystem(Append(listaHuecos,
                          Hueco(ObjetoNuevo(listaHuecos), s.base, s.tamanio)))
  /\ listaSegmentos' = RemoveFirst(listaSegmentos, s)
  /\ respuesta' = "LISTA"
  /\ UNCHANGED <<vivos, muertos, pendiente, compactada>>

\* EMPEZA_A_COMPACTAR: the kernel asks for it when it was told to.
EMPEZA_A_COMPACTAR ==
  /\ pendiente # Nada
  /\ ~compactada
  /\ compactar
  /\ compactada' = TRUE
  /\ respuesta' = "LISTA"
  /\ UNCHANGED <<vivos, muertos, pendiente>>

NextM ==
  \/ \E p \in Procesos : IniciarProceso(p) \/ FinalizarProceso(p) \/ PedirSegmento(p)
  \/ \E p \in Procesos : \E s \in Range(listaSegmentos) : DELETE_SEGMENT(p, s)
  \/ PedirDeNuevo
  \/ EMPEZA_A_COMPACTAR

SpecM == InitM /\ [][NextM]_varsM

-----------------------------------------------------------------------------
(* Properties.                                                             *)

Segmentos == Range(listaSegmentos)
Huecos == Range(listaHuecos)
Bytes(x) == x.base .. x.base + x.tamanio - 1
Disjuntos(x, y) == Bytes(x) \intersect Bytes(y) = {}

\* The segments some process may use: its own and segmento_0.
EnUso == {s \in Segmentos : s.pid \in vivos \union {Global}}
BytesLibres == UNION {Bytes(h) : h \in Huecos}

\* Every variable keeps its type: bases and sizes are never negative.
TypeOKM ==
  /\ listaSegmentos \in Seq([pid : Procesos \union {Global}, id : Nat, base : Nat,
                              tamanio : Nat])
  /\ listaHuecos \in Seq([obj : Nat, base : Nat, tamanio : Nat])
  /\ vivos \subseteq Procesos
  /\ muertos \subseteq Procesos
  /\ compactada \in BOOLEAN

\* algoritmos.c, "buscar el primer hueco que pueda contener el segmento": a
\* segment is put where nothing is, so two segments in use never share a byte,
\* of the same process or of two.
SegmentosDisjuntos ==
  \A i, j \in DOMAIN listaSegmentos :
    {listaSegmentos[i], listaSegmentos[j]} \subseteq EnUso /\ i # j
      => Disjuntos(listaSegmentos[i], listaSegmentos[j])

\* No hole covers a byte of a segment in use nor of another hole.
HuecosLibres ==
  \A i \in DOMAIN listaHuecos :
    /\ \A s \in EnUso : Disjuntos(listaHuecos[i], s)
    /\ \A j \in DOMAIN listaHuecos :
         i # j => Disjuntos(listaHuecos[i], listaHuecos[j])

\* While no process has ended every byte of the memory is in a segment or in a
\* hole, and none is outside: creating, deleting, joining and compacting lose
\* nothing.
BytesConservados ==
  muertos = {} =>
    BytesLibres \union UNION {Bytes(s) : s \in EnUso} = 0 .. TamMemoria - 1

\* The kernel asks for the segment again after a compaction with no check of its
\* own: while no process has ended, the second answer is always a base.
CompactarAlcanza ==
  [][compactada /\ muertos = {} /\ ~compactada' => respuesta' = "BASE"]_varsM

\* comunicacion_K.c:43: "borro todos los segmentos con ese Pid y mando un
\* PROCESO_BORRADO": the bytes of the segments of a finalised process are free.
FinalizarBorra ==
  [][\A p \in vivos \ vivos' :
       \A s \in Range(buscarSegmentoPorPID(p)) : Bytes(s) \subseteq BytesLibres']_varsM

\* funciones.c:25 and :35 look for contiguous room before they ask for a
\* compaction: it is asked for only if no run of free bytes is long enough.
CompactaSoloSiHaceFalta ==
  pendiente # Nada /\ ~compactada =>
    \A b \in BytesLibres :
      ~(b .. b + pendiente.tamanio - 1 \subseteq BytesLibres)

\* funciones.c:45, "Informar falta de espacio libre al Kernel", is what happens
\* when there is no room: what the processes have never exceeds the memory.
EnMemoria == \A s \in EnUso : s.base + s.tamanio <= TamMemoria
=============================================================================

------------------------------ MODULE Archivos ------------------------------
(***************************************************************************)
(* The file instructions of hilo_general, the kernel thread that receives  *)
(* the filesystem's answers (esperar_respuestas) and the filesystem's      *)
(* producer and consumer threads, which serve requests one at a time and   *)
(* in order.  Extends the life cycle of module Kernel.                     *)
(*                                                                         *)
(* Scripts open a file once, use it only while it is open and close it     *)
(* once; the position pointer (F_SEEK) and the contents are left out.      *)
(***************************************************************************)
EXTENDS Kernel

CONSTANTS
  NombresDeArchivo,  \* the names of files
  Usa,               \* the files the script of each process names
  OperacionesES,     \* which of F_READ, F_WRITE, F_TRUNCATE the scripts use
  PuedeFallar,       \* scripts may read or write beyond the end of a file
  CierranAlSalir,    \* scripts close their files before they end
  MaxPermisos,       \* bound: permits of archivo_PCB_bloqueada
  MaxOperaciones     \* bound: operations counted in instruccion_en_fs

OperacionesDeFS == {"F_READ", "F_WRITE", "F_TRUNCATE"}

ASSUME ArchivosAssumption ==
  /\ IsFiniteSet(NombresDeArchivo)
  /\ Usa \in [Procesos -> SUBSET NombresDeArchivo]
  /\ Nadie \notin NombresDeArchivo
  /\ OperacionesES \subseteq OperacionesDeFS
  /\ PuedeFallar \in BOOLEAN
  /\ CierranAlSalir \in BOOLEAN
  /\ MaxPermisos \in Nat
  /\ MaxOperaciones \in Nat

VARIABLES
  TGAA,                  \* names in LISTA_TGAA, the open files
  lista_block_archivo,   \* queue of each entry of the TGAA
  taap,                  \* files in each process's table of open files
  archivo_PCB_bloqueada, \* semaphore shared by all the file queues
  instruccion_en_fs,     \* operations the filesystem has in hand
  archivo_en_curso,      \* file of the instruction hilo_general is handling
  hayQueCompactar,       \* hilo_general waits for the operations to end
  espera_instrucciones,  \* semaphore it waits on
  pedidos,               \* requests sent to the filesystem, not yet served
  respuestas,            \* its answers, not yet received
  en_disco,              \* files that have an FCB
  pc_fs,                 \* where esperar_respuestas is
  resp                   \* the answer it is handling, and the process it took

canales == <<pedidos, respuestas, en_disco>>
hilo_fs == <<pc_fs, resp>>
compactacion == <<hayQueCompactar, espera_instrucciones>>
tablas == <<TGAA, lista_block_archivo, taap, archivo_PCB_bloqueada>>
varsArchivos == <<tablas, instruccion_en_fs, archivo_en_curso, compactacion,
                  canales, hilo_fs>>
varsA == <<vars, varsArchivos>>

\* proc is history: who asked.  The answers of the filesystem carry the name of
\* the file only (respuesta_a_kernel).
Pedido(tipo, f, p) == [tipo |-> tipo, archivo |-> f, proc |-> p]
Respuesta(header, m) == [header |-> header, archivo |-> m.archivo, proc |-> m.proc]
SinRespuesta == [header |-> "nada", archivo |-> Nadie, proc |-> Nadie]

InitA ==
  /\ Init
  /\ TGAA = {}
  /\ lista_block_archivo = [f \in NombresDeArchivo |-> <<>>]
  /\ taap = [p \in Procesos |-> {}]
  /\ archivo_PCB_bloqueada = 0
  /\ instruccion_en_fs = 0
  /\ archivo_en_curso = Nadie
  /\ hayQueCompactar = FALSE
  /\ espera_instrucciones = 0
  /\ pedidos = <<>>
  /\ respuestas = <<>>
  /\ en_disco = {}
  /\ pc_fs = "espera_respuesta"
  /\ resp = SinRespuesta

-----------------------------------------------------------------------------
(* hilo_general.c: the file instructions.                                  *)

\* pasar_a_blocked_de_archivo without the sem_post(&archivo_PCB_bloqueada).
pasar_a_blocked_de_archivo_SinPost(p, f) ==
  /\ pcb_ejecutando_remove
  /\ lista_block_archivo' = [lista_block_archivo EXCEPT ![f] = Append(@, p)]
  /\ UNCHANGED archivo_PCB_bloqueada

\* pasar_a_blocked_de_archivo_de_TGAA: join the file's queue, then post.
pasar_a_blocked_de_archivo(p, f) ==
  /\ pcb_ejecutando_remove
  /\ lista_block_archivo' = [lista_block_archivo EXCEPT ![f] = Append(@, p)]
  /\ archivo_PCB_bloqueada' = archivo_PCB_bloqueada + 1

\* case F_OPEN of a file somebody has open: wait in its queue, with the file
\* already in the process's own table.
FOpenEsperar(p, f) ==
  /\ Devuelve(p)
  /\ f \notin taap[p]
  /\ f \in TGAA
  /\ archivo_PCB_bloqueada < MaxPermisos
  /\ taap' = [taap EXCEPT ![p] = @ \union {f}]
  /\ pasar_a_blocked_de_archivo(p, f)
  /\ LiberarCPU
  /\ UNCHANGED <<LISTA_NEW, LISTA_READY, LISTA_BLOCKED, LISTA_EXIT, CantPCBNew,
                 multiprogramacion, cantPCBReady, pasar_pcb_a_CPU, recursos,
                 consola, pc_largo, pc_corto, TGAA, instruccion_en_fs,
                 archivo_en_curso, compactacion, canales, hilo_fs>>

\* F_OPEN that frees the CPU while it waits for the filesystem.
FOpenPedir_LiberaCPU(p, f) ==
  /\ Devuelve(p)
  /\ f \notin taap[p]
  /\ f \notin TGAA
  /\ pedidos' = Append(pedidos, Pedido("F_OPEN", f, p))
  /\ pc_general' = "espera_fs"
  /\ en_cpu' = Nadie
  /\ CPUVacia' = CPUVacia + 1
  /\ UNCHANGED <<listas, CantPCBNew, multiprogramacion, cantPCBReady,
                 pasar_pcb_a_CPU, recursos, consola, pc_largo, pc_corto,
                 tablas, instruccion_en_fs, archivo_en_curso, compactacion,
                 respuestas, en_disco, hilo_fs>>

\* case F_OPEN of a file nobody has open: ask the filesystem and wait on
\* FS_Continue with the process still in LISTA_EXEC.
FOpenPedir(p, f) ==
  /\ Devuelve(p)
  /\ f \notin taap[p]
  /\ f \notin TGAA
  /\ pedidos' = Append(pedidos, Pedido("F_OPEN", f, p))
  /\ pc_general' = "espera_fs"
  /\ en_cpu' = Nadie
  /\ UNCHANGED <<listas, semaforos, recursos, consola, pc_largo, pc_corto,
                 tablas, instruccion_en_fs, archivo_en_curso, compactacion,
                 respuestas, en_disco, hilo_fs>>

\* F_CLOSE that drops the entry of the TGAA even if processes wait in its queue.
FClose_SinMirarCola(p, f) ==
  /\ Devuelve(p)
  /\ f \in taap[p]
  /\ taap' = [taap EXCEPT ![p] = @ \ {f}]
  /\ TGAA' = TGAA \ {f}
  /\ devolver_ce_a_cpu
  /\ UNCHANGED <<listas, CantPCBNew, multiprogramacion, cantPCBReady,
                 pasar_pcb_a_CPU, recursos, consola, pc_largo, pc_corto,
                 lista_block_archivo, archivo_PCB_bloqueada, instruccion_en_fs,
                 archivo_en_curso, compactacion, canales, hilo_fs>>

\* desbloqueo_al_primer_proceso_de_la_cola_del that drops the entry as well.
DesbloquearPrimero_Quita(f) ==
  /\ lista_block_archivo[f] # <<>>
  /\ lista_block_archivo' = [lista_block_archivo EXCEPT ![f] = Tail(@)]
  /\ pasar_a_ready(Head(lista_block_archivo[f]))
  /\ TGAA' = TGAA \ {f}

\* desbloqueo_al_primer_proceso_de_la_cola_del: the first waiter takes over the
\* entry; archivo_PCB_bloqueada is not decremented.
DesbloquearPrimero(f) ==
  /\ lista_block_archivo[f] # <<>>
  /\ lista_block_archivo' = [lista_block_archivo EXCEPT ![f] = Tail(@)]
  /\ pasar_a_ready(Head(lista_block_archivo[f]))
  /\ UNCHANGED TGAA

quitarArchivoEnTGAA(f) ==
  /\ lista_block_archivo[f] = <<>>
  /\ TGAA' = TGAA \ {f}
  /\ UNCHANGED <<lista_block_archivo, LISTA_READY, cantPCBReady>>

\* case F_CLOSE.
FClose(p, f) ==
  /\ Devuelve(p)
  /\ f \in taap[p]
  /\ taap' = [taap EXCEPT ![p] = @ \ {f}]
  /\ DesbloquearPrimero(f) \/ quitarArchivoEnTGAA(f)
  /\ devolver_ce_a_cpu
  /\ UNCHANGED <<LISTA_NEW, LISTA_EXEC, LISTA_BLOCKED, LISTA_EXIT, CantPCBNew,
                 multiprogramacion, pasar_pcb_a_CPU, recursos, consola,
                 pc_largo, pc_corto, archivo_PCB_bloqueada, instruccion_en_fs,
                 archivo_en_curso, compactacion, canales, hilo_fs>>

\* The operation sent without counting it in instruccion_en_fs.
PedirOperacion_SinContar(p, f, op) ==
  /\ Devuelve(p)
  /\ f \in taap[p]
  /\ pedidos' = Append(pedidos, Pedido(op, f, p))
  /\ archivo_en_curso' = f
  /\ pc_general' = "bloquea_en_archivo"
  /\ en_cpu' = Nadie
  /\ UNCHANGED <<listas, semaforos, recursos, consola, pc_largo, pc_corto,
                 tablas, instruccion_en_fs, compactacion, respuestas, en_disco,
                 hilo_fs>>

\* cases F_READ, F_WRITE and F_TRUNCATE up to the send: the operation is
\* counted and on its way before the process joins the queue.
PedirOperacion(p, f, op) ==
  /\ Devuelve(p)
  /\ f \in taap[p]
  /\ instruccion_en_fs < MaxOperaciones
  /\ instruccion_en_fs' = instruccion_en_fs + 1
  /\ pedidos' = Append(pedidos, Pedido(op, f, p))
  /\ archivo_en_curso' = f
  /\ pc_general' = "bloquea_en_archivo"
  /\ en_cpu' = Nadie
  /\ UNCHANGED <<listas, semaforos, recursos, consola, pc_largo, pc_corto,
                 tablas, compactacion, respuestas, en_disco, hilo_fs>>

\* The rest of those three cases: the process joins the queue of the file.
BloquearEnArchivo ==
  /\ pc_general = "bloquea_en_archivo"
  /\ pasar_a_blocked_de_archivo(pcb_ejecutando, archivo_en_curso)
  /\ archivo_en_curso' = Nadie
  /\ LiberarCPU
  /\ UNCHANGED <<LISTA_NEW, LISTA_READY, LISTA_BLOCKED, LISTA_EXIT, CantPCBNew,
                 multiprogramacion, cantPCBReady, pasar_pcb_a_CPU, recursos,
                 consola, pc_largo, pc_corto, TGAA, taap, instruccion_en_fs,
                 compactacion, canales, hilo_fs>>

-----------------------------------------------------------------------------
(* filesystem/src: hilo_productor queues the requests, hilo_consumidor     *)
(* serves them one by one and answers.                                     *)

\* What the consumer may answer to a request.
Contestaciones(m) ==
  CASE m.tipo = "F_OPEN" ->
         {IF m.archivo \in en_disco THEN "FS_OPEN_OK" ELSE "FS_OPEN_NO_OK"}
    [] m.tipo = "F_CREATE" -> {"FS_CREATE_OK"}
    [] m.tipo = "F_TRUNCATE" -> {"FS_OK"}
    [] m.tipo \in {"F_READ", "F_WRITE"} ->
         {"FS_OK"} \union (IF PuedeFallar THEN {"FS_ERROR"} ELSE {})

AtenderPedido ==
  /\ pedidos # <<>>
  /\ pedidos' = Tail(pedidos)
  /\ \E h \in Contestaciones(Head(pedidos)) :
       respuestas' = Append(respuestas, Respuesta(h, Head(pedidos)))
  /\ en_disco' = IF Head(pedidos).tipo = "F_CREATE"
                 THEN en_disco \union {Head(pedidos).archivo} ELSE en_disco
  /\ UNCHANGED <<vars, tablas, instruccion_en_fs, archivo_en_curso,
                 compactacion, hilo_fs>>

-----------------------------------------------------------------------------
(* hilo_general.c: esperar_respuestas, the thread of the answers.          *)

Recibe(headers) ==
  /\ pc_fs = "espera_respuesta"
  /\ respuestas # <<>>
  /\ Head(respuestas).header \in headers
  /\ respuestas' = Tail(respuestas)

\* FS_OPEN_OK, FS_CREATE_OK: the file enters the TGAA and the table of the
\* process in LISTA_EXEC, and hilo_general, which waits on FS_Continue,
\* returns the context to the CPU.
RespuestaAbierto ==
  /\ Recibe({"FS_OPEN_OK", "FS_CREATE_OK"})
  /\ TGAA' = TGAA \union {Head(respuestas).archivo}
  /\ taap' = [taap EXCEPT ![pcb_ejecutando] = @ \union {Head(respuestas).archivo}]
  /\ pc_general' = "espera_cym"
  /\ en_cpu' = pcb_ejecutando
  /\ UNCHANGED <<listas, semaforos, recursos, consola, pc_largo, pc_corto,
                 lista_block_archivo, archivo_PCB_bloqueada, instruccion_en_fs,
                 archivo_en_curso, compactacion, pedidos, en_disco, hilo_fs>>

\* FS_OPEN_NO_OK: the file has to be created.
RespuestaInexistente ==
  /\ Recibe({"FS_OPEN_NO_OK"})
  /\ pedidos' = Append(pedidos, Pedido("F_CREATE", Head(respuestas).archivo,
                                       Head(respuestas).proc))
  /\ UNCHANGED <<vars, tablas, instruccion_en_fs, archivo_en_curso,
                 compactacion, en_disco, hilo_fs>>

\* Any other header, FS_ERROR among them, is logged and forgotten.
RespuestaIgnorada ==
  /\ Recibe({"FS_ERROR"})
  /\ UNCHANGED <<vars, tablas, instruccion_en_fs, archivo_en_curso,
                 compactacion, pedidos, en_disco, hilo_fs>>

\* FS_OK: the thread goes to wait on archivo_PCB_bloqueada.
RespuestaOK ==
  /\ Recibe({"FS_OK"})
  /\ pc_fs' = "espera_bloqueada"
  /\ resp' = Head(respuestas)
  /\ UNCHANGED <<vars, tablas, instruccion_en_fs, archivo_en_curso,
                 compactacion, pedidos, en_disco>>

\* sacar_de_blocked_de_archivo_de_TGAA leaving the process in the queue.
SacarDeBlocked_SinSacar ==
  /\ pc_fs = "espera_bloqueada"
  /\ archivo_PCB_bloqueada > 0
  /\ archivo_PCB_bloqueada' = archivo_PCB_bloqueada - 1
  /\ lista_block_archivo[resp.archivo] # <<>>
  /\ resp' = [resp EXCEPT !.proc = Head(lista_block_archivo[resp.archivo])]
  /\ instruccion_en_fs' = instruccion_en_fs - 1
  /\ pc_fs' = "desbloquea"
  /\ UNCHANGED <<vars, TGAA, taap, lista_block_archivo, archivo_en_curso,
                 compactacion, canales>>

\* sacar_de_blocked_de_archivo_de_TGAA: the first process of the file's queue;
\* then the operation is discounted.
SacarDeBlocked ==
  /\ pc_fs = "espera_bloqueada"
  /\ archivo_PCB_bloqueada > 0
  /\ archivo_PCB_bloqueada' = archivo_PCB_bloqueada - 1
  /\ lista_block_archivo[resp.archivo] # <<>>
  /\ lista_block_archivo' = [lista_block_archivo EXCEPT ![resp.archivo] = Tail(@)]
  /\ resp' = [resp EXCEPT !.proc = Head(lista_block_archivo[resp.archivo])]
  /\ instruccion_en_fs' = instruccion_en_fs - 1
  /\ pc_fs' = "desbloquea"
  /\ UNCHANGED <<vars, TGAA, taap, archivo_en_curso, compactacion, canales>>

\* With a permit left over the queue may be empty: list_remove returns NULL and
\* the kernel process dies reading the PCB.
SacarDeColaVacia ==
  /\ pc_fs = "espera_bloqueada"
  /\ archivo_PCB_bloqueada > 0
  /\ lista_block_archivo[resp.archivo] = <<>>
  /\ pc_fs' = "caido"
  /\ UNCHANGED <<vars, tablas, instruccion_en_fs, archivo_en_curso,
                 compactacion, canales, resp>>

\* The rest of case FS_OK: the flag of a compaction that waits is read, and if
\* it is clear the process goes to ready.
Desbloquear ==
  /\ pc_fs = "desbloquea"
  /\ ~hayQueCompactar
  /\ pasar_a_ready(resp.proc)
  /\ pc_fs' = "espera_respuesta"
  /\ resp' = SinRespuesta
  /\ UNCHANGED <<LISTA_NEW, LISTA_EXEC, LISTA_BLOCKED, LISTA_EXIT, CantPCBNew,
                 multiprogramacion, CPUVacia, pasar_pcb_a_CPU, recursos,
                 consola, hilos, en_cpu, tablas, instruccion_en_fs,
                 archivo_en_curso, compactacion, canales>>

-----------------------------------------------------------------------------
\* A script that closes its files does not end with one open.
PuedeTerminar(p) == CierranAlSalir => taap[p] = {}

FinA(p) == Fin(p) /\ PuedeTerminar(p) /\ UNCHANGED varsArchivos

\* The instructions of module Kernel.
HandlerKernel(p) ==
  /\ Handler(p)
  /\ (consola'[p] \in Razones => PuedeTerminar(p))
  /\ UNCHANGED varsArchivos

HandlerArchivo(p) ==
  \E f \in Usa[p] :
    \/ FOpenEsperar(p, f)
    \/ FOpenPedir(p, f)
    \/ FClose(p, f)
    \/ \E op \in OperacionesES : PedirOperacion(p, f, op)

\* The threads of module Kernel other than the handlers.
PasoKernel ==
  /\ \/ \E p \in Procesos : crear_pcb(p) \/ sleep_IO(p)
     \/ Planificadores
     \/ EnviarContexto
     \/ FinDeTerminar
  /\ UNCHANGED varsArchivos

HiloRespuestas ==
  \/ RespuestaAbierto
  \/ RespuestaInexistente
  \/ RespuestaIgnorada
  \/ RespuestaOK
  \/ SacarDeBlocked
  \/ SacarDeColaVacia
  \/ Desbloquear

NextA ==
  /\ pc_fs # "caido"
  /\ \/ PasoKernel
     \/ \E p \in Procesos : HandlerKernel(p) \/ HandlerArchivo(p)
     \/ BloquearEnArchivo
     \/ AtenderPedido
     \/ HiloRespuestas

SpecA == InitA /\ [][NextA]_varsA

\* The scheduling of module Kernel; besides, a process that keeps getting the
\* CPU closes what it has open and ends, for its script is finite.
EquidadA ==
  /\ WF_varsA(PasoKernel /\ EsperarNew)
  /\ WF_varsA(PasoKernel /\ agregar_pcb_a_ready)
  /\ WF_varsA(PasoKernel /\ EsperarReady)
  /\ WF_varsA(PasoKernel /\ \E p \in Procesos : Despachar(p))
  /\ WF_varsA(PasoKernel /\ EnviarContexto)
  /\ WF_varsA(PasoKernel /\ FinDeTerminar)
  /\ WF_varsA(BloquearEnArchivo)
  /\ WF_varsA(AtenderPedido)
  /\ WF_varsA(HiloRespuestas)
  /\ \A p \in Procesos :
       /\ WF_varsA(PasoKernel /\ sleep_IO(p))
       /\ SF_varsA(FinA(p))
       /\ \A f \in Usa[p] : SF_varsA(FClose(p, f))

FairSpecA == SpecA /\ EquidadA

-----------------------------------------------------------------------------
(* Properties.                                                             *)

TiposDePedido == OperacionesDeFS \union {"F_OPEN", "F_CREATE"}
Headers == {"FS_OK", "FS_ERROR", "FS_OPEN_OK", "FS_OPEN_NO_OK", "FS_CREATE_OK"}

\* Every variable of this module keeps its type; the semaphores and the count of
\* operations never go below zero.
TypeOKA ==
  /\ TGAA \subseteq NombresDeArchivo
  /\ lista_block_archivo \in [NombresDeArchivo -> Seq(Procesos)]
  /\ taap \in [Procesos -> SUBSET NombresDeArchivo]
  /\ archivo_PCB_bloqueada \in Nat
  /\ instruccion_en_fs \in Nat
  /\ archivo_en_curso \in NombresDeArchivo \union {Nadie}
  /\ hayQueCompactar \in BOOLEAN
  /\ espera_instrucciones \in Nat
  /\ pedidos \in Seq([tipo : TiposDePedido, archivo : NombresDeArchivo,
                      proc : Procesos])
  /\ respuestas \in Seq([header : Headers, archivo : NombresDeArchivo,
                         proc : Procesos])
  /\ en_disco \subseteq NombresDeArchivo
  /\ pc_fs \in {"espera_respuesta", "espera_bloqueada", "desbloquea",
                "avisa", "caido"}
  /\ resp \in [header : Headers \union {"nada"},
               archivo : NombresDeArchivo \union {Nadie},
               proc : Procesos \union {Nadie}]

\* The entries of the file queues that hold a process of T: file and position.
Entradas(T) ==
  {x \in UNION {{f} \X DOMAIN lista_block_archivo[f] : f \in NombresDeArchivo} :
     lista_block_archivo[x[1]][x[2]] \in T}

\* A process is in exactly one list, the file queues and the hands of the thread
\* of the answers included.
UnSoloEstadoA ==
  \A p \in Procesos :
    Apariciones(p) + Cardinality(Entradas({p}))
      + (IF pc_fs \in {"desbloquea", "avisa"} /\ resp.proc = p THEN 1 ELSE 0)
    = IF consola[p] = "sin_conexion" THEN 0 ELSE 1

\* The operations the filesystem still has in hand, or has answered without the
\* answer having been handled (the thread died on it, if it is "caido").
EnVuelo ==
  Cardinality({i \in DOMAIN pedidos : pedidos[i].tipo \in OperacionesDeFS})
    + Cardinality({i \in DOMAIN respuestas :
                     respuestas[i].header \in {"FS_OK", "FS_ERROR"}})
    + (IF pc_fs \in {"espera_bloqueada", "caido"} THEN 1 ELSE 0)

\* instruccion_en_fs, which decides whether memory may be compacted, never counts
\* less than the operations in flight, and counts exactly them while no operation
\* fails.
OperacionesContadas ==
  /\ instruccion_en_fs >= EnVuelo
  /\ ~PuedeFallar => instruccion_en_fs = EnVuelo

EnColas == Cardinality(Entradas(Procesos))

\* The thread of the answers never waits for a permit while a process is queued:
\* archivo_PCB_bloqueada has a permit for each process in a file queue.
PermisosDeArchivo == archivo_PCB_bloqueada >= EnColas

\* Who has the use of a file: it is in the process's table and the process is
\* not in the file's queue.
Dueno(f) ==
  {p \in Procesos : f \in taap[p] /\ ~Aparece(p, lista_block_archivo[f])}

\* A file is used by one process at a time, and only while it is in the TGAA.
\* Holds as long as nobody blocks on an operation of the file (OperacionesES
\* empty or files not shared): see DespiertaAlQuePidio.
ArchivoExclusivo ==
  \A f \in NombresDeArchivo :
    /\ Cardinality(Dueno(f)) <= 1
    /\ Dueno(f) # {} => f \in TGAA

\* hilo_general.c:446 and :449: when FS_OK arrives for a file, the process that leaves
\* the blocked list is the one whose operation ended.
DespiertaAlQuePidio ==
  [][pc_fs = "espera_bloqueada" /\ pc_fs' = "desbloquea"
       => resp'.proc = resp.proc]_varsA

\* hilo_general.c:506: what is removed from the queue of the file is the PCB that
\* was blocked; list_remove never returns NULL.
SacaUnaBloqueada == pc_fs # "caido"

\* A process that waits to open a file is ready again some day, if those before it
\* in the queue close it.  (Nobody blocks on an operation: OperacionesES empty.)
BloqueadoVuelve ==
  \A p \in Procesos, f \in NombresDeArchivo :
    Aparece(p, lista_block_archivo[f]) ~> Aparece(p, LISTA_READY)
=============================================================================

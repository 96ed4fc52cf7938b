# A verification of SomosTodosMontiel

`SomosTodosMontiel` is a small operating system made of five programs that talk
over TCP: a **kernel** that schedules processes, a **cpu** that runs their
instructions, a **memoria** that keeps their segments, a **filesystem** that
keeps their files, and a **consola** per process that sends its script and waits
for the reason it ended. This directory holds TLA+ modules translated from that
code, the TLC configurations that check them on small instances, and proofs for
the TLA+ proof system. Names are those of the source wherever TLA+ allows it.

* [Inventory](#inventory)
* [Modules](#modules)
* [Runs](#runs)
* [Counterexamples kept beside the runs](#counterexamples-kept-beside-the-runs)
* [Fairness](#fairness)
* [Proofs](#proofs)
* [What is not modelled](#what-is-not-modelled)
* [Plan](#plan)

## Inventory

### kernel (`kernel/src`)

Threads: `planiLargoPlazo`, `planiCortoPlazo` (planificacion.c), `hilo_general`
(the only one that talks to the CPU), `esperar_respuestas` (the answers of the
filesystem), one `crear_pcb` thread per console, one `sleep_IO` thread per `IO`
in progress. They share the lists of `variables.c` and synchronise with POSIX
semaphores.

| part | state | operations | must hold |
|---|---|---|---|
| life cycle | `LISTA_NEW`, `LISTA_READY`, `LISTA_EXEC`, `LISTA_BLOCKED`, `LISTA_EXIT`, `CantPCBNew`, `multiprogramacion`, `cantPCBReady`, `CPUVacia`, `pasar_pcb_a_CPU` | arrival, admission, dispatch (FIFO or HRRN), `IO`, `YIELD`, `EXIT`, errors | one process has the CPU, each process is in one list, a slot of the degree per admitted process, no `list_remove` of an empty list, arrival and ready order, progress |
| resources | free instances, queue per resource, instances held | `WAIT`, `SIGNAL`, return at the end | instances conserved, waiters in order, nobody waits for a free one |
| files | global table of open files with a queue each, `archivo_PCB_bloqueada`, `instruccion_en_fs` | `F_OPEN`, `F_CLOSE`, `F_READ`, `F_WRITE`, `F_TRUNCATE`, `F_SEEK`, the answers | one user of a file at a time, an answer wakes who asked, whoever blocks comes back, the count of operations is right |
| connections | the socket with memory, used by `hilo_general` and by every `crear_pcb` without a mutex; the accepted consoles | handshakes, start and end of a process, segment requests, the loop that accepts a console and reads its script | each thread reads the answer to what it asked, each console its end, one bad console does not take the others with it |
| contexts | PCB: program counter, registers, segment table, `tamanio_tabla`; `motivoDevolucion` | dispatch, return, `CREATE_SEGMENT`, `DELETE_SEGMENT`, compaction | no instruction lost or repeated, tables equal to what memory has, a process sleeps what it asked |

### cpu (`cpu/src`)

One thread: receives a context, runs instructions until one has to go to the
kernel, and returns the context. State: the context. `SET`, `MOV_IN`, `MOV_OUT`
are its own; `usarMMU` translates addresses. Must hold: what is read at a logical
address is what was last written there.

### memoria (`memoria/src`)

A thread for the kernel (segments), one for the cpu and one for the filesystem
(bytes). State: `listaSegmentos`, `listaHuecos`, `espacioUsuario`. Operations:
start and end of a process, create, delete, compact; read and write. Must hold:
segments in use overlap neither each other nor a hole, no byte is lost, a
compaction is asked for only when it is needed and is then enough.

### filesystem (`filesystem/src`)

A producer thread queues the requests of the kernel and a consumer serves them
one by one. State: bitmap, blocks, an FCB file per file. Must hold: a block
belongs to one place of one file, the bitmap says exactly which, truncating keeps
the rest, reading returns what was written, and a restart finds on disk blocks
that belong to one file, whenever the process died.

### consola (`consola/src`) and shared (`shared/src`)

The console connects to the kernel, greets it, parses its script, sends it and
waits for the reason of the end. `shared` sends and receives the messages: a
header alone, or a header, a size and a payload, with one call each. Must hold:
the kernel unpacks from a script what the console packed, and the console that
connected is answered.

### What is hard here

Nine kinds of thread with hand-made protocols over semaphores and no condition
variables; one semaphore, one socket and one reason object shared by many users;
copies of segment tables in every PCB that a compaction must update while other
threads move PCBs between lists; answers of the filesystem matched with processes
by queue position; a compaction that waits for a count two threads change; block
and hole arithmetic at its bounds; a disk written in several stores with no
recovery; lists shortened while they are walked. `PROJECT.json` lists each at its line under `hazards`.

## Modules

```
CicloDeVida <-- implemented by -- Kernel <--EXTENDS-- Archivos <--EXTENDS-- Compactacion

Memoria <--EXTENDS-- Contexto          ConexionMemoria <--EXTENDS-- Consolas
                                       Guion           <--EXTENDS--
Bloques <--EXTENDS-- AccesoBloques
Bloques <--EXTENDS, implements-- BloquesCaida

KernelProofs <--EXTENDS-- CicloProofs                                   (Kernel)
KernelProofs <--EXTENDS-- ArchivosProofs                (Archivos, Compactacion)
MemoriaProofs <--EXTENDS-- ContextoProofs                     (Memoria; Contexto)
BloquesProofs <--EXTENDS-- CaidaProofs      (Bloques, AccesoBloques; BloquesCaida)
ConexionProofs                                      (ConexionMemoria, Consolas)
```

An `MC*` module gives each one its constants for TLC. A step is what one thread
does from one blocking call (`sem_wait`, or a receive) to the next; list
operations and what lies between are atomic in it. Where the hazard is finer than
that the module says so: the unlocked read of a compaction's wait, the calls of a
receive, the stores of a truncation.

* **Kernel** - `planificacion.c`, `estados.c`, `fifo.c`, `hrrn.c`, `recursos.c`,
  and the part of `hilo_general.c`, `hilo_consola.c` they interact with.
  `pc_largo`, `pc_corto` and `pc_general` say where each thread is blocked;
  semaphores are counts; `en_cpu` is the context the CPU has. `terminar_consola`
  and `FinDeTerminar` are apart because the kernel waits for memory in between.
  The ratio of HRRN depends on measured time: any ready process may be chosen,
  and as in `hrrn.c:41` the chosen one stays in the list.
* **CicloDeVida** - what the kernel promises: admission in order of arrival and
  up to the degree, one running process, FIFO among the ready. No semaphore, no
  thread. `Kernel!ImplementaCiclo` is the refinement, progress included.
* **Archivos** - the file instructions, the thread of the answers and the
  filesystem's queue. Sending a request (`PedirOperacion`) and queueing the
  process (`BloquearEnArchivo`) are two steps, because the answer may come
  between them. `pc_fs = "caido"` is the use of the NULL that `list_remove`
  returns for an empty queue; nothing happens after it.
* **Compactacion** - Archivos with `esperandoParaCompactar` and the second half of
  `case FS_OK`. The unlocked `if(instruccion_en_fs > 0)`, the critical section
  with its `sem_init`, the `sem_wait` and the clearing of the flag are steps of
  their own, and so are the flag test and the post of the thread of the answers.
  `ValorInicial` is `sem_init` of a negative number: above `SEM_VALUE_MAX`, it
  fails and leaves the semaphore as it was. Memory's answers are external: after the
  compaction the segment is created or, once a process has ended, refused.
* **ConexionMemoria** - every exchange of the kernel with memory over their one
  socket, call by call: `a_memoria` and `de_memoria` are what is in flight, `leido`
  how much of the first answer was read, `pc` and `pide` where each thread is. A
  thread that takes the middle of an answer for a header has read rubbish. The
  connection and its handshake are steps, because the consoles are already being
  accepted meanwhile. `perdidos`, `temprano` and `solapado` are history.
* **Guion** - how `consola.c` packs each line of a script and how
  `hilo_consola.c` unpacks it, as sequences of typed fields; a text carries the
  length it is sent with.
* **Consolas** - the consoles, the thread of the kernel that accepts them one at
  a time, and under it ConexionMemoria, whose `crear_pcb` threads start only when
  a script has been read. A console that cannot open its script exits.
* **Memoria** - `funciones.c`, `algoritmos.c`, `comunicacion_K.c`. An entry of
  `listaHuecos` carries the object it points to, since `eliminarProceso` adds one
  object several times; `Basura` is what freed memory may hold; unsigned sizes
  are taken modulo `Modulo`. `list_sort` may leave equal keys in any order.
* **Contexto** - contexts between PCB and CPU, the instructions of the CPU with
  `usarMMU`, and the segment instructions of `hilo_general` with the three list
  copies of a compaction as three steps. Any ready process may run: the order is
  the matter of Kernel. `historia` records what each process did, wrote and asked
  for, and `omitidos` the processes whose table the last compactions left as it was;
  no guard reads them.
* **Bloques** - `asignar_bloques` and `liberar_bloques`, with bitmap, FCBs and
  blocks of pointers. Sizes are in pointers. `caido` is the access to block -1.
* **BloquesCaida** - the same functions a store at a time. Bitmap and blocks are
  mapped files: a store is on disk at once. The FCB changes in memory and is
  written by `actualizar_FCB`. The process may die between any two stores, and the
  code itself makes it die when it runs out of blocks; it starts again over the
  same files. `rotos` marks the files that died between the two saves of a growth.
  `ImplementaBloques`: until a death, a request is one step of Bloques.
* **AccesoBloques** - `escribir_bloques` and `leer_bloques`: how a run of bytes is
  cut into accesses. The contents of a cell are the place its bytes belong to.

Beside some definitions there is a faulty variant of it, named after it with the
fault as a suffix (`FinDeTerminar_DobleGrado` of `FinDeTerminar`, `comprobar_Estricto`
of `comprobar_Creacion_de_Seg`). No specification uses them: each is there to
show that a property fails once the code has that fault (`mutants` in
`PROJECT.json`).

## Runs

`PROJECT.json` lists them. All are exhaustive. `CHECK_DEADLOCK FALSE` where the
system really stops: all scripts ended, or processes wait for each other's
resources, which the code allows. Symmetry over processes is used only in runs
without liveness.

| run | instance | what it shows |
|---|---|---|
| `kernel_fifo` | 4 processes, degree 3, 1 resource, FIFO, fairness | Safety of the life cycle (`GradoRespetado`, `UnSoloEstado`, `FinDefinitivo`), waiters in order (`EsperaEnOrden`), the refinement of `CicloDeVida` with its progress, and a ready process runs even if others are deadlocked on the resource (`ListoEjecuta`). |
| `kernel_hrrn` | 3 processes, degree 2, 1 resource with up to 2 instances, HRRN | The permits of the planners (`ListasConPermiso`) and the instances of the resource (`RecursosConservados`) survive HRRN. |
| `archivos_apertura` | 3 processes, 1 file opened and closed, fairness | The file is used by one at a time and everybody who waits for it gets it. |
| `archivos_compactacion` | 3 processes, 2 share a file and 1 creates segments, operations that may fail, fairness | Whatever the scripts do: no process is in two places, the count of operations never falls short, there is a permit for each queued process, the CPU stays exclusive; a compaction waits for the one operation under way and does not wait for ever. |
| `compactacion_solapada` | 3 processes, 2 files | *violation*: with two operations under way memory is compacted while the filesystem uses it. |
| `archivos_despierta` | 2 processes, 1 shared file | *violation*: `FS_OK` wakes the first in the queue, not who asked. |
| `memoria_segmentos` | 2 processes, 6 bytes, sizes 1 to 3, best fit | Nothing overlaps, nothing is lost while no process ended, a compaction is always enough. |
| `bloques_archivos` | 2 files, 6 blocks of 3 pointers, accesses of 2, 4 and 6 bytes at 2 and 5 | `SinCompartir`, `BitmapExacto`, `TruncarConserva`, and `LeeLoEscrito` for accesses of one, two and three blocks, until the disk is full and past it. |
| `bloques_caida` | 2 files, 6 blocks of 2 pointers, 2 deaths | Whenever the process dies no block on disk is shared, given away or moved; without deaths, `Bloques`. |
| `contexto` | 2 processes, the ten instructions of the module, scripts of 4, 4 bytes | Tables and their counts are exact through creation, deletion, compaction and ends, also of a process that is blocked, asleep or in the queue of a resource, if the copy of the lists found it; program counter and registers survive every way out of the CPU. |
| `contexto_mmu` | 2 processes, segment 0 of 2 bytes, segments of 1 | *violation*: what is written in segment 1 lands in segment 0 and the other way round. |
| `consolas` | 2 consoles, 3 segment instructions, fairness | From the start of the kernel on: answers go to who asked while exchanges do not overlap, memory owes one answer per request even when they do, each process has its console's script, each console its end, unless a console brings the kernel down. |

### Bounds

* `kernel_*`: with four processes and degree three one process waits to be
  admitted, one runs and two are ready, asleep or waiting, so that a queue of a
  resource has two waiters and someone to wake them. `MaxInstancias` (2) bounds
  the free and held instances of a resource, because `SIGNAL` may create them;
  `MaxReady` bounds the entries HRRN leaves in `LISTA_READY`.
* `archivos_*`, `compactacion_*`: two processes are enough for one to be woken by
  the answer to the other; the opening run has three so that a queue has an order,
  and those with compactions a third that creates the segments. `MaxPermisos` and
  `MaxOperaciones` (3) bound the semaphore and the count that only grow,
  `MaxEspera` (2) the posts left over in `espera_instrucciones`.
* `consolas`, `conexion_*`: two threads are enough for one to read the other's
  answer. A creation that compacts is three
  exchanges, and `MaxSegmentos` (3) allows one after another with a deletion. One
  console of `consolas` sends every kind of line and one after its `EXIT`; the
  other sends a short script, one without `EXIT`, or has none.
* `bloques_caida`: with six blocks the second file runs out in the middle of a
  growth, which is the code's own death; `MaxCaidas` (2) lets a death come on top
  of what another left. `MaxPedidos` (7) bounds the requests.
* `memoria_*`: six bytes and segments of one to three give holes on
  both sides of a segment, joined in one or two directions, and requests that fit
  nowhere, only after a compaction, or not at all. `MaxSegmentos` bounds the
  segments of a process, `MaxInstrucciones` the script. `Modulo` is above every
  sum that does not wrap, so a wrap shows as a huge number, as with 32 bits.
  `memoria_segmentos` keeps to two segments per process (beside segment 0): with
  three, `eliminarProceso` breaks `SegmentosDisjuntos` (`memoria_alias`).
* `contexto`: four bytes, one of them segment 0, and segments of one or two are the
  least in which a deletion leaves a hole that only a compaction makes useful. With
  four instructions a process creates, leaves the CPU, and the compaction of the other
  finds it ready or asleep, or misses it in the queue of a resource. `contexto_mmu` needs a segment 0 of two
  bytes: with one, segment 1 of the first process begins where the MMU says.
* `bloques_archivos`: three pointers (or bytes) per block and files of none, one,
  three and four blocks, so direct pointer, first and last entry of the block of
  pointers all come and go; one size exceeds the maximum. Accesses start in the last
  byte of a block and go on into the next, cover a whole block and a remainder, and
  take the `sobrante` of `bloques.c:69` below, at and above a block, where it is
  wrong. The two files together could fill
  eight blocks: with six a growth gets -1 for a block, which the file then holds as
  if it were one (`bloques_lleno`) until using or freeing it is an access outside the files
  (`caido`), where that behaviour ends.

The properties that pass only on part of the behaviours (no shared file with
operations, processes a compaction found, two segments, the bytes an access
reaches, exchanges that do not overlap, no death between two saves) are those for which the table below
shows what happens on the rest.

## Counterexamples kept beside the runs

These configurations state what a comment of the code says and TLC refutes them.
They were met while translating the code and are kept to be reproduced by hand
(`tlc -config X.cfg M`); the three violations above are listed as findings.

| configuration | module | property | what TLC shows |
|---|---|---|---|
| `kernel_espera` | MCKernel | `NadieEsperaLoLibre` | `terminar_consola` returns the instances of a process and wakes nobody that waits for them. |
| `archivos_cola_vacia` | MCArchivos | `SacaUnaBloqueada` | A permit left in `archivo_PCB_bloqueada` by an `F_CLOSE` hand-over lets `hilo_general.c:506` remove from an empty queue. |
| `compactacion_error` | MCCompactacion | `EsperaTerminaSiempre` | `FS_ERROR` has no case in `esperar_respuestas` (`hilo_general.c:480`): the operation is never counted off and its process stays blocked, and a later compaction waits for it for ever. |
| `conexion_mezclada` | MCConexionMemoria | `TresRespuestas` | `hilo_general` reads as the answer to its creation what memory sent to a `crear_pcb` thread. |
| `conexion_arranque` | MCConexionMemoria | `ArranqueEnOrden` | A console that comes before the kernel is connected: its segment is asked on descriptor 0 or before the handshake. |
| `consolas_sin_guion` | MCConsolas | `SoloAbortaLaConsola` | A console without its script exits, and `buffer_unpack` of the empty message ends the kernel. |
| `memoria_borrado` | MCMemoria | `FinalizarBorra` | `eliminarProceso` shortens the list it counts: half of the segments are not freed. |
| `memoria_alias` | MCMemoria | `SegmentosDisjuntos` | One hole object added twice makes two live segments overlap. |
| `memoria_compacta` | MCMemoria | `CompactaSoloSiHaceFalta` | `buddySystem` skips a pair after joining one: a compaction with contiguous room. |
| `memoria_desborde` | MCMemoria | `EnMemoria` | Segments of ended processes are compacted too; `tam_memoria - desplazamiento` wraps. |
| `bloques_lleno` | MCAccesoBloques | `TamanioRespaldado` | `get_free_block` returns -1 and it is stored as a block. |
| `bloques_a_medias` | MCBloquesCaida | `RestoSinCompartir` | The FCB is saved with its new size before its pointers (`bloques.c:282` and `:308`): a death in between leaves a file over blocks of another. |
| `acceso_largo` | MCAccesoBloques | `EscribeLoPedido` | `bloques.c:69` subtracts blocks from bytes: a write with a whole block in it writes too much. |
| `contexto_carrera` | MCContexto | `TablasDeTodos` | A process that wakes while the lists are copied is missed by the compaction. |
| `contexto_espera` | MCContexto | `TablasDeTodos` | A compaction does not reach the processes that wait for a resource. |
| `contexto_io` | MCContexto | `DuermeLoPedido` | `sleep_IO` reads the time of a later instruction through the shared `motivoDevolucion`. |

Of the type invariants, `TypeOKS` of Consolas is checked in `consolas_sin_guion`,
with `TypeOK` of ConexionMemoria in it, as far as the counterexample.
`TypeOKB` is part of `TypeOKC` of BloquesCaida. `TypeOK` and `CPUExclusiva` of
Kernel, `TypeOKA` of Archivos and `TypeOK` of ConexionMemoria are proved.

## Fairness

Threads are preemptively scheduled and `sleep` returns. So weak fairness is
assumed of each planner step, the dispatch, the sending of a context, the answer
of memory and the sleeps (Kernel); of the filesystem and the thread of its
answers (Archivos, Compactacion); of `hilo_general` while it waits for a
compaction (Compactacion); of memory and of each thread with an exchange under way
(ConexionMemoria); of the thread that accepts and of each console once it was
started (Consolas). The end of a process and the closing of its files are strongly
fair: the instruction set has no jump and a script is finite and ends in `EXIT`,
so a process that gets the CPU again and again reaches its end. No fairness is
assumed of arrivals, of `SIGNAL`, of segment instructions or of any other.

## Proofs

A run is one small instance; a theorem is for every value of the constants, from
the assumptions the modules name.

### The kernel

Of `Kernel`, for any finite set of processes and of resources, any instances, any
degree and any value of the bounds (`KernelAssumption`):

| theorem | module | for | states |
|---|---|---|---|
| `Tipos` | KernelProofs | FIFO and HRRN | `Spec => []TypeOK` |
| `ExclusionDeCPU` | KernelProofs | FIFO and HRRN | `Spec => []CPUExclusiva` |
| `PermisosCorrectos` | KernelProofs | FIFO and HRRN | `Spec => []ListasConPermiso` |
| `CadaUnoEnSuLista` | KernelProofs | FIFO | `Spec => []UnSoloEstado` |
| `GradoConservado` | KernelProofs | FIFO | `Spec => []GradoRespetado` |
| `ImplementaElCiclo` | CicloProofs | FIFO | `Spec => Ciclo!Promesa` |
| `ServidosEnOrden` | CicloProofs | FIFO | `Spec => EsperaEnOrden` |
| `ElFinEsDefinitivo` | CicloProofs | FIFO | `Spec => FinDefinitivo` |
| `InstanciasConservadas` | CicloProofs | FIFO and HRRN | `Spec => RecursosConservados` |

The hypothesis `Algoritmo = "FIFO"` is needed: under HRRN the chosen process stays
in `LISTA_READY` (`hrrn.c:41` reads it and removes nothing), so a process is in two
lists from its first dispatch.

* `IInv` (KernelProofs) joins the types of the kernel's own variables,
  `CPUExclusiva`, `ListasConPermiso` and `ConProceso`: none of them is inductive
  alone. That a handler finds its process in `LISTA_EXEC` (so that `Head` and `Tail`
  keep types) is `CPUExclusiva`; that a planner's `list_remove` finds something
  (again types) is `ListasConPermiso`; and both count with naturals. The core of
  `CPUExclusiva` is the token `TestigoCPU`: the permit of `CPUVacia`, the entry of
  `LISTA_EXEC` and the process being finished always add up to one.
* `IEstados == IInv /\ UnSoloEstado /\ ColasSinRepetir`: `UnSoloEstado` counts the
  queues of resources a process is in, not how many times, so that nobody is twice
  in one queue has to be known as well. The lemmas `Veces*` say how `list_add` and
  `list_remove` change the occurrences of an element, and `EncolarEspera` and
  `DesencolarEspera` what that makes of the queues; `SoloEnExec` is where the
  processes of the handlers are, and are not.
* `IGrado` counts `Vivos`, who left `LISTA_NEW` and have not ended: one step moves
  one process in or out of it. `AdmitidosSonVivos`, which needs `UnSoloEstado`, makes
  of it the admitted ones of `GradoRespetado`.
* `ImplementaElCiclo` maps each step: an action of the planners or of a handler that
  moves a process is the action of the life cycle of that name, and the others (the
  waits, the context sent, a `WAIT` with instances, the answer of memory) are
  stutters. Admission within the degree needs `IGrado`, dispatch to a free CPU
  `IInv`, a wake-up that takes the process out of the blocked `IEstados`. The
  progress of `ImplementaCiclo` is left to the run.
* `IFin` adds to `IEstados` that a finished process holds nothing: only the process
  that runs, or one that waits, has its table changed.
* `InstanciasConservadas` counts what the processes hold as the cardinality of a set
  of pairs, one for each instance held: `TomarUna`, `SoltarUna` and `SoltarTodas` say
  what `asignarRecurso`, `devolverRecurso` and `devolverRecursosPCB` do to it. Its
  invariant bounds each entry of the tables, so that the pairs are all there.

### Files and compactions

Of `Archivos` (`SpecA`) and of its composition with compactions (`SpecP`), for any
processes, files and scripts, whatever fails and whether or not the processes close
their files (`ArchivosAssumption`, `CompactacionAssumption`), in ArchivosProofs:

| theorem | for | states |
|---|---|---|
| `TiposDeArchivos` | FIFO and HRRN | `[]TypeOKA` |
| `CPUEnArchivos` | FIFO and HRRN | `[]CPUExclusiva` |
| `CuentaDeOperaciones` | FIFO and HRRN | `[]OperacionesContadas` |
| `PermisosSobran` | FIFO and HRRN | `[]PermisosDeArchivo` |
| `CadaUnoEnSuListaConArchivos` | FIFO | `[]UnSoloEstadoA` |
| `CompactaConElFSQuieto` | FIFO and HRRN, `SpecP` | `[]EsperaLaOperacion` |
| `ArchivoDeUno` | FIFO, nobody blocks on an operation | `[]ArchivoExclusivo` |

* `IArchivos` adds to `IInv` the types of the channels, `OperacionesContadas` and
  `Apertura`: there is an opening request or answer in a channel exactly while
  `hilo_general` waits for one, which is why it never reads the answer to an operation.
  `Cuantos` counts the messages of a kind in a channel.
* `PermisosDeArchivo` is inductive over `IArchivos`. Every step of the kernel, of
  the filesystem and of the thread of the answers is seen as one move of one process
  (`Movimiento`), which is what the queues, the permits and the lists have to be kept
  through.
* `ISolo` is `UnSoloEstadoA`, which counts the queues of the files and the process
  the thread of the answers has in hand, with `ColasSinRepetir` of the file queues.
* `IEspera` says, for each place where `hilo_general` and the thread of the answers
  may be, what the semaphore and the count hold: it is what tells a post left over by
  an earlier compaction from the one that is waited for.
* `ArchivoDeUno` has the hypothesis `OperacionesES = {}`: with operations, an answer
  wakes the first of the queue whatever it waits for (`archivos_despierta`), and the
  file then has two users.

### Contexts

Of `Contexto`, for any processes, scripts and sizes (`MemoriaAssumption`,
`ContextoAssumption`), in ContextoProofs:

* `ElContextoSeConserva`: `SpecC => []ContextoConservado`. A context has a copy in
  the PCB, one in the CPU and one in the message between them; `EnUnLugar` is which
  of them counts at each place of `hilo_general`, and `AlDia` that this one has what
  the history of the process says.
* `LaTablaVaEntera`: `SpecC => []TablaEntera`. A compaction rewrites the tables and
  not their counts, so the count is right only if the new table has as many entries
  as the old one. `ITablas` says so for both copies of a context: as many entries as
  numbers the process uses in the list of memory, and one more. It needs that a
  number is used once (`IdsDe`, of the invariant of Memoria, which holds here because
  `PasoDeMemoria` shows each step to be one of Memoria's or to leave it as it was) and
  that one process at a time executes and asks for segments (`UnoEnExec`).
* `LasTablasEstanAlDia`: `MaxSegmentos <= 2 \/ BasuraAlta` gives
  `SpecC => []TablasAlDia`, whatever the scripts do. `IAlDia` says of every admitted
  process that its table is that of memory (`Iguales`), that the compaction under way
  still has to rewrite it (`Falta`), or that it is among the `omitidos`: a process that
  was not in `LISTA_READY` when that was copied and in neither of the other two lists
  when they were, asleep between two lists or in the queue of a resource or file. For
  those the claim is false (`contexto_carrera`, `contexto_espera`).
  The hypothesis is for `IRaiz`: every table ends in the *first* entry of the
  list memory sends after sorting it, and that entry is `segmento_0` as long as no
  other segment has base 0. None has when segments do not overlap, or when freed
  memory that is read as a hole does not describe one at base 0; the run has
  `BasuraAlta`.

### The exchanges with memory

Of `ConexionMemoria`, for any finite set of consoles, any number of segment
instructions, and whether or not the consoles wait for the kernel
(`ConexionMemoriaAssumption`), in ConexionProofs:

* `CadaUnoLaSuya`: `Spec => []SinSolaparCadaUnoLaSuya`. Its invariant `IInv` says
  that, until exchanges overlap, at most one thread has one (`UnoPorVez`) and that
  what is in the socket, the header read and the state of memory are those of one
  of the stages of that exchange (`Orden`, `Etapas`).
* `UnaRespuesta`: `Spec => []UnaRespuestaPorPedido`, and `TiposDeConexion`: its
  types. Here exchanges may overlap; `Contado` counts the threads that wait for a
  header against the requests and the answers, and needs that someone is there to
  read the rest of an answer whose header was read (`Lector`) and that nothing
  arrives before there is a socket (`SinSocket`).

Of `Consolas`, for the same constants and any scripts (`ConsolasAssumption`), in the
same module: `CadaUnoLaSuyaConConsolas` and `UnaRespuestaConConsolas`, because each of
its steps is one of the exchanges or leaves them as they were, and

* `FinDeConsolas`: `SpecS => []FinDeCadaUna`. `Procesos` and `Charla` relate where a
  console is, the connection it has, what the kernel has read of it and the thread that
  attends it.
* `GuionDeCadaConsola`: `GuionesSeEntienden` gives `SpecS => []GuionEntero`. What is
  proved is that the script a process runs is what the codec makes of the one *its*
  console has (`GuionPropio`), in whatever order consoles connect, are accepted and are
  read. That the codec gives back what it was given is the hypothesis, because it folds
  lines of any kind and length into one buffer and back; TLC evaluates it for the scripts
  of the run (`GuionesSeEntiendenMC`, an assumption of MCConsolas).

### Blocks

Of `Bloques` and `AccesoBloques` (BloquesProofs) and of `BloquesCaida` (CaidaProofs),
for any finite set of files, any size of block and number of blocks, any sizes asked
for, and any number of requests and deaths (`BloquesAssumption`, `CaidaAssumption`):

| theorem | module | states |
|---|---|---|
| `NadieComparte` | BloquesProofs | `[]SinCompartir`, a request at a time, with reads and writes or without |
| `ElBitmapEsExacto` | BloquesProofs | `[]BitmapExacto` |
| `NadaSeMueve` | BloquesProofs | `TruncarConserva` |
| `LoEscritoSeLee` | BloquesProofs | `SpecAB => []LeeLoEscrito` |
| `TiposDeCaida` | CaidaProofs | `SpecC => []TypeOKC` |
| `LasCaidasNoMezclan` | CaidaProofs | `SpecC => []SinCompartirEnDisco` |
| `LasCaidasNoRegalan` | CaidaProofs | `SpecC => []UsadosMarcados` |
| `LasCaidasNoMueven` | CaidaProofs | `SpecC => ConservaEnDisco` |
| `LosPasosSumanLaPeticion` | CaidaProofs | `SpecC => ImplementaBloques`, if `MaxCaidas # 0` |

* `IBloques`: `SinCompartir` and `BitmapExacto` lean on each other, since a block that
  is handed out is nobody's because its bit was clear, and a bit that is cleared is
  nobody else's because no block is shared. To them come the arithmetic of the sizes
  (`Acotados`: no more blocks than the block of pointers has room for) and
  `ConIndirecto`. `Turno` numbers the places a growth fills in the order of the calls of
  `get_free_block`; `Turnos` proves that to be one to one.
* `ILeido`: every byte that was written and not cut off since is below the size of its
  file, has a block, and that block holds it in its cell. A write keeps it because no
  block is shared (`SinCompartir`), a truncation because none moves (`Conserva`).
  `PartesDeAccesos` says that the accesses of a run of bytes are one after another,
  each inside one block but the last, whose length is the `sobrante` that
  `bloques.c:69` gets wrong: it may be larger than a block or reach past what was
  asked. `Llegan` is how many bytes are copied all the same, and what such a write
  stores past its own end no longer counts as written; `ContadosDe` and
  `EscribirBloquesEs` are the loops over the accesses. No length is left out.
* `ICaida`: while a truncation is under way the FCB on disk does not say what the file
  holds. `EnJuego` is the set of places the request has filled, or has not emptied
  yet, and `Toma` the block in each, wherever that is kept at the moment (the FCB in
  memory, the list of new pointers, the block of pointers). `Separados` and `Marcados`
  are the two invariants over them, `CuentaCrece` and `CuentaAchica` how far the locals
  of the request have come, and `EnDisco` which part of it the disk has: that of before,
  or the FCB the request holds. A death forgets the request, so what the disk has must
  be enough by itself, and that is `EnElDisco`. There is one lemma per store
  (`AsignarDirectoBien`, ...). Nothing is said after a death between the two saves
  (`rotos`), where blocks are in fact shared (`bloques_a_medias`).
* `LosPasosSumanLaPeticion` is the refinement. Its mapping shows the files of before
  the request until its last store; `IVista` says what the stores have done so far in
  the terms of the one step of Bloques: the blocks a growth has taken are the first of
  those `asignar_bloques` takes, in that order, and the bitmap is that of before with
  them; what a reduction still has to clear and what it has cleared make up the file
  of before. The bound `MaxCaidas` must let at least one death happen: the code's own
  death (no block left) is counted only while the bound allows, and with a bound of
  zero it would leave the refinement without being taken for a death. The run has two.

### Memory

Of `Memoria`, for any processes, sizes, memory and any of the three algorithms
(`MemoriaAssumption`), in MemoriaProofs:

| theorem | for | states |
|---|---|---|
| `TiposDeMemoria` | any number of segments | `[]TypeOKM` |
| `SegmentosSinSolaparse` | `MaxSegmentos <= 2` | `[]SegmentosDisjuntos` |
| `HuecosSinSolaparse` | `MaxSegmentos <= 2` | `[]HuecosLibres` |
| `SinSolaparseMientrasViven` | any number of segments | both, until a process ends |
| `NingunByteSePierde` | any number of segments | `[]BytesConservados` |
| `LaCompactacionAlcanza` | any number of segments | `CompactarAlcanza` |

* `IMemoria` joins the types (`TipoDe`), that a process uses a number once (`IdsDe`),
  what is known of the segment that waits for a compaction (`PedidoDe`, `AlcanzaDe`:
  after it the one hole is large enough), that segments in use and holes are apart
  (`ApartadosDe`), and that until a process ends they cover the memory. They lean on
  each other: a request that fits in the sum of the holes fits in the hole a
  compaction leaves only if nothing overlaps and nothing is lost.
* `ApartadosDe` is kept for `MaxSegmentos <= 2`, or until a process ends (`Sana`). With
  three, `eliminarProceso` makes two holes of one object, `buddySystem` changes both at
  once, and two live segments come to overlap (`memoria_alias`): the theorem would be
  false. With two it adds one hole, and what it does not free is lost and not shared.
* The loops of the code over a list (`buddySystem`, `compactar`, `buscarSegmentoPorPID`)
  are recursive functions, one value per turn, so that a loop invariant is a set of
  naturals with 0 and with the successor of each of its members. `Induccion`, from the
  well-foundedness of the naturals, says that such a set is `Nat`, and `Vueltas` that a
  function defined turn by turn has the values its definition says. `PasadaEs`,
  `HalladosEs` and the lemmas of `Rebasados` are the loops.

### Only model-checked

* Liveness and `ENABLED`: `ListoEjecuta`, `BloqueadoVuelve`, `EsperaTermina`,
  `GeneralVuelve`, `TodasTerminan`, and the progress of `ImplementaCiclo`.
* That the codec of the scripts is lossless (`GuionesSeEntienden`), and with it
  `TypeOKS` of Consolas, which says that what was unpacked is a script.
* `TypeOKC` of Contexto: the number that `usarMMU` adds instead of a base may take an
  access past the memory, where any value may be.

## What is not modelled

* Two threads inside one list operation (`fifo.c:13` takes no mutex): the list is
  of the commons library, and what is left behind is undefined.
* `F_SEEK` and the position of an open file; the transfers between filesystem
  and memory (`comunicacion_FS.c`), which only copy bytes.
* A message that arrives in pieces (`stream.c` does not ask for the whole); a peer
  that goes away in the middle of an exchange, except a console before its script.
* `F_CREATE` and the save of an FCB, each one step in BloquesCaida although
  `config_save` empties the file first; the shutdown of the filesystem.
* Scripts that name a segment, a file or a register they do not have: the code
  reads NULL or an uninitialised variable there.
* Names longer than the pointer they are copied over (`cpu/src/hilo_kernel.c:35`).
* The packing of contexts between kernel and CPU, the handshakes of the CPU and the
  filesystem, parsing, byte layout, configuration files, logging.

## Plan

1. Done: the modules above, their runs, and proofs of every invariant the passing runs
   check but the types of Contexto. Of Guion, that the codec is lossless stays with TLC.
2. `F_SEEK` with the shared position, once it is settled whose the position is.
3. `ListaReady`: the steps inside `list_add` and `list_remove` of `LISTA_READY`, if
   the list of the commons library is added to the repository.

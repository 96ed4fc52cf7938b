------------------------------- MODULE Kernel -------------------------------
(***************************************************************************)
(* The process life cycle in kernel/src: the long-term planner thread      *)
(* (planiLargoPlazo), the short-term planner thread (planiCortoPlazo), the *)
(* thread that talks to the CPU (hilo_general), one crear_pcb thread per   *)
(* console and one sleep_IO thread per I/O in progress, synchronised by    *)
(* POSIX semaphores and the lists of kernel/src/variables.c.               *)
(*                                                                         *)
(* A step is one thread's code from one blocking call (sem_wait or a       *)
(* receive on a socket) to the next.  The file instructions and the        *)
(* segment instructions of hilo_general are in modules of their own.       *)
(***************************************************************************)
EXTENDS Integers, Sequences, FiniteSets

CONSTANTS
  Procesos,       \* the processes, one per console that connects
  Recursos,       \* RECURSOS of kernel.cfg
  Instancias,     \* INSTANCIAS_RECURSOS of kernel.cfg, per resource
  Grado,          \* GRADO_MAX_MULTIPROGRAMACION of kernel.cfg
  Algoritmo,      \* ALGORITMO_PLANIFICACION: "FIFO" or "HRRN"
  Nadie,          \* the CPU holds no context
  MaxInstancias,  \* bound: instances of a resource, free and held
  MaxReady        \* bound: entries HRRN may leave behind in LISTA_READY

ASSUME KernelAssumption ==
  /\ IsFiniteSet(Procesos)
  /\ IsFiniteSet(Recursos)
  /\ Instancias \in [Recursos -> Nat]
  /\ Grado \in Nat \ {0}
  /\ Algoritmo \in {"FIFO", "HRRN"}
  /\ Nadie \notin Procesos
  /\ MaxInstancias \in Nat
  /\ \A r \in Recursos : Instancias[r] <= MaxInstancias
  /\ MaxReady \in Nat

VARIABLES
  LISTA_NEW,          \* queue of the processes not yet admitted
  LISTA_READY,        \* queue of the ready processes
  LISTA_EXEC,         \* list with the running process
  LISTA_BLOCKED,      \* processes sleeping in an IO: entries per process
  LISTA_EXIT,         \* the finished processes
  CantPCBNew,         \* semaphores, with the names of variables.c
  multiprogramacion,
  cantPCBReady,
  CPUVacia,
  pasar_pcb_a_CPU,
  instancias_recursos, \* free instances of each resource
  lista_block,         \* queue of the processes waiting for each resource
  tablaDeRecursos,     \* instances each process holds, per resource
  consola,             \* what each console has been told
  pc_largo,            \* where planiLargoPlazo is blocked
  pc_corto,            \* where planiCortoPlazo is blocked
  pc_general,          \* where hilo_general is blocked
  en_cpu               \* the process whose context the CPU holds

listas == <<LISTA_NEW, LISTA_READY, LISTA_EXEC, LISTA_BLOCKED, LISTA_EXIT>>
semaforos == <<CantPCBNew, multiprogramacion, cantPCBReady, CPUVacia,
               pasar_pcb_a_CPU>>
recursos == <<instancias_recursos, lista_block, tablaDeRecursos>>
hilos == <<pc_largo, pc_corto, pc_general>>
vars == <<listas, semaforos, recursos, consola, hilos, en_cpu>>

\* Why a process ends, as terminar_consola tells its console.
Razones == {"SUCCESS", "SEG_FAULT", "INVALID_RESOURCE", "OUT_OF_MEMORY"}

Aparece(p, lista) == \E i \in DOMAIN lista : lista[i] = p

Init ==
  /\ LISTA_NEW = <<>>
  /\ LISTA_READY = <<>>
  /\ LISTA_EXEC = <<>>
  /\ LISTA_BLOCKED = [p \in Procesos |-> 0]
  /\ LISTA_EXIT = {}
  /\ CantPCBNew = 0
  /\ multiprogramacion = Grado
  /\ cantPCBReady = 0
  /\ CPUVacia = 1
  /\ pasar_pcb_a_CPU = 0
  /\ instancias_recursos = Instancias
  /\ lista_block = [r \in Recursos |-> <<>>]
  /\ tablaDeRecursos = [p \in Procesos |-> [r \in Recursos |-> 0]]
  /\ consola = [p \in Procesos |-> "sin_conexion"]
  /\ pc_largo = "espera_new"
  /\ pc_corto = "espera_ready"
  /\ pc_general = "espera_pcb"
  /\ en_cpu = Nadie

-----------------------------------------------------------------------------
(* Helpers of estados.c and hilo_general.c.                                *)

\* pasar_a_ready without its sem_post.
pasar_a_ready_SinPost(p) ==
  /\ LISTA_READY' = Append(LISTA_READY, p)
  /\ UNCHANGED cantPCBReady

\* pasar_a_ready with the sem_post made twice.
pasar_a_ready_DoblePost(p) ==
  /\ LISTA_READY' = Append(LISTA_READY, p)
  /\ cantPCBReady' = cantPCBReady + 2

pasar_a_ready(p) ==
  /\ LISTA_READY' = Append(LISTA_READY, p)
  /\ cantPCBReady' = cantPCBReady + 1

pcb_ejecutando == Head(LISTA_EXEC)

pcb_ejecutando_remove == LISTA_EXEC' = Tail(LISTA_EXEC)

\* hilo_general goes back to wait for the next process: the context is not
\* sent again and the CPU is freed.
LiberarCPU ==
  /\ CPUVacia' = CPUVacia + 1
  /\ pc_general' = "espera_pcb"
  /\ en_cpu' = Nadie

\* The same context goes back to the CPU (devolver_ce_a_cpu).
devolver_ce_a_cpu ==
  /\ en_cpu' = pcb_ejecutando
  /\ UNCHANGED <<pc_general, CPUVacia>>

-----------------------------------------------------------------------------
(* hilo_consola.c: crear_pcb, once the instructions of a console are in.   *)

crear_pcb(p) ==
  /\ consola[p] = "sin_conexion"
  /\ consola' = [consola EXCEPT ![p] = "conectada"]
  /\ LISTA_NEW' = Append(LISTA_NEW, p)
  /\ CantPCBNew' = CantPCBNew + 1
  /\ UNCHANGED <<LISTA_READY, LISTA_EXEC, LISTA_BLOCKED, LISTA_EXIT,
                 multiprogramacion, cantPCBReady, CPUVacia, pasar_pcb_a_CPU,
                 recursos, hilos, en_cpu>>

-----------------------------------------------------------------------------
(* planificacion.c, fifo.c and hrrn.c: the two planners.                   *)

\* planiLargoPlazo: sem_wait(&CantPCBNew).
EsperarNew ==
  /\ pc_largo = "espera_new"
  /\ CantPCBNew > 0
  /\ CantPCBNew' = CantPCBNew - 1
  /\ pc_largo' = "espera_grado"
  /\ UNCHANGED <<listas, multiprogramacion, cantPCBReady, CPUVacia,
                 pasar_pcb_a_CPU, recursos, consola, pc_corto, pc_general,
                 en_cpu>>

\* agregar_pcb_a_ready without its sem_wait(&multiprogramacion).
agregar_pcb_a_ready_SinGrado ==
  /\ pc_largo = "espera_grado"
  /\ LISTA_NEW' = Tail(LISTA_NEW)
  /\ pasar_a_ready(Head(LISTA_NEW))
  /\ pc_largo' = "espera_new"
  /\ UNCHANGED <<LISTA_EXEC, LISTA_BLOCKED, LISTA_EXIT, CantPCBNew,
                 multiprogramacion, CPUVacia, pasar_pcb_a_CPU, recursos,
                 consola, pc_corto, pc_general, en_cpu>>

\* agregar_pcb_a_ready: wait for a free slot and admit the oldest process.
agregar_pcb_a_ready ==
  /\ pc_largo = "espera_grado"
  /\ multiprogramacion > 0
  /\ multiprogramacion' = multiprogramacion - 1
  /\ LISTA_NEW' = Tail(LISTA_NEW)
  /\ pasar_a_ready(Head(LISTA_NEW))
  /\ pc_largo' = "espera_new"
  /\ UNCHANGED <<LISTA_EXEC, LISTA_BLOCKED, LISTA_EXIT, CantPCBNew, CPUVacia,
                 pasar_pcb_a_CPU, recursos, consola, pc_corto, pc_general,
                 en_cpu>>

\* planiCortoPlazo: sem_wait(&cantPCBReady).
EsperarReady ==
  /\ pc_corto = "espera_ready"
  /\ cantPCBReady > 0
  /\ cantPCBReady' = cantPCBReady - 1
  /\ pc_corto' = "espera_cpu"
  /\ UNCHANGED <<listas, CantPCBNew, multiprogramacion, CPUVacia,
                 pasar_pcb_a_CPU, recursos, consola, pc_largo, pc_general,
                 en_cpu>>

\* algoritmo_fifo reading the first entry with list_get: it stays in the list.
algoritmo_fifo_SinSacar(p) ==
  /\ p = Head(LISTA_READY)
  /\ UNCHANGED LISTA_READY

\* algoritmo_fifo: take the first entry of LISTA_READY.
algoritmo_fifo(p) ==
  /\ p = Head(LISTA_READY)
  /\ LISTA_READY' = Tail(LISTA_READY)

\* algoritmo_hrrn: a lone entry is removed; among several, the one with the
\* highest response ratio is returned by list_get_maximum, which leaves it in
\* the list.  The ratios depend on clock readings, so any entry may have the
\* highest one.
algoritmo_hrrn(p) ==
  \/ /\ Len(LISTA_READY) = 1
     /\ p = Head(LISTA_READY)
     /\ LISTA_READY' = Tail(LISTA_READY)
  \/ /\ Len(LISTA_READY) \in 2 .. MaxReady
     /\ Aparece(p, LISTA_READY)
     /\ UNCHANGED LISTA_READY

\* planiCortoPlazo from sem_wait(&CPUVacia) on: implementar_fifo or
\* implementar_hrrn, with pasar_a_exec and sem_post(&pasar_pcb_a_CPU).
Despachar(p) ==
  /\ pc_corto = "espera_cpu"
  /\ CPUVacia > 0
  /\ CPUVacia' = CPUVacia - 1
  /\ LISTA_READY # <<>>
  /\ \/ Algoritmo = "FIFO" /\ algoritmo_fifo(p)
     \/ Algoritmo = "HRRN" /\ algoritmo_hrrn(p)
  /\ LISTA_EXEC' = Append(LISTA_EXEC, p)
  /\ pasar_pcb_a_CPU' = pasar_pcb_a_CPU + 1
  /\ pc_corto' = "espera_ready"
  /\ UNCHANGED <<LISTA_NEW, LISTA_BLOCKED, LISTA_EXIT, CantPCBNew,
                 multiprogramacion, cantPCBReady, recursos, consola, pc_largo,
                 pc_general, en_cpu>>

-----------------------------------------------------------------------------
(* hilo_general.c: the loop that hands contexts to the CPU.                *)

\* sem_wait(&pasar_pcb_a_CPU), then the context is sent.
EnviarContexto ==
  /\ pc_general = "espera_pcb"
  /\ pasar_pcb_a_CPU > 0
  /\ pasar_pcb_a_CPU' = pasar_pcb_a_CPU - 1
  /\ en_cpu' = pcb_ejecutando
  /\ pc_general' = "espera_cym"
  /\ UNCHANGED <<listas, CantPCBNew, multiprogramacion, cantPCBReady, CPUVacia,
                 recursos, consola, pc_largo, pc_corto>>

\* A handler runs for p when the CPU returns the context it was given.
Devuelve(p) ==
  /\ pc_general = "espera_cym"
  /\ en_cpu # Nadie
  /\ p = pcb_ejecutando

\* case IO: a sleep_IO thread starts for the process.
IO(p) ==
  /\ Devuelve(p)
  /\ pcb_ejecutando_remove
  /\ LISTA_BLOCKED' = [LISTA_BLOCKED EXCEPT ![p] = @ + 1]
  /\ LiberarCPU
  /\ UNCHANGED <<LISTA_NEW, LISTA_READY, LISTA_EXIT, CantPCBNew, cantPCBReady,
                 multiprogramacion, pasar_pcb_a_CPU, recursos, consola,
                 pc_largo, pc_corto>>

\* sleep_IO forgetting to take the process out of LISTA_BLOCKED.
sleep_IO_SinSacar(p) ==
  /\ LISTA_BLOCKED[p] > 0
  /\ pasar_a_ready(p)
  /\ UNCHANGED <<LISTA_NEW, LISTA_EXEC, LISTA_BLOCKED, LISTA_EXIT, CantPCBNew,
                 multiprogramacion, CPUVacia, pasar_pcb_a_CPU, recursos,
                 consola, hilos, en_cpu>>

\* A sleep_IO thread ends its sleep.
sleep_IO(p) ==
  /\ LISTA_BLOCKED[p] > 0
  /\ LISTA_BLOCKED' = [LISTA_BLOCKED EXCEPT ![p] = @ - 1]
  /\ pasar_a_ready(p)
  /\ UNCHANGED <<LISTA_NEW, LISTA_EXEC, LISTA_EXIT, CantPCBNew,
                 multiprogramacion, CPUVacia, pasar_pcb_a_CPU, recursos,
                 consola, hilos, en_cpu>>

\* case YIELD.
YIELD(p) ==
  /\ Devuelve(p)
  /\ pcb_ejecutando_remove
  /\ pasar_a_ready(p)
  /\ LiberarCPU
  /\ UNCHANGED <<LISTA_NEW, LISTA_BLOCKED, LISTA_EXIT, CantPCBNew,
                 multiprogramacion, pasar_pcb_a_CPU, recursos, consola,
                 pc_largo, pc_corto>>

-----------------------------------------------------------------------------
(* recursos.c: instances, holders and queues of the resources.             *)

\* asignarRecurso: one instance less, one entry more in the process's table.
asignarRecurso(r, p) ==
  /\ instancias_recursos' = [instancias_recursos EXCEPT ![r] = @ - 1]
  /\ tablaDeRecursos' = [tablaDeRecursos EXCEPT ![p][r] = @ + 1]

\* devolverRecurso: the instance count grows whether or not p holds one;
\* list_remove_element takes one entry out of p's table if there is one.
TablaAlDevolver(p, r) ==
  [tablaDeRecursos EXCEPT ![p][r] = IF @ > 0 THEN @ - 1 ELSE 0]

\* What a resource has, free or held.  Returning more than was taken (a SIGNAL
\* with no WAIT before, as the MEMORIA and FS scripts do) creates instances.
Existencias(r) ==
  instancias_recursos[r]
    + Cardinality({x \in Procesos \X (1 .. MaxInstancias) :
                     x[2] <= tablaDeRecursos[x[1]][r]})

\* Bound of the model: a SIGNAL with no WAIT before stops creating instances.
BajoLaCota(p, r) ==
  tablaDeRecursos[p][r] > 0 \/ Existencias(r) < MaxInstancias

\* case WAIT, with an instance available.
WaitConInstancias(p, r) ==
  /\ Devuelve(p)
  /\ instancias_recursos[r] > 0
  /\ asignarRecurso(r, p)
  /\ devolver_ce_a_cpu
  /\ UNCHANGED <<listas, CantPCBNew, multiprogramacion, cantPCBReady,
                 pasar_pcb_a_CPU, lista_block, consola, pc_largo, pc_corto>>

\* case WAIT, with no instance available: pasar_a_blocked_de_recurso.
WaitSinInstancias(p, r) ==
  /\ Devuelve(p)
  /\ instancias_recursos[r] <= 0
  /\ pcb_ejecutando_remove
  /\ lista_block' = [lista_block EXCEPT ![r] = Append(@, p)]
  /\ LiberarCPU
  /\ UNCHANGED <<LISTA_NEW, LISTA_READY, LISTA_BLOCKED, LISTA_EXIT,
                 CantPCBNew, multiprogramacion, cantPCBReady, pasar_pcb_a_CPU,
                 instancias_recursos, tablaDeRecursos, consola, pc_largo,
                 pc_corto>>

\* devolverRecurso and then actualizar_procesos_bloqueados with nobody waiting.
SignalSinEspera(p, r) ==
  /\ lista_block[r] = <<>>
  /\ instancias_recursos' = [instancias_recursos EXCEPT ![r] = @ + 1]
  /\ tablaDeRecursos' = TablaAlDevolver(p, r)
  /\ UNCHANGED <<LISTA_READY, cantPCBReady, lista_block>>

\* actualizar_procesos_bloqueados waking the last waiter instead of the first.
SignalConEspera_Ultimo(p, r) ==
  LET despertado == lista_block[r][Len(lista_block[r])] IN
  /\ lista_block[r] # <<>>
  /\ lista_block' = [lista_block EXCEPT ![r] = SubSeq(@, 1, Len(@) - 1)]
  /\ tablaDeRecursos' = [TablaAlDevolver(p, r) EXCEPT ![despertado][r] = @ + 1]
  /\ pasar_a_ready(despertado)
  /\ UNCHANGED instancias_recursos

\* The woken process runs asignarRecurso on the instance just returned: the
\* count goes up and down again.
SignalConEspera(p, r) ==
  LET despertado == Head(lista_block[r]) IN
  /\ lista_block[r] # <<>>
  /\ lista_block' = [lista_block EXCEPT ![r] = Tail(@)]
  /\ tablaDeRecursos' = [TablaAlDevolver(p, r) EXCEPT ![despertado][r] = @ + 1]
  /\ pasar_a_ready(despertado)
  /\ UNCHANGED instancias_recursos

\* case SIGNAL of an existing resource.
SIGNAL(p, r) ==
  /\ Devuelve(p)
  /\ BajoLaCota(p, r)
  /\ SignalSinEspera(p, r) \/ SignalConEspera(p, r)
  /\ devolver_ce_a_cpu
  /\ UNCHANGED <<LISTA_NEW, LISTA_EXEC, LISTA_BLOCKED, LISTA_EXIT, CantPCBNew,
                 multiprogramacion, pasar_pcb_a_CPU, consola, pc_largo,
                 pc_corto>>

\* devolverRecursosPCB returning at most one instance of each resource.
devolverRecursosPCB_Uno(p) ==
  /\ instancias_recursos' =
       [r \in Recursos |-> instancias_recursos[r]
                           + IF tablaDeRecursos[p][r] > 0 THEN 1 ELSE 0]
  /\ tablaDeRecursos' = [tablaDeRecursos EXCEPT ![p] = [r \in Recursos |-> 0]]
  /\ UNCHANGED lista_block

\* devolverRecursosPCB: everything p holds goes back; nobody is woken.
devolverRecursosPCB(p) ==
  /\ instancias_recursos' =
       [r \in Recursos |-> instancias_recursos[r] + tablaDeRecursos[p][r]]
  /\ tablaDeRecursos' = [tablaDeRecursos EXCEPT ![p] = [r \in Recursos |-> 0]]
  /\ UNCHANGED lista_block

-----------------------------------------------------------------------------
(* terminar_consola: the ways a process ends.                              *)

\* terminar_consola up to the receive of memory's answer: the process leaves
\* LISTA_EXEC, its resources go back and its console is told why.
terminar_consola(p, razon) ==
  /\ pcb_ejecutando_remove
  /\ LISTA_EXIT' = LISTA_EXIT \union {p}
  /\ devolverRecursosPCB(p)
  /\ consola' = [consola EXCEPT ![p] = razon]
  /\ pc_general' = "espera_memoria"
  /\ en_cpu' = Nadie
  /\ UNCHANGED <<LISTA_NEW, LISTA_READY, LISTA_BLOCKED, semaforos, pc_largo,
                 pc_corto>>

\* case EXIT.
EXIT(p) == Devuelve(p) /\ terminar_consola(p, "SUCCESS")

\* case SEG_FAULT.
SEG_FAULT(p) == Devuelve(p) /\ terminar_consola(p, "SEG_FAULT")

\* case WAIT and case SIGNAL of a resource that is not in RECURSOS.
RecursoInexistente(p) == Devuelve(p) /\ terminar_consola(p, "INVALID_RESOURCE")

\* The answer arriving with sem_post(&multiprogramacion) made twice, once in
\* terminar_consola and once more by its caller.
FinDeTerminar_DobleGrado ==
  /\ pc_general = "espera_memoria"
  /\ multiprogramacion' = multiprogramacion + 2
  /\ LiberarCPU
  /\ UNCHANGED <<listas, CantPCBNew, cantPCBReady, pasar_pcb_a_CPU, recursos,
                 consola, pc_largo, pc_corto>>

\* Memory answers (recibir_respuesta_finalizar_proceso): the slot is returned
\* and the caller of terminar_consola frees the CPU.
FinDeTerminar ==
  /\ pc_general = "espera_memoria"
  /\ multiprogramacion' = multiprogramacion + 1
  /\ LiberarCPU
  /\ UNCHANGED <<listas, CantPCBNew, cantPCBReady, pasar_pcb_a_CPU, recursos,
                 consola, pc_largo, pc_corto>>

-----------------------------------------------------------------------------
Planificadores ==
  \/ EsperarNew
  \/ agregar_pcb_a_ready
  \/ EsperarReady
  \/ \E p \in Procesos : Despachar(p)

\* What hilo_general does with a context the CPU returns.
Handler(p) ==
  \/ IO(p)
  \/ YIELD(p)
  \/ EXIT(p)
  \/ SEG_FAULT(p)
  \/ RecursoInexistente(p)
  \/ \E r \in Recursos :
       WaitConInstancias(p, r) \/ WaitSinInstancias(p, r) \/ SIGNAL(p, r)

Next ==
  \/ \E p \in Procesos : crear_pcb(p) \/ sleep_IO(p) \/ Handler(p)
  \/ Planificadores
  \/ EnviarContexto
  \/ FinDeTerminar

Spec == Init /\ [][Next]_vars

(***************************************************************************)
(* Threads are scheduled, memory answers, sleeps end, and the CPU always   *)
(* returns the context it was given.  The instruction set has no jump and  *)
(* every script ends in EXIT, so a process that keeps getting the CPU      *)
(* reaches the end of its script: strong fairness of its termination.      *)
(***************************************************************************)
Fin(p) == EXIT(p) \/ SEG_FAULT(p) \/ RecursoInexistente(p)

Equidad ==
  /\ WF_vars(EsperarNew)
  /\ WF_vars(agregar_pcb_a_ready)
  /\ WF_vars(EsperarReady)
  /\ WF_vars(\E p \in Procesos : Despachar(p))
  /\ WF_vars(EnviarContexto)
  /\ WF_vars(FinDeTerminar)
  /\ \A p \in Procesos : WF_vars(sleep_IO(p)) /\ SF_vars(Fin(p))

FairSpec == Spec /\ Equidad

-----------------------------------------------------------------------------
(* Properties.                                                             *)

\* The types of the lists, the semaphores, the tables and the planners, which
\* the modules that extend this one keep.
TiposDelKernel ==
  /\ LISTA_NEW \in Seq(Procesos)
  /\ LISTA_READY \in Seq(Procesos)
  /\ LISTA_EXEC \in Seq(Procesos)
  /\ LISTA_BLOCKED \in [Procesos -> Nat]
  /\ LISTA_EXIT \subseteq Procesos
  /\ CantPCBNew \in Nat
  /\ multiprogramacion \in Nat
  /\ cantPCBReady \in Nat
  /\ CPUVacia \in Nat
  /\ pasar_pcb_a_CPU \in Nat
  /\ instancias_recursos \in [Recursos -> Nat]
  /\ lista_block \in [Recursos -> Seq(Procesos)]
  /\ tablaDeRecursos \in [Procesos -> [Recursos -> Nat]]
  /\ consola \in [Procesos -> {"sin_conexion", "conectada"} \union Razones]
  /\ pc_largo \in {"espera_new", "espera_grado"}
  /\ pc_corto \in {"espera_ready", "espera_cpu"}
  /\ en_cpu \in Procesos \union {Nadie}

\* Every variable keeps its type; the semaphores and the instance counts never
\* go below zero.
TypeOK ==
  /\ TiposDelKernel
  /\ pc_general \in {"espera_pcb", "espera_cym", "espera_memoria"}

\* Who has the CPU: nobody (the semaphore), the process in LISTA_EXEC, or the
\* process being finished.
TestigoCPU ==
  CPUVacia + Len(LISTA_EXEC)
    + (IF pc_general = "espera_memoria" THEN 1 ELSE 0) = 1

\* The CPU is given to one process at a time, and the context it works on is
\* the one of the process in LISTA_EXEC: pcb_ejecutando() never reads an empty
\* list and actualizar_pcb never stores a context in another process.
CPUExclusiva ==
  /\ TestigoCPU
  /\ pc_general = "espera_cym" => LISTA_EXEC = <<en_cpu>>
  /\ pc_general # "espera_cym" => en_cpu = Nadie
  /\ pasar_pcb_a_CPU = IF pc_general = "espera_pcb" THEN Len(LISTA_EXEC) ELSE 0

\* The permits of the two counting semaphores match the lists they count, so
\* no list_remove finds LISTA_NEW or LISTA_READY empty (it would return NULL).
PermisosDeNew ==
  CantPCBNew + (IF pc_largo = "espera_grado" THEN 1 ELSE 0) = Len(LISTA_NEW)

PermisosDeReady ==
  cantPCBReady + (IF pc_corto = "espera_cpu" THEN 1 ELSE 0)
    <= Len(LISTA_READY)

ListasConPermiso == PermisosDeNew /\ PermisosDeReady

\* The processes blocked on a resource.
EnEspera == {p \in Procesos : \E r \in Recursos : Aparece(p, lista_block[r])}

\* The processes that hold a slot of the multiprogramming degree.
Admitidos ==
  {p \in Procesos : \/ Aparece(p, LISTA_READY)
                    \/ Aparece(p, LISTA_EXEC)
                    \/ LISTA_BLOCKED[p] > 0
                    \/ p \in EnEspera}

\* The admitted processes and the free slots add up to the degree, whatever
\* path each process took out of the system: a slot is never lost and never
\* returned twice.
GradoRespetado ==
  multiprogramacion + Cardinality(Admitidos)
    + (IF pc_general = "espera_memoria" THEN 1 ELSE 0) = Grado

Veces(p, lista) == Cardinality({i \in DOMAIN lista : lista[i] = p})

\* How many places process p appears in, over every list of the kernel.
Apariciones(p) ==
  Veces(p, LISTA_NEW) + Veces(p, LISTA_READY) + Veces(p, LISTA_EXEC)
    + LISTA_BLOCKED[p] + (IF p \in LISTA_EXIT THEN 1 ELSE 0)
    + Cardinality({r \in Recursos : Aparece(p, lista_block[r])})

\* A process is in exactly one list from the moment it connects: it is neither
\* lost by a transition nor queued twice.
UnSoloEstado ==
  \A p \in Procesos :
    Apariciones(p) = IF consola[p] = "sin_conexion" THEN 0 ELSE 1

\* Instances are never lost, by a WAIT, by a wake-up or by the death of a
\* holder; and no step but a SIGNAL of a process that holds none creates one.
RecursosConservados ==
  [][\A r \in Recursos :
       \/ Existencias(r)' = Existencias(r)
       \/ /\ Existencias(r)' = Existencias(r) + 1
          /\ \E p \in Procesos : SIGNAL(p, r) /\ tablaDeRecursos[p][r] = 0]_vars

\* A finished process holds no instance and its console knows why it ended;
\* both stay so.
FinDefinitivo ==
  [][\A p \in LISTA_EXIT :
       /\ p \in LISTA_EXIT'
       /\ consola'[p] = consola[p]
       /\ tablaDeRecursos'[p] = [r \in Recursos |-> 0]]_vars

\* Waiters of a resource are served in the order they arrived, and a waiter
\* leaves the queue only for LISTA_READY, with the instance it waited for.
EsperaEnOrden ==
  [][\A r \in Recursos :
       lista_block'[r] # lista_block[r] =>
         \/ \E p \in Procesos : lista_block'[r] = Append(lista_block[r], p)
         \/ LET p == Head(lista_block[r]) IN
            /\ lista_block'[r] = Tail(lista_block[r])
            /\ LISTA_READY' = Append(LISTA_READY, p)
            /\ tablaDeRecursos'[p][r] = tablaDeRecursos[p][r] + 1]_vars

\* recursos.c:108-109: a process that waits for a resource that was returned is
\* unblocked; nobody waits while an instance is free.
NadieEsperaLoLibre ==
  \A r \in Recursos : lista_block[r] # <<>> => instancias_recursos[r] = 0

\* A ready process gets the CPU, even when others are deadlocked on resources.
ListoEjecuta ==
  \A p \in Procesos : Aparece(p, LISTA_READY) ~> Aparece(p, LISTA_EXEC)

-----------------------------------------------------------------------------
(* Under FIFO the kernel implements the life cycle of CicloDeVida.         *)

Ciclo == INSTANCE CicloDeVida WITH
  nuevos <- LISTA_NEW,
  listos <- LISTA_READY,
  ejecuta <- IF LISTA_EXEC = <<>> THEN Nadie ELSE pcb_ejecutando,
  bloqueados <- {p \in Procesos : LISTA_BLOCKED[p] > 0} \union EnEspera,
  terminados <- LISTA_EXIT

\* The planners, the semaphores and the resource queues implement the life
\* cycle: arrival order, degree, one running process, ready order, and progress.
ImplementaCiclo == Ciclo!PromesaConProgreso
=============================================================================

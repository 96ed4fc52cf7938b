---------------------------- MODULE KernelProofs ----------------------------
(***************************************************************************)
(* Proofs about Kernel for any number of processes and resources and any   *)
(* degree: the types, the CPU and the permits of the planners under either *)
(* planning algorithm; then, under FIFO, where each process is and how     *)
(* many are admitted.                                                      *)
(***************************************************************************)
EXTENDS Kernel, SequenceTheorems, FiniteSetTheorems, FunctionTheorems, TLAPS

\* Whatever hilo_general waits for besides the next process and memory's answer
\* to an end, it waits with a process in LISTA_EXEC.
ConProceso ==
  pc_general \notin {"espera_pcb", "espera_memoria"} => Len(LISTA_EXEC) = 1

\* The types, the CPU token and the permits are inductive only together: the
\* permits keep Head and Tail away from empty queues, the token keeps
\* pcb_ejecutando away from an empty LISTA_EXEC.  Nothing here says which waits
\* hilo_general has: the modules that extend Kernel add theirs.
IInv == TiposDelKernel /\ CPUExclusiva /\ ListasConPermiso /\ ConProceso

-----------------------------------------------------------------------------
(* What list_add and list_remove(0) do to a queue of processes.            *)

LEMMA AgregarACola ==
  ASSUME NEW cola \in Seq(Procesos), NEW p \in Procesos
  PROVE  /\ Append(cola, p) \in Seq(Procesos)
         /\ Len(cola) \in Nat
         /\ Len(Append(cola, p)) = Len(cola) + 1
  OBVIOUS

LEMMA SacarDeCola ==
  ASSUME NEW cola \in Seq(Procesos), cola # <<>>
  PROVE  /\ Head(cola) \in Procesos
         /\ Tail(cola) \in Seq(Procesos)
         /\ Len(cola) \in Nat \ {0}
         /\ Len(Tail(cola)) = Len(cola) - 1
  OBVIOUS

LEMMA ColaVacia ==
  ASSUME NEW cola \in Seq(Procesos)
  PROVE  Len(cola) = 0 <=> cola = <<>>
  BY EmptySeq

LEMMA ColaUnitaria ==
  ASSUME NEW cola \in Seq(Procesos), Len(cola) = 1
  PROVE  /\ cola = <<Head(cola)>>
         /\ Tail(cola) = <<>>
  <1>1. cola # <<>>
    OBVIOUS
  <1>2. <<Head(cola)>> \in Seq(Procesos) /\ Len(<<Head(cola)>>) = 1
    BY <1>1, SacarDeCola
  <1>3. cola[1] = <<Head(cola)>>[1]
    BY <1>1
  <1>4. cola = <<Head(cola)>>
    BY <1>2, <1>3, SeqEqual
  <1>5. Tail(cola) \in Seq(Procesos) /\ Len(Tail(cola)) = 0
    BY <1>1, SacarDeCola
  <1>6. Tail(cola) = <<>>
    BY <1>5, ColaVacia
  <1> QED BY <1>4, <1>6

\* While a handler runs, its process is alone in LISTA_EXEC and the CPU is taken.
LEMMA QuienEjecuta ==
  ASSUME IInv, NEW p \in Procesos, Devuelve(p)
  PROVE  /\ LISTA_EXEC = <<p>>
         /\ Head(LISTA_EXEC) = p
         /\ Tail(LISTA_EXEC) = <<>>
         /\ Len(LISTA_EXEC) = 1
         /\ en_cpu = p
         /\ CPUVacia = 0
         /\ pasar_pcb_a_CPU = 0
         /\ pc_general = "espera_cym"
  <1>1. pc_general = "espera_cym" /\ p = Head(LISTA_EXEC)
    BY DEF Devuelve, pcb_ejecutando
  <1>2. LISTA_EXEC = <<en_cpu>> /\ pasar_pcb_a_CPU = 0
    BY <1>1 DEF IInv, CPUExclusiva
  <1>3. Len(LISTA_EXEC) = 1 /\ Head(LISTA_EXEC) = en_cpu
    BY <1>2
  <1>4. CPUVacia = 0
    BY <1>1, <1>3 DEF IInv, TiposDelKernel, CPUExclusiva, TestigoCPU
  <1>5. Tail(LISTA_EXEC) = <<>>
    BY <1>3, ColaUnitaria DEF IInv, TiposDelKernel
  <1> QED BY <1>1, <1>2, <1>3, <1>4, <1>5

\* p is the running process, wherever hilo_general is in its instruction.
Corre(p) == LISTA_EXEC = <<p>> /\ pc_general \notin {"espera_pcb", "espera_memoria"}

LEMMA DevuelveCorre ==
  ASSUME IInv, NEW p \in Procesos, Devuelve(p)
  PROVE  Corre(p)
  BY QuienEjecuta DEF Corre

LEMMA QuienCorre ==
  ASSUME IInv, NEW p \in Procesos, Corre(p)
  PROVE  /\ LISTA_EXEC = <<p>> /\ Len(LISTA_EXEC) = 1 /\ Tail(LISTA_EXEC) = <<>>
         /\ CPUVacia = 0 /\ pasar_pcb_a_CPU = 0
         /\ pc_general \notin {"espera_pcb", "espera_memoria"}
  <1>1. LISTA_EXEC = <<p>> /\ Len(LISTA_EXEC) = 1
    BY DEF Corre
  <1>2. CPUVacia = 0 /\ pasar_pcb_a_CPU = 0
    BY <1>1 DEF Corre, IInv, TiposDelKernel, CPUExclusiva, TestigoCPU
  <1>3. Tail(LISTA_EXEC) = <<>>
    BY <1>1, ColaUnitaria DEF IInv, TiposDelKernel
  <1> QED BY <1>1, <1>2, <1>3 DEF Corre

-----------------------------------------------------------------------------
LEMMA InicioIInv == Init => IInv
  BY KernelAssumption DEF Init, IInv, TiposDelKernel, CPUExclusiva, TestigoCPU,
     ConProceso, ListasConPermiso, PermisosDeNew, PermisosDeReady, Razones

\* The end of a process, whatever its reason.
LEMMA TerminarIInv ==
  ASSUME IInv, NEW p \in Procesos, NEW razon \in Razones,
         Corre(p), terminar_consola(p, razon)
  PROVE  IInv'
  <1> USE DEF IInv, listas, semaforos, recursos, hilos
  <1>1. /\ LISTA_EXEC = <<p>>
        /\ Tail(LISTA_EXEC) = <<>> /\ Len(LISTA_EXEC) = 1
        /\ CPUVacia = 0 /\ pasar_pcb_a_CPU = 0
        /\ pc_general \notin {"espera_pcb", "espera_memoria"}
    BY QuienCorre
  <1> USE DEF terminar_consola, devolverRecursosPCB, pcb_ejecutando_remove
  <1>2. TiposDelKernel'
    BY <1>1 DEF TiposDelKernel
  <1>3. CPUExclusiva' /\ ConProceso'
    BY <1>1 DEF TiposDelKernel, CPUExclusiva, TestigoCPU, ConProceso
  <1>4. ListasConPermiso'
    BY <1>1 DEF TiposDelKernel, ListasConPermiso, PermisosDeNew, PermisosDeReady
  <1> QED BY <1>2, <1>3, <1>4

LEMMA PasoIInv == IInv /\ [Next]_vars => IInv'
  <1> SUFFICES ASSUME IInv, [Next]_vars
               PROVE  IInv'
    OBVIOUS
  <1> USE DEF IInv, listas, semaforos, recursos, hilos
  <1>1. ASSUME NEW p \in Procesos, crear_pcb(p)
        PROVE  IInv'
    <2> USE <1>1 DEF crear_pcb
    <2>1. TiposDelKernel'
      BY DEF TiposDelKernel
    <2>2. CPUExclusiva' /\ ConProceso'
      BY DEF TiposDelKernel, CPUExclusiva, TestigoCPU, ConProceso
    <2>3. ListasConPermiso'
      BY DEF TiposDelKernel, ListasConPermiso, PermisosDeNew, PermisosDeReady
    <2> QED BY <2>1, <2>2, <2>3
  <1>2. ASSUME NEW p \in Procesos, sleep_IO(p)
        PROVE  IInv'
    <2> USE <1>2 DEF sleep_IO, pasar_a_ready
    <2>1. TiposDelKernel'
      BY DEF TiposDelKernel
    <2>2. CPUExclusiva' /\ ConProceso'
      BY DEF TiposDelKernel, CPUExclusiva, TestigoCPU, ConProceso
    <2>3. ListasConPermiso'
      BY DEF TiposDelKernel, ListasConPermiso, PermisosDeNew, PermisosDeReady
    <2> QED BY <2>1, <2>2, <2>3
  <1>3. ASSUME EsperarNew
        PROVE  IInv'
    <2> USE <1>3 DEF EsperarNew
    <2>1. TiposDelKernel'
      BY DEF TiposDelKernel
    <2>2. CPUExclusiva' /\ ConProceso'
      BY DEF TiposDelKernel, CPUExclusiva, TestigoCPU, ConProceso
    <2>3. ListasConPermiso'
      BY DEF TiposDelKernel, ListasConPermiso, PermisosDeNew, PermisosDeReady
    <2> QED BY <2>1, <2>2, <2>3
  <1>4. ASSUME agregar_pcb_a_ready
        PROVE  IInv'
    <2>1. LISTA_NEW # <<>>
      BY <1>4 DEF agregar_pcb_a_ready, TiposDelKernel, ListasConPermiso, PermisosDeNew
    <2>2. Head(LISTA_NEW) \in Procesos /\ Tail(LISTA_NEW) \in Seq(Procesos)
          /\ Len(Tail(LISTA_NEW)) = Len(LISTA_NEW) - 1
      BY <2>1, SacarDeCola DEF TiposDelKernel
    <2> USE <1>4 DEF agregar_pcb_a_ready, pasar_a_ready
    <2>3. TiposDelKernel'
      BY <2>2 DEF TiposDelKernel
    <2>4. CPUExclusiva' /\ ConProceso'
      BY <2>2 DEF TiposDelKernel, CPUExclusiva, TestigoCPU, ConProceso
    <2>5. ListasConPermiso'
      BY <2>2 DEF TiposDelKernel, ListasConPermiso, PermisosDeNew, PermisosDeReady
    <2> QED BY <2>3, <2>4, <2>5
  <1>5. ASSUME EsperarReady
        PROVE  IInv'
    <2> USE <1>5 DEF EsperarReady
    <2>1. TiposDelKernel'
      BY DEF TiposDelKernel
    <2>2. CPUExclusiva' /\ ConProceso'
      BY DEF TiposDelKernel, CPUExclusiva, TestigoCPU, ConProceso
    <2>3. ListasConPermiso'
      BY DEF TiposDelKernel, ListasConPermiso, PermisosDeNew, PermisosDeReady
    <2> QED BY <2>1, <2>2, <2>3
  <1>6. ASSUME NEW p \in Procesos, Despachar(p)
        PROVE  IInv'
    <2>1. /\ LISTA_READY' \in Seq(Procesos)
          /\ Len(LISTA_READY') >= Len(LISTA_READY) - 1
          /\ Len(LISTA_READY) \in Nat
      <3>1. CASE LISTA_READY' = LISTA_READY
        BY <3>1 DEF TiposDelKernel
      <3>2. CASE LISTA_READY' = Tail(LISTA_READY)
        BY <1>6, <3>2, SacarDeCola DEF TiposDelKernel, Despachar
      <3> QED
        BY <1>6, <3>1, <3>2 DEF Despachar, algoritmo_fifo, algoritmo_hrrn
    <2>2. /\ LISTA_EXEC' \in Seq(Procesos)
          /\ Len(LISTA_EXEC') = Len(LISTA_EXEC) + 1
          /\ Len(LISTA_EXEC) \in Nat
      BY <1>6, AgregarACola DEF TiposDelKernel, Despachar
    <2>3. Len(LISTA_EXEC) = 0 /\ pc_general = "espera_pcb" /\ CPUVacia = 1
      <3>1. CPUVacia > 0
        BY <1>6 DEF Despachar
      <3>2. Len(LISTA_EXEC) = 0 /\ pc_general # "espera_memoria" /\ CPUVacia = 1
        BY <2>2, <3>1 DEF TiposDelKernel, CPUExclusiva, TestigoCPU, ConProceso
      <3> QED BY <3>2 DEF TiposDelKernel, ConProceso
    <2> USE <1>6 DEF Despachar
    <2>4. TiposDelKernel'
      BY <2>1, <2>2 DEF TiposDelKernel
    <2>5. CPUExclusiva' /\ ConProceso'
      BY <2>2, <2>3 DEF TiposDelKernel, CPUExclusiva, TestigoCPU, ConProceso
    <2>6. ListasConPermiso'
      BY <2>1, <2>2 DEF TiposDelKernel, ListasConPermiso, PermisosDeNew, PermisosDeReady
    <2> QED BY <2>4, <2>5, <2>6
  <1>7. ASSUME EnviarContexto
        PROVE  IInv'
    <2>1. Len(LISTA_EXEC) = 1
      BY <1>7 DEF EnviarContexto, TiposDelKernel, CPUExclusiva, TestigoCPU, ConProceso
    <2>2. LISTA_EXEC = <<Head(LISTA_EXEC)>> /\ Head(LISTA_EXEC) \in Procesos
      BY <2>1, ColaUnitaria, SacarDeCola DEF TiposDelKernel
    <2> USE <1>7 DEF EnviarContexto, pcb_ejecutando
    <2>3. TiposDelKernel'
      BY <2>1, <2>2 DEF TiposDelKernel
    <2>4. CPUExclusiva' /\ ConProceso'
      BY <2>1, <2>2 DEF TiposDelKernel, CPUExclusiva, TestigoCPU, ConProceso
    <2>5. ListasConPermiso'
      BY <2>1, <2>2 DEF TiposDelKernel, ListasConPermiso, PermisosDeNew, PermisosDeReady
    <2> QED BY <2>3, <2>4, <2>5
  <1>8. ASSUME FinDeTerminar
        PROVE  IInv'
    <2> USE <1>8 DEF FinDeTerminar, LiberarCPU
    <2>1. TiposDelKernel'
      BY DEF TiposDelKernel
    <2>2. CPUExclusiva' /\ ConProceso'
      BY DEF TiposDelKernel, CPUExclusiva, TestigoCPU, ConProceso
    <2>3. ListasConPermiso'
      BY DEF TiposDelKernel, ListasConPermiso, PermisosDeNew, PermisosDeReady
    <2> QED BY <2>1, <2>2, <2>3
  <1>9. ASSUME NEW p \in Procesos, IO(p)
        PROVE  IInv'
    <2>1. Devuelve(p)
      BY <1>9 DEF IO
    <2>2. /\ LISTA_EXEC = <<p>> /\ Head(LISTA_EXEC) = p
          /\ Tail(LISTA_EXEC) = <<>> /\ Len(LISTA_EXEC) = 1
          /\ en_cpu = p /\ CPUVacia = 0 /\ pasar_pcb_a_CPU = 0
          /\ pc_general = "espera_cym"
      BY <2>1, QuienEjecuta
    <2> USE <1>9 DEF IO, pcb_ejecutando_remove, LiberarCPU
    <2>3. TiposDelKernel'
      BY <2>2 DEF TiposDelKernel
    <2>4. CPUExclusiva' /\ ConProceso'
      BY <2>2 DEF TiposDelKernel, CPUExclusiva, TestigoCPU, ConProceso
    <2>5. ListasConPermiso'
      BY <2>2 DEF TiposDelKernel, ListasConPermiso, PermisosDeNew, PermisosDeReady
    <2> QED BY <2>3, <2>4, <2>5
  <1>10. ASSUME NEW p \in Procesos, YIELD(p)
        PROVE  IInv'
    <2>1. Devuelve(p)
      BY <1>10 DEF YIELD
    <2>2. /\ LISTA_EXEC = <<p>> /\ Head(LISTA_EXEC) = p
          /\ Tail(LISTA_EXEC) = <<>> /\ Len(LISTA_EXEC) = 1
          /\ en_cpu = p /\ CPUVacia = 0 /\ pasar_pcb_a_CPU = 0
          /\ pc_general = "espera_cym"
      BY <2>1, QuienEjecuta
    <2> USE <1>10 DEF YIELD, pcb_ejecutando_remove, LiberarCPU, pasar_a_ready
    <2>3. TiposDelKernel'
      BY <2>2 DEF TiposDelKernel
    <2>4. CPUExclusiva' /\ ConProceso'
      BY <2>2 DEF TiposDelKernel, CPUExclusiva, TestigoCPU, ConProceso
    <2>5. ListasConPermiso'
      BY <2>2 DEF TiposDelKernel, ListasConPermiso, PermisosDeNew, PermisosDeReady
    <2> QED BY <2>3, <2>4, <2>5
  <1>11. ASSUME NEW p \in Procesos, NEW razon \in Razones,
                Devuelve(p), terminar_consola(p, razon)
        PROVE  IInv'
    BY <1>11, DevuelveCorre, TerminarIInv
  <1>12. ASSUME NEW p \in Procesos, NEW r \in Recursos, WaitConInstancias(p, r)
        PROVE  IInv'
    <2>1. Devuelve(p)
      BY <1>12 DEF WaitConInstancias
    <2>2. /\ LISTA_EXEC = <<p>> /\ Head(LISTA_EXEC) = p
          /\ Tail(LISTA_EXEC) = <<>> /\ Len(LISTA_EXEC) = 1
          /\ en_cpu = p /\ CPUVacia = 0 /\ pasar_pcb_a_CPU = 0
          /\ pc_general = "espera_cym"
      BY <2>1, QuienEjecuta
    <2> USE <1>12 DEF WaitConInstancias, asignarRecurso, pcb_ejecutando,
        devolver_ce_a_cpu
    <2>3. TiposDelKernel'
      BY <2>2 DEF TiposDelKernel
    <2>4. CPUExclusiva' /\ ConProceso'
      BY <2>2 DEF TiposDelKernel, CPUExclusiva, TestigoCPU, ConProceso
    <2>5. ListasConPermiso'
      BY <2>2 DEF TiposDelKernel, ListasConPermiso, PermisosDeNew, PermisosDeReady
    <2> QED BY <2>3, <2>4, <2>5
  <1>13. ASSUME NEW p \in Procesos, NEW r \in Recursos, WaitSinInstancias(p, r)
        PROVE  IInv'
    <2>1. Devuelve(p)
      BY <1>13 DEF WaitSinInstancias
    <2>2. /\ LISTA_EXEC = <<p>> /\ Head(LISTA_EXEC) = p
          /\ Tail(LISTA_EXEC) = <<>> /\ Len(LISTA_EXEC) = 1
          /\ en_cpu = p /\ CPUVacia = 0 /\ pasar_pcb_a_CPU = 0
          /\ pc_general = "espera_cym"
      BY <2>1, QuienEjecuta
    <2> USE <1>13 DEF WaitSinInstancias, LiberarCPU, pcb_ejecutando_remove
    <2>3. TiposDelKernel'
      BY <2>2 DEF TiposDelKernel
    <2>4. CPUExclusiva' /\ ConProceso'
      BY <2>2 DEF TiposDelKernel, CPUExclusiva, TestigoCPU, ConProceso
    <2>5. ListasConPermiso'
      BY <2>2 DEF TiposDelKernel, ListasConPermiso, PermisosDeNew, PermisosDeReady
    <2> QED BY <2>3, <2>4, <2>5
  <1>14. ASSUME NEW p \in Procesos, NEW r \in Recursos, SIGNAL(p, r)
        PROVE  IInv'
    <2>1. Devuelve(p)
      BY <1>14 DEF SIGNAL
    <2>2. /\ LISTA_EXEC = <<p>> /\ Head(LISTA_EXEC) = p
          /\ Tail(LISTA_EXEC) = <<>> /\ Len(LISTA_EXEC) = 1
          /\ en_cpu = p /\ CPUVacia = 0 /\ pasar_pcb_a_CPU = 0
          /\ pc_general = "espera_cym"
      BY <2>1, QuienEjecuta
    <2> USE DEF pcb_ejecutando, devolver_ce_a_cpu
    <2>3. CASE SignalSinEspera(p, r)
      <3>1. TiposDelKernel'
        BY <1>14, <2>2, <2>3 DEF SIGNAL, SignalSinEspera, TablaAlDevolver, TiposDelKernel
      <3> QED
        BY <1>14, <2>2, <2>3, <3>1 DEF SIGNAL, SignalSinEspera, TiposDelKernel,
           CPUExclusiva, ConProceso, TestigoCPU, ListasConPermiso, PermisosDeNew,
           PermisosDeReady
    <2>4. CASE SignalConEspera(p, r)
      <3> DEFINE despertado == Head(lista_block[r])
      <3>1. despertado \in Procesos /\ Tail(lista_block[r]) \in Seq(Procesos)
        BY <1>14, <2>4, SacarDeCola DEF SignalConEspera, TiposDelKernel
      <3>2. /\ LISTA_READY' \in Seq(Procesos)
            /\ Len(LISTA_READY') = Len(LISTA_READY) + 1
            /\ Len(LISTA_READY) \in Nat
            /\ cantPCBReady' = cantPCBReady + 1
        BY <2>4, <3>1, AgregarACola DEF SignalConEspera, pasar_a_ready, TiposDelKernel
      <3>3. tablaDeRecursos' \in [Procesos -> [Recursos -> Nat]]
        <4>1. TablaAlDevolver(p, r) \in [Procesos -> [Recursos -> Nat]]
          BY <1>14 DEF TablaAlDevolver, TiposDelKernel
        <4> QED
          BY <1>14, <2>4, <3>1, <4>1 DEF SignalConEspera
      <3>4. lista_block' \in [Recursos -> Seq(Procesos)]
        BY <1>14, <2>4, <3>1 DEF SignalConEspera, TiposDelKernel
      <3>5. /\ UNCHANGED <<LISTA_NEW, LISTA_EXEC, LISTA_BLOCKED, LISTA_EXIT,
                            CantPCBNew, multiprogramacion, pasar_pcb_a_CPU,
                            consola, pc_largo, pc_corto, pc_general, CPUVacia>>
            /\ en_cpu' = p
        BY <1>14, <2>2 DEF SIGNAL
      <3>6. UNCHANGED instancias_recursos
        BY <2>4 DEF SignalConEspera
      <3>7. TiposDelKernel'
        BY <3>2, <3>3, <3>4, <3>5, <3>6, SMTT(30) DEF TiposDelKernel
      <3>8. CPUExclusiva' /\ ConProceso'
        BY <2>2, <3>5 DEF CPUExclusiva, TestigoCPU, ConProceso
      <3>9. PermisosDeNew'
        BY <3>5 DEF ListasConPermiso, PermisosDeNew
      <3>10. PermisosDeReady'
        <4>1. cantPCBReady \in Nat /\ PermisosDeReady
          BY DEF TiposDelKernel, ListasConPermiso
        <4> QED
          BY <3>2, <3>5, <4>1 DEF PermisosDeReady
      <3> QED BY <3>7, <3>8, <3>9, <3>10 DEF ListasConPermiso
    <2> QED BY <1>14, <2>3, <2>4 DEF SIGNAL
  <1>15. CASE UNCHANGED vars
    <2> USE <1>15 DEF vars
    <2>1. TiposDelKernel'
      BY DEF TiposDelKernel
    <2>2. CPUExclusiva' /\ ConProceso'
      BY DEF TiposDelKernel, CPUExclusiva, TestigoCPU, ConProceso
    <2>3. ListasConPermiso'
      BY DEF TiposDelKernel, ListasConPermiso, PermisosDeNew, PermisosDeReady
    <2> QED BY <2>1, <2>2, <2>3
  <1> QED
    BY <1>1, <1>2, <1>3, <1>4, <1>5, <1>6, <1>7, <1>8, <1>9, <1>10, <1>11, <1>12, <1>13, <1>14, <1>15
       DEF Next, Planificadores, Handler, EXIT, SEG_FAULT, RecursoInexistente,
           Razones

\* Every state of the kernel satisfies the inductive invariant.
THEOREM Invariante == Spec => []IInv
  <1> QED BY InicioIInv, PasoIInv, PTL DEF Spec

\* Type correctness: in particular no semaphore and no count of free instances
\* ever goes below zero.
THEOREM Tipos == Spec => []TypeOK
  <1> DEFINE Espera == pc_general \in {"espera_pcb", "espera_cym", "espera_memoria"}
  <1>1. Init => Espera
    BY DEF Init
  <1>2. Espera /\ [Next]_vars => Espera'
    BY DEF Next, Planificadores, Handler, crear_pcb, sleep_IO, EsperarNew,
       agregar_pcb_a_ready, EsperarReady, Despachar, EnviarContexto, FinDeTerminar,
       IO, YIELD, EXIT, SEG_FAULT, RecursoInexistente, terminar_consola,
       WaitConInstancias, WaitSinInstancias, SIGNAL, devolver_ce_a_cpu, LiberarCPU,
       hilos, vars
  <1>3. IInv /\ Espera => TypeOK
    BY DEF IInv, TypeOK
  <1> QED BY <1>1, <1>2, <1>3, Invariante, PTL DEF Spec

\* One process at a time has the CPU, and it is the one pcb_ejecutando returns.
THEOREM ExclusionDeCPU == Spec => []CPUExclusiva
  <1>1. IInv => CPUExclusiva
    BY DEF IInv
  <1> QED BY <1>1, Invariante, PTL

\* No planner removes from an empty list.
THEOREM PermisosCorrectos == Spec => []ListasConPermiso
  <1>1. IInv => ListasConPermiso
    BY DEF IInv
  <1> QED BY <1>1, Invariante, PTL

-----------------------------------------------------------------------------
(* Where each process is, under FIFO.                                      *)

Lugares(q, cola) == {i \in DOMAIN cola : cola[i] = q}

-----------------------------------------------------------------------------
(* How many times a process is in a queue.                                 *)

LEMMA VecesTipo ==
  ASSUME NEW cola \in Seq(Procesos), NEW q
  PROVE  /\ IsFiniteSet(Lugares(q, cola))
         /\ Veces(q, cola) = Cardinality(Lugares(q, cola))
         /\ Veces(q, cola) \in Nat
         /\ Veces(q, cola) = 0 <=> ~Aparece(q, cola)
  <1>1. Lugares(q, cola) \subseteq 1 .. Len(cola) /\ Len(cola) \in Nat
    BY DEF Lugares
  <1>2. IsFiniteSet(1 .. Len(cola))
    BY <1>1, FS_Interval
  <1>3. IsFiniteSet(Lugares(q, cola))
    BY <1>1, <1>2, FS_Subset
  <1>4. Veces(q, cola) = Cardinality(Lugares(q, cola))
    BY DEF Veces, Lugares
  <1>5. Lugares(q, cola) = {} <=> ~Aparece(q, cola)
    BY DEF Lugares, Aparece
  <1> QED BY <1>3, <1>4, <1>5, FS_EmptySet, FS_CardinalityType

LEMMA VecesAgregar ==
  ASSUME NEW cola \in Seq(Procesos), NEW p \in Procesos, NEW q
  PROVE  Veces(q, Append(cola, p)) = Veces(q, cola) + (IF q = p THEN 1 ELSE 0)
  <1> DEFINE n == Len(cola) + 1
  <1>1. /\ Append(cola, p) \in Seq(Procesos)
        /\ DOMAIN Append(cola, p) = DOMAIN cola \cup {n}
        /\ n \notin DOMAIN cola
        /\ Append(cola, p)[n] = p
        /\ \A i \in DOMAIN cola : Append(cola, p)[i] = cola[i]
    OBVIOUS
  <1>2. /\ IsFiniteSet(Lugares(q, cola))
        /\ Veces(q, cola) = Cardinality(Lugares(q, cola))
        /\ Veces(q, cola) \in Nat
        /\ Veces(q, Append(cola, p)) = Cardinality(Lugares(q, Append(cola, p)))
    BY <1>1, VecesTipo
  <1>3. CASE q = p
    <2>1. Lugares(q, Append(cola, p)) = Lugares(q, cola) \cup {n}
      BY <1>1, <1>3 DEF Lugares
    <2>2. n \notin Lugares(q, cola)
      BY <1>1 DEF Lugares
    <2> HIDE DEF n
    <2>3. Cardinality(Lugares(q, cola) \cup {n}) = Cardinality(Lugares(q, cola)) + 1
      BY <1>2, <2>2, FS_AddElement
    <2> QED BY <1>3, <1>2, <2>1, <2>3
  <1>4. CASE q # p
    <2>1. Lugares(q, Append(cola, p)) = Lugares(q, cola)
      BY <1>1, <1>4 DEF Lugares
    <2> QED BY <1>4, <1>2, <2>1
  <1> QED BY <1>3, <1>4

LEMMA VecesSacar ==
  ASSUME NEW cola \in Seq(Procesos), cola # <<>>, NEW q
  PROVE  Veces(q, Tail(cola)) = Veces(q, cola) - (IF q = Head(cola) THEN 1 ELSE 0)
  <1> DEFINE resto == Lugares(q, cola) \ {1}
  <1>1. /\ Tail(cola) \in Seq(Procesos)
        /\ Len(cola) \in Nat \ {0}
        /\ Len(Tail(cola)) = Len(cola) - 1
        /\ \A i \in 1 .. Len(Tail(cola)) : Tail(cola)[i] = cola[i + 1]
        /\ Head(cola) = cola[1]
    OBVIOUS
  <1>2. ExistsBijection(Lugares(q, Tail(cola)), resto)
    <2> DEFINE f == [i \in Lugares(q, Tail(cola)) |-> i + 1]
    <2>1. f \in [Lugares(q, Tail(cola)) -> resto]
      BY <1>1 DEF Lugares
    <2>2. \A a, b \in Lugares(q, Tail(cola)) : f[a] = f[b] => a = b
      BY <1>1 DEF Lugares
    <2>3. \A k \in resto : \E i \in Lugares(q, Tail(cola)) : f[i] = k
      <3> TAKE k \in resto
      <3>1. k \in 2 .. Len(cola) /\ cola[k] = q
        BY <1>1 DEF Lugares
      <3>2. k - 1 \in Lugares(q, Tail(cola))
        BY <1>1, <3>1 DEF Lugares
      <3> QED BY <3>1, <3>2
    <2> HIDE DEF f, resto
    <2> QED BY <2>1, <2>2, <2>3, Fun_IsBij DEF ExistsBijection
  <1>3. /\ IsFiniteSet(Lugares(q, cola)) /\ IsFiniteSet(Lugares(q, Tail(cola)))
        /\ Veces(q, cola) = Cardinality(Lugares(q, cola))
        /\ Veces(q, cola) \in Nat
        /\ Veces(q, Tail(cola)) = Cardinality(Lugares(q, Tail(cola)))
    BY <1>1, VecesTipo
  <1>4. Cardinality(Lugares(q, Tail(cola))) = Cardinality(resto)
    BY <1>2, <1>3, FS_Bijection
  <1>5. 1 \in Lugares(q, cola) <=> q = Head(cola)
    BY <1>1 DEF Lugares
  <1>6. Cardinality(resto) = IF q = Head(cola) THEN Cardinality(Lugares(q, cola)) - 1
                                             ELSE Cardinality(Lugares(q, cola))
    BY <1>3, <1>5, FS_RemoveElement
  <1> QED BY <1>3, <1>4, <1>6

LEMMA VecesUnitaria ==
  ASSUME NEW p \in Procesos, NEW q
  PROVE  /\ Veces(q, <<>>) = 0
         /\ Veces(q, <<p>>) = IF q = p THEN 1 ELSE 0
  <1>1. <<>> \in Seq(Procesos) /\ ~Aparece(q, <<>>)
    BY DEF Aparece
  <1>2. Veces(q, <<>>) = 0
    BY <1>1, VecesTipo
  <1>3. Append(<<>>, p) = <<p>>
    OBVIOUS
  <1>4. Veces(q, Append(<<>>, p)) = Veces(q, <<>>) + (IF q = p THEN 1 ELSE 0)
    BY <1>1, VecesAgregar
  <1> QED BY <1>2, <1>3, <1>4

-----------------------------------------------------------------------------
(* In how many queues of resources a process is.                           *)

EsperaA(q) == {r \in Recursos : Aparece(q, lista_block[r])}

Esperas(q) == Cardinality(EsperaA(q))

ColasSinRepetir ==
  \A r \in Recursos, q \in Procesos : Veces(q, lista_block[r]) <= 1

LEMMA EsperasTipo ==
  ASSUME NEW q
  PROVE  /\ IsFiniteSet(EsperaA(q))
         /\ Esperas(q) \in Nat
         /\ Esperas(q) = 0 <=> \A r \in Recursos : ~Aparece(q, lista_block[r])
  <1>1. EsperaA(q) \subseteq Recursos
    BY DEF EsperaA
  <1>2. IsFiniteSet(EsperaA(q))
    BY <1>1, FS_Subset, KernelAssumption
  <1>3. EsperaA(q) = {} <=> \A r \in Recursos : ~Aparece(q, lista_block[r])
    BY DEF EsperaA
  <1> QED BY <1>2, <1>3, FS_EmptySet, FS_CardinalityType DEF Esperas

\* pasar_a_blocked_de_recurso of a process that waits for nothing.
LEMMA EncolarEspera ==
  ASSUME TiposDelKernel, TiposDelKernel', ColasSinRepetir,
         NEW p \in Procesos, NEW r \in Recursos, Esperas(p) = 0,
         lista_block' = [lista_block EXCEPT ![r] = Append(@, p)]
  PROVE  /\ ColasSinRepetir'
         /\ \A q \in Procesos : Esperas(q)' = Esperas(q) + (IF q = p THEN 1 ELSE 0)
  <1>1. /\ lista_block \in [Recursos -> Seq(Procesos)]
        /\ lista_block' \in [Recursos -> Seq(Procesos)]
        /\ lista_block'[r] = Append(lista_block[r], p)
        /\ \A x \in Recursos : x # r => lista_block'[x] = lista_block[x]
    BY DEF TiposDelKernel
  <1>2. Veces(p, lista_block[r]) = 0
    BY <1>1, EsperasTipo, VecesTipo
  <1>3. \A q \in Procesos :
          Veces(q, lista_block'[r]) = Veces(q, lista_block[r]) + (IF q = p THEN 1 ELSE 0)
    BY <1>1, VecesAgregar
  <1>4. \A q \in Procesos : Veces(q, lista_block[r]) \in Nat
    BY <1>1, VecesTipo
  <1>5. ColasSinRepetir'
    <2> SUFFICES ASSUME NEW x \in Recursos, NEW q \in Procesos
                 PROVE  Veces(q, lista_block'[x]) <= 1
      BY DEF ColasSinRepetir
    <2>1. Veces(q, lista_block[x]) <= 1
      BY DEF ColasSinRepetir
    <2> QED BY <1>1, <1>2, <1>3, <1>4, <2>1
  <1>6. ASSUME NEW q \in Procesos
        PROVE  Aparece(q, lista_block'[r]) <=> Aparece(q, lista_block[r]) \/ q = p
    <2>1. Veces(q, lista_block'[r]) = 0 <=> ~Aparece(q, lista_block'[r])
      BY <1>1, VecesTipo
    <2>2. Veces(q, lista_block[r]) = 0 <=> ~Aparece(q, lista_block[r])
      BY <1>1, VecesTipo
    <2> QED BY <1>3, <1>4, <2>1, <2>2
  <1>7. ASSUME NEW q \in Procesos
        PROVE  Esperas(q)' = Esperas(q) + (IF q = p THEN 1 ELSE 0)
    <2>1. CASE q = p
      <3>1. EsperaA(q)' = EsperaA(q) \cup {r} /\ r \notin EsperaA(q)
        BY <1>1, <1>2, <1>6, <2>1, VecesTipo DEF EsperaA
      <3> QED BY <2>1, <3>1, EsperasTipo, FS_AddElement DEF Esperas
    <2>2. CASE q # p
      <3>1. EsperaA(q)' = EsperaA(q)
        BY <1>1, <1>6, <2>2 DEF EsperaA
      <3> QED BY <2>2, <3>1, EsperasTipo DEF Esperas
    <2> QED BY <2>1, <2>2
  <1> QED BY <1>5, <1>7

\* actualizar_procesos_bloqueados: the first that waits leaves the queue.
LEMMA DesencolarEspera ==
  ASSUME TiposDelKernel, TiposDelKernel', ColasSinRepetir,
         NEW r \in Recursos, lista_block[r] # <<>>,
         lista_block' = [lista_block EXCEPT ![r] = Tail(@)]
  PROVE  /\ ColasSinRepetir'
         /\ \A q \in Procesos :
              Esperas(q)' = Esperas(q) - (IF q = Head(lista_block[r]) THEN 1 ELSE 0)
  <1> DEFINE p == Head(lista_block[r])
  <1>1. /\ lista_block \in [Recursos -> Seq(Procesos)]
        /\ lista_block' \in [Recursos -> Seq(Procesos)]
        /\ lista_block'[r] = Tail(lista_block[r])
        /\ \A x \in Recursos : x # r => lista_block'[x] = lista_block[x]
        /\ p = lista_block[r][1] /\ 1 \in DOMAIN lista_block[r]
        /\ p \in Procesos
    <2>1. /\ lista_block \in [Recursos -> Seq(Procesos)]
          /\ lista_block' \in [Recursos -> Seq(Procesos)]
          /\ lista_block'[r] = Tail(lista_block[r])
          /\ \A x \in Recursos : x # r => lista_block'[x] = lista_block[x]
      BY DEF TiposDelKernel
    <2>2. \A cola \in Seq(Procesos) : cola # <<>> =>
            Head(cola) = cola[1] /\ 1 \in DOMAIN cola /\ Head(cola) \in Procesos
      OBVIOUS
    <2>3. lista_block[r] \in Seq(Procesos)
      BY <2>1
    <2> QED BY <2>1, <2>2, <2>3
  <1>2. Aparece(p, lista_block[r])
    BY <1>1 DEF Aparece
  <1> HIDE DEF p
  <1>3. \A q \in Procesos :
          Veces(q, lista_block'[r]) = Veces(q, lista_block[r]) - (IF q = p THEN 1 ELSE 0)
    BY <1>1, VecesSacar DEF p
  <1>4. \A q \in Procesos :
          /\ Veces(q, lista_block[r]) \in Nat
          /\ Veces(q, lista_block[r]) <= 1
    BY <1>1, VecesTipo DEF ColasSinRepetir
  <1>5. ColasSinRepetir'
    <2> SUFFICES ASSUME NEW x \in Recursos, NEW q \in Procesos
                 PROVE  Veces(q, lista_block'[x]) <= 1
      BY DEF ColasSinRepetir
    <2>1. Veces(q, lista_block[x]) <= 1
      BY DEF ColasSinRepetir
    <2> QED BY <1>1, <1>3, <1>4, <2>1
  <1>6. ASSUME NEW q \in Procesos
        PROVE  Aparece(q, lista_block'[r]) <=> Aparece(q, lista_block[r]) /\ q # p
    <2>1. Veces(q, lista_block'[r]) = 0 <=> ~Aparece(q, lista_block'[r])
      BY <1>1, VecesTipo
    <2>2. Veces(q, lista_block[r]) = 0 <=> ~Aparece(q, lista_block[r])
      BY <1>1, VecesTipo
    <2> QED BY <1>2, <1>3, <1>4, <2>1, <2>2
  <1>7. ASSUME NEW q \in Procesos
        PROVE  Esperas(q)' = Esperas(q) - (IF q = p THEN 1 ELSE 0)
    <2>1. CASE q = p
      <3>1. EsperaA(q)' = EsperaA(q) \ {r} /\ r \in EsperaA(q)
        BY <1>1, <1>2, <1>6, <2>1 DEF EsperaA
      <3> QED BY <2>1, <3>1, EsperasTipo, FS_RemoveElement DEF Esperas
    <2>2. CASE q # p
      <3>1. EsperaA(q)' = EsperaA(q)
        BY <1>1, <1>6, <2>2 DEF EsperaA
      <3> QED BY <2>2, <3>1, EsperasTipo DEF Esperas
    <2> QED BY <2>1, <2>2
  <1> QED BY <1>5, <1>7 DEF p

-----------------------------------------------------------------------------
(* Each process is in one place.                                           *)

IEstados == IInv /\ UnSoloEstado /\ ColasSinRepetir

\* The parts of a count are naturals.
LEMMA CuentasAhora ==
  ASSUME IInv, NEW q \in Procesos
  PROVE  /\ Veces(q, LISTA_NEW) \in Nat
         /\ Veces(q, LISTA_READY) \in Nat
         /\ Veces(q, LISTA_EXEC) \in Nat
         /\ LISTA_BLOCKED[q] \in Nat
         /\ Esperas(q) \in Nat
         /\ Apariciones(q) =
              Veces(q, LISTA_NEW) + Veces(q, LISTA_READY) + Veces(q, LISTA_EXEC)
                + LISTA_BLOCKED[q] + (IF q \in LISTA_EXIT THEN 1 ELSE 0) + Esperas(q)
  <1>1. /\ LISTA_NEW \in Seq(Procesos)
        /\ LISTA_READY \in Seq(Procesos)
        /\ LISTA_EXEC \in Seq(Procesos)
        /\ LISTA_BLOCKED[q] \in Nat
    BY DEF IInv, TiposDelKernel
  <1> QED BY <1>1, VecesTipo, EsperasTipo DEF Apariciones, Esperas, EsperaA

\* And they are so after a step.
LEMMA Cuentas ==
  ASSUME IInv, IInv', NEW q \in Procesos
  PROVE  /\ Veces(q, LISTA_NEW) \in Nat /\ Veces(q, LISTA_NEW') \in Nat
         /\ Veces(q, LISTA_READY) \in Nat /\ Veces(q, LISTA_READY') \in Nat
         /\ Veces(q, LISTA_EXEC) \in Nat /\ Veces(q, LISTA_EXEC') \in Nat
         /\ LISTA_BLOCKED[q] \in Nat /\ LISTA_BLOCKED'[q] \in Nat
         /\ Esperas(q) \in Nat
         /\ Apariciones(q) =
              Veces(q, LISTA_NEW) + Veces(q, LISTA_READY) + Veces(q, LISTA_EXEC)
                + LISTA_BLOCKED[q] + (IF q \in LISTA_EXIT THEN 1 ELSE 0) + Esperas(q)
         /\ Apariciones(q)' =
              Veces(q, LISTA_NEW') + Veces(q, LISTA_READY') + Veces(q, LISTA_EXEC')
                + LISTA_BLOCKED'[q] + (IF q \in LISTA_EXIT' THEN 1 ELSE 0) + Esperas(q)'
  <1>1. /\ LISTA_NEW' \in Seq(Procesos)
        /\ LISTA_READY' \in Seq(Procesos)
        /\ LISTA_EXEC' \in Seq(Procesos)
        /\ LISTA_BLOCKED'[q] \in Nat
    BY DEF IInv, TiposDelKernel
  <1> QED BY <1>1, CuentasAhora, VecesTipo DEF Apariciones, Esperas, EsperaA

\* 1 once the process's console has connected.
Conectado(q) == IF consola[q] = "sin_conexion" THEN 0 ELSE 1

\* No process is in two places: what a step needs to know, also in the modules
\* that keep processes in other places than Kernel's.
SinRepetir == \A q \in Procesos : Apariciones(q) <= Conectado(q)

LEMMA UnoEsSinRepetir == UnSoloEstado => SinRepetir
  BY DEF UnSoloEstado, SinRepetir, Conectado

\* The process a handler runs for is in LISTA_EXEC and nowhere else.
LEMMA SoloCorre ==
  ASSUME IInv, SinRepetir, NEW p \in Procesos, Corre(p)
  PROVE  /\ LISTA_EXEC = <<p>> /\ Tail(LISTA_EXEC) = <<>>
         /\ Esperas(p) = 0 /\ LISTA_BLOCKED[p] = 0 /\ p \notin LISTA_EXIT
         /\ consola[p] # "sin_conexion"
         /\ \A q \in Procesos : Veces(q, LISTA_EXEC) = IF q = p THEN 1 ELSE 0
         /\ \A q : Veces(q, <<>>) = 0
  <1>1. LISTA_EXEC = <<p>> /\ Tail(LISTA_EXEC) = <<>>
    BY QuienCorre
  <1>2. /\ \A q \in Procesos : Veces(q, LISTA_EXEC) = IF q = p THEN 1 ELSE 0
        /\ \A q : Veces(q, <<>>) = 0
    BY <1>1, VecesUnitaria
  <1>3. Apariciones(p) <= IF consola[p] = "sin_conexion" THEN 0 ELSE 1
    BY DEF SinRepetir, Conectado
  <1>4. Veces(p, LISTA_EXEC) = 1
    BY <1>2
  <1>5. /\ Veces(p, LISTA_NEW) \in Nat /\ Veces(p, LISTA_READY) \in Nat
        /\ LISTA_BLOCKED[p] \in Nat /\ Esperas(p) \in Nat
        /\ Apariciones(p) =
             Veces(p, LISTA_NEW) + Veces(p, LISTA_READY) + Veces(p, LISTA_EXEC)
               + LISTA_BLOCKED[p] + (IF p \in LISTA_EXIT THEN 1 ELSE 0) + Esperas(p)
    BY CuentasAhora
  <1>6. Apariciones(p) >= 1 /\ Apariciones(p) \in Nat
    BY <1>4, <1>5
  <1>7. consola[p] # "sin_conexion" /\ Apariciones(p) = 1
    BY <1>3, <1>6
  <1>8. Esperas(p) = 0 /\ LISTA_BLOCKED[p] = 0 /\ p \notin LISTA_EXIT
    BY <1>4, <1>5, <1>7
  <1> QED BY <1>1, <1>2, <1>7, <1>8

LEMMA SoloEnExecSiempre ==
  ASSUME IInv, SinRepetir, NEW p \in Procesos, Devuelve(p)
  PROVE  /\ LISTA_EXEC = <<p>> /\ Tail(LISTA_EXEC) = <<>>
         /\ Esperas(p) = 0 /\ LISTA_BLOCKED[p] = 0 /\ p \notin LISTA_EXIT
         /\ consola[p] # "sin_conexion"
         /\ \A q \in Procesos : Veces(q, LISTA_EXEC) = IF q = p THEN 1 ELSE 0
         /\ \A q : Veces(q, <<>>) = 0
  BY DevuelveCorre, SoloCorre

LEMMA SoloEnExec ==
  ASSUME IInv, UnSoloEstado, NEW p \in Procesos, Devuelve(p)
  PROVE  /\ LISTA_EXEC = <<p>> /\ Tail(LISTA_EXEC) = <<>>
         /\ Esperas(p) = 0 /\ LISTA_BLOCKED[p] = 0 /\ p \notin LISTA_EXIT
         /\ consola[p] # "sin_conexion"
         /\ \A q \in Procesos : Veces(q, LISTA_EXEC) = IF q = p THEN 1 ELSE 0
         /\ \A q : Veces(q, <<>>) = 0
  BY UnoEsSinRepetir, SoloEnExecSiempre

LEMMA InicioIEstados == Init => IEstados
  <1> SUFFICES ASSUME Init PROVE UnSoloEstado /\ ColasSinRepetir
    BY InicioIInv DEF IEstados
  <1>1. <<>> \in Seq(Procesos) /\ \A q : ~Aparece(q, <<>>)
    BY DEF Aparece
  <1>2. \A q : Veces(q, <<>>) = 0
    BY <1>1, VecesTipo
  <1>3. ASSUME NEW q \in Procesos
        PROVE  Apariciones(q) = 0 /\ consola[q] = "sin_conexion"
    <2>1. Esperas(q) = 0
      BY <1>1, EsperasTipo DEF Init
    <2>2. /\ LISTA_NEW = <<>> /\ LISTA_READY = <<>> /\ LISTA_EXEC = <<>>
          /\ LISTA_BLOCKED[q] = 0 /\ LISTA_EXIT = {} /\ consola[q] = "sin_conexion"
      BY DEF Init
    <2> QED BY <1>2, <2>1, <2>2 DEF Apariciones, Esperas, EsperaA
  <1>4. ColasSinRepetir
    BY <1>2 DEF Init, ColasSinRepetir
  <1> QED BY <1>3, <1>4 DEF UnSoloEstado

\* A step that leaves every queue of a resource alone.
LEMMA MismasEsperas ==
  ASSUME ColasSinRepetir, UNCHANGED lista_block
  PROVE  ColasSinRepetir' /\ \A q : Esperas(q)' = Esperas(q)
  BY DEF ColasSinRepetir, Esperas, EsperaA

\* A step puts a process in one place more only when its console connects.
MueveUno(q) == Apariciones(q)' = Apariciones(q) + Conectado(q)' - Conectado(q)

\* The end of a process, whatever its reason.
LEMMA TerminarMueve ==
  ASSUME IInv, SinRepetir, ColasSinRepetir,
         NEW p \in Procesos, NEW razon \in Razones,
         Corre(p), terminar_consola(p, razon)
  PROVE  ColasSinRepetir' /\ \A q \in Procesos : MueveUno(q)
  <1>1. IInv'
    BY TerminarIInv
  <1>2. TiposDelKernel /\ TiposDelKernel'
    BY <1>1 DEF IInv
  <1>3. ColasSinRepetir' /\ \A q : Esperas(q)' = Esperas(q)
    BY MismasEsperas DEF terminar_consola, devolverRecursosPCB
  <1>4. p \notin LISTA_EXIT /\ consola[p] # "sin_conexion"
    BY SoloCorre
  <1>5. ASSUME NEW q \in Procesos PROVE MueveUno(q)
    <2>1. /\ Veces(q, LISTA_EXEC) = (IF q = p THEN 1 ELSE 0)
          /\ Veces(q, LISTA_EXEC') = 0
      BY SoloCorre DEF terminar_consola, pcb_ejecutando_remove
    <2>2. /\ LISTA_EXIT' = LISTA_EXIT \cup {p}
          /\ consola'[q] = IF q = p THEN razon ELSE consola[q]
      BY <1>2 DEF terminar_consola, TiposDelKernel
    <2>3. razon # "sin_conexion"
      BY DEF Razones
    <2>4. UNCHANGED <<LISTA_NEW, LISTA_READY, LISTA_BLOCKED>>
      BY DEF terminar_consola
    <2>5. Conectado(q)' = Conectado(q)
      BY <1>4, <2>2, <2>3 DEF Conectado
    <2>6. Apariciones(q)' = Apariciones(q)
      BY <1>1, <1>3, <1>4, <2>1, <2>2, <2>4, Cuentas
    <2> QED BY <1>1, <2>5, <2>6, Cuentas DEF MueveUno, Conectado
  <1> QED BY <1>3, <1>5

LEMMA PasoMueve ==
  ASSUME Algoritmo = "FIFO", IInv, SinRepetir, ColasSinRepetir, [Next]_vars
  PROVE  ColasSinRepetir' /\ \A q \in Procesos : MueveUno(q)
  <1>1. IInv /\ IInv' /\ SinRepetir /\ ColasSinRepetir
    BY PasoIInv
  <1>2. TiposDelKernel /\ TiposDelKernel'
    BY <1>1 DEF IInv
  <1> DEFINE Mueve(q) == Apariciones(q)' = Apariciones(q)
                            + (IF consola'[q] = "sin_conexion" THEN 0 ELSE 1)
                            - (IF consola[q] = "sin_conexion" THEN 0 ELSE 1)
  <1> SUFFICES ColasSinRepetir' /\ \A q \in Procesos : Mueve(q)
    BY DEF MueveUno, Conectado
  <1> USE DEF listas, semaforos, recursos, hilos
  <1>4. ASSUME NEW p \in Procesos, crear_pcb(p)
        PROVE  ColasSinRepetir' /\ \A q \in Procesos : Mueve(q)
    <2>1. ColasSinRepetir' /\ \A q : Esperas(q)' = Esperas(q)
      BY <1>1, <1>4, MismasEsperas DEF crear_pcb
    <2>2. ASSUME NEW q \in Procesos PROVE Mueve(q)
      <3>1. Veces(q, LISTA_NEW') = Veces(q, LISTA_NEW) + (IF q = p THEN 1 ELSE 0)
        BY <1>2, <1>4, VecesAgregar DEF crear_pcb, TiposDelKernel
      <3>2. consola'[q] = (IF q = p THEN "conectada" ELSE consola[q])
            /\ consola[p] = "sin_conexion"
        BY <1>2, <1>4 DEF crear_pcb, TiposDelKernel
      <3>3. UNCHANGED <<LISTA_READY, LISTA_EXEC, LISTA_BLOCKED, LISTA_EXIT>>
        BY <1>4 DEF crear_pcb
      <3> QED BY <1>1, <2>1, <3>1, <3>2, <3>3, Cuentas
    <2> QED BY <2>1, <2>2
  <1>5. ASSUME NEW p \in Procesos, sleep_IO(p)
        PROVE  ColasSinRepetir' /\ \A q \in Procesos : Mueve(q)
    <2>1. ColasSinRepetir' /\ \A q : Esperas(q)' = Esperas(q)
      BY <1>1, <1>5, MismasEsperas DEF sleep_IO
    <2>2. ASSUME NEW q \in Procesos PROVE Mueve(q)
      <3>1. Veces(q, LISTA_READY') = Veces(q, LISTA_READY) + (IF q = p THEN 1 ELSE 0)
        BY <1>2, <1>5, VecesAgregar DEF sleep_IO, pasar_a_ready, TiposDelKernel
      <3>2. LISTA_BLOCKED'[q] = LISTA_BLOCKED[q] - (IF q = p THEN 1 ELSE 0)
        BY <1>2, <1>5 DEF sleep_IO, TiposDelKernel
      <3>3. UNCHANGED <<LISTA_NEW, LISTA_EXEC, LISTA_EXIT, consola>>
        BY <1>5 DEF sleep_IO
      <3> QED BY <1>1, <2>1, <3>1, <3>2, <3>3, Cuentas
    <2> QED BY <2>1, <2>2
  <1>6. ASSUME agregar_pcb_a_ready
        PROVE  ColasSinRepetir' /\ \A q \in Procesos : Mueve(q)
    <2>1. ColasSinRepetir' /\ \A q : Esperas(q)' = Esperas(q)
      BY <1>1, <1>6, MismasEsperas DEF agregar_pcb_a_ready
    <2>2. LISTA_NEW # <<>> /\ Head(LISTA_NEW) \in Procesos
      BY <1>1, <1>6, SacarDeCola
      DEF agregar_pcb_a_ready, IInv, TiposDelKernel, ListasConPermiso, PermisosDeNew
    <2>3. ASSUME NEW q \in Procesos PROVE Mueve(q)
      <3>1. Veces(q, LISTA_NEW') = Veces(q, LISTA_NEW) - (IF q = Head(LISTA_NEW) THEN 1 ELSE 0)
        BY <1>2, <1>6, <2>2, VecesSacar DEF agregar_pcb_a_ready, TiposDelKernel
      <3>2. Veces(q, LISTA_READY') = Veces(q, LISTA_READY) + (IF q = Head(LISTA_NEW) THEN 1 ELSE 0)
        BY <1>2, <1>6, <2>2, VecesAgregar DEF agregar_pcb_a_ready, pasar_a_ready, TiposDelKernel
      <3>3. UNCHANGED <<LISTA_EXEC, LISTA_BLOCKED, LISTA_EXIT, consola>>
        BY <1>6 DEF agregar_pcb_a_ready
      <3> QED BY <1>1, <2>1, <3>1, <3>2, <3>3, Cuentas
    <2> QED BY <2>1, <2>3
  <1>7. ASSUME NEW p \in Procesos, Despachar(p)
        PROVE  ColasSinRepetir' /\ \A q \in Procesos : Mueve(q)
    <2>1. ColasSinRepetir' /\ \A q : Esperas(q)' = Esperas(q)
      BY <1>1, <1>7, MismasEsperas DEF Despachar
    <2>2. /\ LISTA_READY # <<>> /\ p = Head(LISTA_READY)
          /\ LISTA_READY' = Tail(LISTA_READY)
      BY <1>7 DEF Despachar, algoritmo_fifo
    <2>3. ASSUME NEW q \in Procesos PROVE Mueve(q)
      <3>1. Veces(q, LISTA_READY') = Veces(q, LISTA_READY) - (IF q = p THEN 1 ELSE 0)
        BY <1>2, <2>2, VecesSacar DEF TiposDelKernel
      <3>2. Veces(q, LISTA_EXEC') = Veces(q, LISTA_EXEC) + (IF q = p THEN 1 ELSE 0)
        BY <1>2, <1>7, VecesAgregar DEF Despachar, TiposDelKernel
      <3>3. UNCHANGED <<LISTA_NEW, LISTA_BLOCKED, LISTA_EXIT, consola>>
        BY <1>7 DEF Despachar
      <3> QED BY <1>1, <2>1, <3>1, <3>2, <3>3, Cuentas
    <2> QED BY <2>1, <2>3
  <1>8. ASSUME NEW p \in Procesos, IO(p)
        PROVE  ColasSinRepetir' /\ \A q \in Procesos : Mueve(q)
    <2>1. ColasSinRepetir' /\ \A q : Esperas(q)' = Esperas(q)
      BY <1>1, <1>8, MismasEsperas DEF IO
    <2>2. ASSUME NEW q \in Procesos PROVE Mueve(q)
      <3>1. /\ Veces(q, LISTA_EXEC) = (IF q = p THEN 1 ELSE 0)
            /\ Veces(q, LISTA_EXEC') = 0
        BY <1>1, <1>8, SoloEnExecSiempre DEF IO, pcb_ejecutando_remove
      <3>2. LISTA_BLOCKED'[q] = LISTA_BLOCKED[q] + (IF q = p THEN 1 ELSE 0)
        BY <1>2, <1>8 DEF IO, TiposDelKernel
      <3>3. UNCHANGED <<LISTA_NEW, LISTA_READY, LISTA_EXIT, consola>>
        BY <1>8 DEF IO
      <3> QED BY <1>1, <2>1, <3>1, <3>2, <3>3, Cuentas
    <2> QED BY <2>1, <2>2
  <1>9. ASSUME NEW p \in Procesos, YIELD(p)
        PROVE  ColasSinRepetir' /\ \A q \in Procesos : Mueve(q)
    <2>1. ColasSinRepetir' /\ \A q : Esperas(q)' = Esperas(q)
      BY <1>1, <1>9, MismasEsperas DEF YIELD
    <2>2. ASSUME NEW q \in Procesos PROVE Mueve(q)
      <3>1. /\ Veces(q, LISTA_EXEC) = (IF q = p THEN 1 ELSE 0)
            /\ Veces(q, LISTA_EXEC') = 0
        BY <1>1, <1>9, SoloEnExecSiempre DEF YIELD, pcb_ejecutando_remove
      <3>2. Veces(q, LISTA_READY') = Veces(q, LISTA_READY) + (IF q = p THEN 1 ELSE 0)
        BY <1>2, <1>9, VecesAgregar DEF YIELD, pasar_a_ready, TiposDelKernel
      <3>3. UNCHANGED <<LISTA_NEW, LISTA_BLOCKED, LISTA_EXIT, consola>>
        BY <1>9 DEF YIELD
      <3> QED BY <1>1, <2>1, <3>1, <3>2, <3>3, Cuentas
    <2> QED BY <2>1, <2>2
  <1>10. ASSUME NEW p \in Procesos, NEW razon \in Razones,
                Devuelve(p), terminar_consola(p, razon)
         PROVE  ColasSinRepetir' /\ \A q \in Procesos : Mueve(q)
    BY <1>1, <1>10, DevuelveCorre, TerminarMueve DEF MueveUno, Conectado
  <1>11. ASSUME NEW p \in Procesos, NEW r \in Recursos, WaitSinInstancias(p, r)
         PROVE  ColasSinRepetir' /\ \A q \in Procesos : Mueve(q)
    <2>1. Esperas(p) = 0
      BY <1>1, <1>11, SoloEnExecSiempre DEF WaitSinInstancias
    <2>2. /\ ColasSinRepetir'
          /\ \A q \in Procesos : Esperas(q)' = Esperas(q) + (IF q = p THEN 1 ELSE 0)
      BY <1>1, <1>2, <1>11, <2>1, EncolarEspera DEF WaitSinInstancias
    <2>3. ASSUME NEW q \in Procesos PROVE Mueve(q)
      <3>1. /\ Veces(q, LISTA_EXEC) = (IF q = p THEN 1 ELSE 0)
            /\ Veces(q, LISTA_EXEC') = 0
        BY <1>1, <1>11, SoloEnExecSiempre DEF WaitSinInstancias, pcb_ejecutando_remove
      <3>2. UNCHANGED <<LISTA_NEW, LISTA_READY, LISTA_BLOCKED, LISTA_EXIT, consola>>
        BY <1>11 DEF WaitSinInstancias
      <3> QED BY <1>1, <2>2, <3>1, <3>2, Cuentas
    <2> QED BY <2>2, <2>3
  <1>12. ASSUME NEW p \in Procesos, NEW r \in Recursos, SIGNAL(p, r), SignalConEspera(p, r)
         PROVE  ColasSinRepetir' /\ \A q \in Procesos : Mueve(q)
    <2>1. PICK d \in Procesos :
          /\ lista_block[r] # <<>> /\ d = Head(lista_block[r])
          /\ lista_block' = [lista_block EXCEPT ![r] = Tail(@)]
          /\ LISTA_READY' = Append(LISTA_READY, d)
          /\ UNCHANGED <<LISTA_NEW, LISTA_EXEC, LISTA_BLOCKED, LISTA_EXIT, consola>>
      BY <1>2, <1>12, SacarDeCola DEF SIGNAL, SignalConEspera, pasar_a_ready, TiposDelKernel
    <2>2. /\ ColasSinRepetir'
          /\ \A q \in Procesos : Esperas(q)' = Esperas(q) - (IF q = d THEN 1 ELSE 0)
      BY <1>1, <1>2, <2>1, DesencolarEspera
    <2>3. ASSUME NEW q \in Procesos PROVE Mueve(q)
      <3>1. LISTA_READY' = Append(LISTA_READY, d) /\ LISTA_READY \in Seq(Procesos)
        BY <1>2, <2>1 DEF TiposDelKernel
      <3>2. Veces(q, LISTA_READY') = Veces(q, LISTA_READY) + (IF q = d THEN 1 ELSE 0)
        BY <3>1, VecesAgregar
      <3>3. UNCHANGED <<LISTA_NEW, LISTA_EXEC, LISTA_BLOCKED, LISTA_EXIT, consola>>
        BY <2>1
      <3>4. Apariciones(q)' = Apariciones(q)
        <4>1. Esperas(q)' = Esperas(q) - (IF q = d THEN 1 ELSE 0)
          BY <2>2
        <4>2. Esperas(q)' + Veces(q, LISTA_READY') = Esperas(q) + Veces(q, LISTA_READY)
          BY <1>1, <3>2, <4>1, Cuentas
        <4>3. Esperas(q)' \in Int
          BY <1>1, <4>1, Cuentas
        <4>4. /\ Veces(q, LISTA_NEW') = Veces(q, LISTA_NEW)
              /\ Veces(q, LISTA_EXEC') = Veces(q, LISTA_EXEC)
              /\ LISTA_BLOCKED'[q] = LISTA_BLOCKED[q]
              /\ q \in LISTA_EXIT' <=> q \in LISTA_EXIT
          BY <3>3
        <4> QED BY <1>1, <4>2, <4>3, <4>4, Cuentas
      <3>5. Apariciones(q) \in Int
        BY <1>1, Cuentas
      <3> QED BY <3>3, <3>4, <3>5
    <2> QED BY <2>2, <2>3
  \* The other steps move no process.
  <1>13. ASSUME UNCHANGED <<listas, lista_block, consola>>
         PROVE  ColasSinRepetir' /\ \A q \in Procesos : Mueve(q)
    <2>1. ColasSinRepetir' /\ \A q : Esperas(q)' = Esperas(q)
      BY <1>1, <1>13, MismasEsperas
    <2> QED BY <1>1, <1>13, <2>1, Cuentas
  <1>14. CASE EsperarNew \/ EsperarReady \/ EnviarContexto \/ FinDeTerminar \/ UNCHANGED vars
    BY <1>13, <1>14 DEF EsperarNew, EsperarReady, EnviarContexto, FinDeTerminar, vars
  <1>15. ASSUME NEW p \in Procesos, NEW r \in Recursos,
                WaitConInstancias(p, r) \/ (SIGNAL(p, r) /\ SignalSinEspera(p, r))
         PROVE  ColasSinRepetir' /\ \A q \in Procesos : Mueve(q)
    BY <1>13, <1>15 DEF WaitConInstancias, SIGNAL, SignalSinEspera
  <1> HIDE DEF Mueve
  <1> QED BY <1>4, <1>5, <1>6, <1>7, <1>8, <1>9, <1>10, <1>11, <1>12, <1>14, <1>15
          DEF Next, Planificadores, Handler, EXIT, SEG_FAULT, RecursoInexistente,
              Razones, SIGNAL

LEMMA PasoIEstados ==
  ASSUME Algoritmo = "FIFO", IEstados, [Next]_vars
  PROVE  IEstados'
  <1>1. IInv /\ IInv' /\ UnSoloEstado /\ ColasSinRepetir /\ SinRepetir
    BY PasoIInv, UnoEsSinRepetir DEF IEstados
  <1>2. ColasSinRepetir' /\ \A q \in Procesos : MueveUno(q)
    BY <1>1, PasoMueve
  <1>3. UnSoloEstado'
    <2> SUFFICES ASSUME NEW q \in Procesos
                 PROVE  Apariciones(q)' = Conectado(q)'
      BY DEF UnSoloEstado, Conectado
    <2>1. Apariciones(q) = Conectado(q)
      BY <1>1 DEF UnSoloEstado, Conectado
    <2> QED BY <1>2, <2>1 DEF MueveUno, Conectado
  <1> QED BY <1>1, <1>2, <1>3 DEF IEstados

\* A process is in one list of the kernel from the moment it connects, whatever
\* the order in which planners, handlers and sleeps move it (estados.c).
THEOREM CadaUnoEnSuLista ==
  ASSUME Algoritmo = "FIFO"
  PROVE  Spec => []UnSoloEstado
  <1>1. IEstados => UnSoloEstado
    BY DEF IEstados
  <1>2. IEstados /\ [Next]_vars => IEstados'
    BY PasoIEstados
  <1> QED BY <1>1, <1>2, InicioIEstados, PTL DEF Spec

-----------------------------------------------------------------------------
(* The multiprogramming degree.                                            *)

\* The processes that have left LISTA_NEW and have not ended.
Vivos ==
  {p \in Procesos : /\ consola[p] # "sin_conexion"
                    /\ Veces(p, LISTA_NEW) = 0
                    /\ p \notin LISTA_EXIT}

LEMMA AdmitidosSonVivos == IEstados => Admitidos = Vivos
  <1> SUFFICES ASSUME IEstados, NEW p \in Procesos
               PROVE  p \in Admitidos <=> p \in Vivos
    BY DEF Admitidos, Vivos
  <1> USE DEF IEstados
  <1>1. Apariciones(p) = IF consola[p] = "sin_conexion" THEN 0 ELSE 1
    BY DEF UnSoloEstado
  <1>2. /\ Veces(p, LISTA_NEW) \in Nat /\ Veces(p, LISTA_READY) \in Nat
        /\ Veces(p, LISTA_EXEC) \in Nat /\ LISTA_BLOCKED[p] \in Nat
        /\ Esperas(p) \in Nat
        /\ Apariciones(p) =
             Veces(p, LISTA_NEW) + Veces(p, LISTA_READY) + Veces(p, LISTA_EXEC)
               + LISTA_BLOCKED[p] + (IF p \in LISTA_EXIT THEN 1 ELSE 0) + Esperas(p)
    BY CuentasAhora
  <1>3. /\ Aparece(p, LISTA_READY) <=> Veces(p, LISTA_READY) # 0
        /\ Aparece(p, LISTA_EXEC) <=> Veces(p, LISTA_EXEC) # 0
    BY VecesTipo DEF IInv, TiposDelKernel
  <1>4. p \in EnEspera <=> Esperas(p) # 0
    BY EsperasTipo DEF EnEspera
  <1>5. p \in Admitidos <=> \/ Veces(p, LISTA_READY) # 0 \/ Veces(p, LISTA_EXEC) # 0
                            \/ LISTA_BLOCKED[p] # 0 \/ Esperas(p) # 0
    BY <1>2, <1>3, <1>4 DEF Admitidos
  <1>6. p \in Vivos <=> /\ consola[p] # "sin_conexion"
                        /\ Veces(p, LISTA_NEW) = 0 /\ p \notin LISTA_EXIT
    BY DEF Vivos
  <1>7. CASE consola[p] = "sin_conexion"
    <2>1. Apariciones(p) = 0
      BY <1>1, <1>7
    <2>2. /\ Veces(p, LISTA_READY) = 0 /\ Veces(p, LISTA_EXEC) = 0
          /\ LISTA_BLOCKED[p] = 0 /\ Esperas(p) = 0
      <3> DEFINE a == Veces(p, LISTA_NEW)
                 b == Veces(p, LISTA_READY)
                 c == Veces(p, LISTA_EXEC)
                 d == LISTA_BLOCKED[p]
                 e == IF p \in LISTA_EXIT THEN 1 ELSE 0
                 f == Esperas(p)
      <3>1. /\ a \in Nat /\ b \in Nat /\ c \in Nat /\ d \in Nat /\ e \in Nat /\ f \in Nat
            /\ a + b + c + d + e + f = 0
        BY <1>2, <2>1
      <3> HIDE DEF a, b, c, d, e, f
      <3>2. b = 0 /\ c = 0 /\ d = 0 /\ f = 0
        BY <3>1
      <3> QED BY <3>2 DEF b, c, d, f
    <2> QED BY <1>5, <1>6, <1>7, <2>2
  <1>8. CASE consola[p] # "sin_conexion"
    <2>1. Apariciones(p) = 1
      BY <1>1, <1>8
    <2>2. CASE p \in LISTA_EXIT
      BY <1>2, <1>5, <1>6, <2>1, <2>2
    <2>3. CASE p \notin LISTA_EXIT
      <3>1. Veces(p, LISTA_NEW) + Veces(p, LISTA_READY) + Veces(p, LISTA_EXEC)
              + LISTA_BLOCKED[p] + Esperas(p) = 1
        BY <1>2, <2>1, <2>3
      <3> QED BY <1>2, <1>5, <1>6, <1>8, <2>3, <3>1
    <2> QED BY <2>2, <2>3
  <1> QED BY <1>7, <1>8

LEMMA VivosFinitos ==
  IsFiniteSet(Vivos) /\ Cardinality(Vivos) \in Nat
  <1>1. Vivos \subseteq Procesos
    BY DEF Vivos
  <1> QED BY <1>1, KernelAssumption, FS_Subset, FS_CardinalityType

Terminando == IF pc_general = "espera_memoria" THEN 1 ELSE 0

IGrado == IEstados /\ multiprogramacion + Cardinality(Vivos) + Terminando = Grado

LEMMA InicioIGrado == Init => IGrado
  <1> SUFFICES ASSUME Init PROVE multiprogramacion + Cardinality(Vivos) + Terminando = Grado
    BY InicioIEstados DEF IGrado
  <1>1. Vivos = {}
    BY DEF Init, Vivos
  <1> QED BY <1>1, FS_EmptySet, KernelAssumption DEF Init, Terminando

LEMMA PasoIGrado ==
  ASSUME Algoritmo = "FIFO", IGrado, [Next]_vars
  PROVE  IGrado'
  <1>1. IEstados /\ IEstados'
    BY PasoIEstados DEF IGrado
  <1>2. /\ IInv /\ IInv' /\ UnSoloEstado /\ UnSoloEstado'
        /\ TiposDelKernel /\ TiposDelKernel'
    BY <1>1 DEF IEstados, IInv
  <1> DEFINE Suma == multiprogramacion + Cardinality(Vivos) + Terminando
  <1>3. Suma = Grado
    BY DEF IGrado
  <1> SUFFICES Suma' = Grado
    BY <1>1 DEF IGrado
  <1>4. /\ multiprogramacion \in Nat /\ multiprogramacion' \in Nat
        /\ IsFiniteSet(Vivos) /\ Cardinality(Vivos) \in Nat
        /\ Terminando \in {0, 1}
    BY <1>2, VivosFinitos DEF TiposDelKernel, Terminando
  <1> USE DEF listas, semaforos, hilos
  <1>5. ASSUME NEW p \in Procesos, crear_pcb(p)
        PROVE  Suma' = Grado
    <2>1. /\ Veces(p, LISTA_NEW') # 0 /\ consola[p] = "sin_conexion"
          /\ \A q \in Procesos : q # p =>
               Veces(q, LISTA_NEW') = Veces(q, LISTA_NEW) /\ consola'[q] = consola[q]
      <3>1. ASSUME NEW q \in Procesos
            PROVE  /\ Veces(q, LISTA_NEW') = Veces(q, LISTA_NEW) + (IF q = p THEN 1 ELSE 0)
                   /\ Veces(q, LISTA_NEW) \in Nat
        BY <1>2, <1>5, VecesAgregar, VecesTipo DEF crear_pcb, TiposDelKernel
      <3> QED BY <1>2, <1>5, <3>1 DEF crear_pcb, TiposDelKernel
    <2>2. Vivos' = Vivos
      BY <1>5, <2>1 DEF Vivos, crear_pcb
    <2> QED BY <1>3, <1>5, <2>2 DEF crear_pcb, Terminando
  <1>6. ASSUME agregar_pcb_a_ready
        PROVE  Suma' = Grado
    <2>1. PICK h \in Procesos : h = Head(LISTA_NEW) /\ LISTA_NEW # <<>>
      BY <1>2, <1>6, SacarDeCola
      DEF agregar_pcb_a_ready, IInv, TiposDelKernel, ListasConPermiso, PermisosDeNew
    <2>2. ASSUME NEW q \in Procesos
          PROVE  /\ Veces(q, LISTA_NEW') = Veces(q, LISTA_NEW) - (IF q = h THEN 1 ELSE 0)
                 /\ Veces(q, LISTA_NEW) \in Nat /\ Veces(q, LISTA_NEW') \in Nat
      BY <1>2, <1>6, <2>1, VecesSacar, VecesTipo DEF agregar_pcb_a_ready, TiposDelKernel
    <2>3. Veces(h, LISTA_NEW) >= 1
      BY <2>2
    <2>4. Apariciones(h) = IF consola[h] = "sin_conexion" THEN 0 ELSE 1
      BY <1>2 DEF UnSoloEstado
    <2>5. /\ Veces(h, LISTA_READY) \in Nat /\ Veces(h, LISTA_EXEC) \in Nat
          /\ LISTA_BLOCKED[h] \in Nat /\ Esperas(h) \in Nat
          /\ Apariciones(h) =
               Veces(h, LISTA_NEW) + Veces(h, LISTA_READY) + Veces(h, LISTA_EXEC)
                 + LISTA_BLOCKED[h] + (IF h \in LISTA_EXIT THEN 1 ELSE 0) + Esperas(h)
      BY <1>2, CuentasAhora
    <2>6. Veces(h, LISTA_NEW) = 1 /\ consola[h] # "sin_conexion" /\ h \notin LISTA_EXIT
      <3>1. Apariciones(h) >= 1
        BY <2>2, <2>3, <2>5
      <3>2. consola[h] # "sin_conexion" /\ Apariciones(h) = 1
        BY <2>4, <3>1
      <3> QED BY <2>2, <2>3, <2>5, <3>2
    <2>7. Vivos' = Vivos \cup {h} /\ h \notin Vivos
      BY <1>6, <2>2, <2>6 DEF Vivos, agregar_pcb_a_ready
    <2>8. Cardinality(Vivos') = Cardinality(Vivos) + 1
      BY <1>4, <2>7, FS_AddElement
    <2>9. multiprogramacion' = multiprogramacion - 1 /\ Terminando' = Terminando
      BY <1>6 DEF agregar_pcb_a_ready, Terminando
    <2> QED BY <1>3, <1>4, <2>8, <2>9
  <1>7. ASSUME NEW p \in Procesos, NEW razon \in Razones,
               Devuelve(p), terminar_consola(p, razon)
        PROVE  Suma' = Grado
    <2>1. p \notin LISTA_EXIT /\ consola[p] # "sin_conexion" /\ Veces(p, LISTA_NEW) = 0
      <3>1. /\ Veces(p, LISTA_EXEC) = 1
            /\ p \notin LISTA_EXIT /\ consola[p] # "sin_conexion"
        BY <1>2, <1>7, SoloEnExec
      <3>2. Apariciones(p) = 1
        BY <1>2, <3>1 DEF UnSoloEstado
      <3>3. /\ Veces(p, LISTA_NEW) \in Nat /\ Veces(p, LISTA_READY) \in Nat
            /\ LISTA_BLOCKED[p] \in Nat /\ Esperas(p) \in Nat
            /\ Apariciones(p) =
                 Veces(p, LISTA_NEW) + Veces(p, LISTA_READY) + Veces(p, LISTA_EXEC)
                   + LISTA_BLOCKED[p] + (IF p \in LISTA_EXIT THEN 1 ELSE 0) + Esperas(p)
        BY <1>2, CuentasAhora
      <3> QED BY <3>1, <3>2, <3>3
    <2>2. /\ LISTA_NEW' = LISTA_NEW /\ LISTA_EXIT' = LISTA_EXIT \cup {p}
          /\ consola' = [consola EXCEPT ![p] = razon]
          /\ razon # "sin_conexion"
      BY <1>7 DEF terminar_consola, Razones
    <2>3. Vivos' = Vivos \ {p} /\ p \in Vivos
      BY <1>2, <2>1, <2>2 DEF Vivos, TiposDelKernel
    <2>4. Cardinality(Vivos') = Cardinality(Vivos) - 1
      BY <1>4, <2>3, FS_RemoveElement
    <2>5. multiprogramacion' = multiprogramacion /\ Terminando = 0 /\ Terminando' = 1
      BY <1>7 DEF terminar_consola, Devuelve, Terminando
    <2> QED BY <1>3, <1>4, <2>4, <2>5
  <1>8. CASE FinDeTerminar
    <2>1. Vivos' = Vivos
      BY <1>8 DEF FinDeTerminar, Vivos
    <2>2. multiprogramacion' = multiprogramacion + 1 /\ Terminando = 1 /\ Terminando' = 0
      BY <1>8 DEF FinDeTerminar, LiberarCPU, Terminando
    <2> QED BY <1>3, <1>4, <2>1, <2>2
  \* The other steps neither admit nor end a process.
  <1>9. ASSUME UNCHANGED <<LISTA_NEW, LISTA_EXIT, consola, multiprogramacion>>,
               Terminando' = Terminando
        PROVE  Suma' = Grado
    <2>1. Vivos' = Vivos
      BY <1>9 DEF Vivos
    <2> QED BY <1>3, <1>9, <2>1
  <1>10. CASE EsperarNew \/ EsperarReady \/ EnviarContexto \/ UNCHANGED vars
    BY <1>9, <1>10 DEF EsperarNew, EsperarReady, EnviarContexto, Terminando, vars
  <1>11. ASSUME NEW p \in Procesos, sleep_IO(p) \/ Despachar(p)
         PROVE  Suma' = Grado
    BY <1>9, <1>11 DEF sleep_IO, Despachar, Terminando
  <1>12. ASSUME NEW p \in Procesos, IO(p) \/ YIELD(p)
         PROVE  Suma' = Grado
    BY <1>9, <1>12 DEF IO, YIELD, LiberarCPU, Devuelve, Terminando
  <1>13. ASSUME NEW p \in Procesos, NEW r \in Recursos,
                WaitConInstancias(p, r) \/ WaitSinInstancias(p, r) \/ SIGNAL(p, r)
         PROVE  Suma' = Grado
    BY <1>9, <1>13
    DEF WaitConInstancias, WaitSinInstancias, SIGNAL, LiberarCPU, devolver_ce_a_cpu,
        Devuelve, Terminando
  <1> HIDE DEF Suma
  <1> QED BY <1>5, <1>6, <1>7, <1>8, <1>10, <1>11, <1>12, <1>13
          DEF Next, Planificadores, Handler, EXIT, SEG_FAULT, RecursoInexistente, Razones

\* The admitted processes and the free slots of GRADO_MAX_MULTIPROGRAMACION always
\* add up to the degree: no end loses a slot, none returns it twice
\* (planificacion.c, terminar_consola).
THEOREM GradoConservado ==
  ASSUME Algoritmo = "FIFO"
  PROVE  Spec => []GradoRespetado
  <1>1. IGrado => GradoRespetado
    BY AdmitidosSonVivos DEF IGrado, GradoRespetado, Terminando
  <1>2. IGrado /\ [Next]_vars => IGrado'
    BY PasoIGrado
  <1> QED BY <1>1, <1>2, InicioIGrado, PTL DEF Spec
=============================================================================

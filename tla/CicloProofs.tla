----------------------------- MODULE CicloProofs -----------------------------
(* Under FIFO the threads and semaphores of Kernel implement the life      *)
(* cycle of CicloDeVida, for any number of processes, resources and slots. *)
(* Then the resources: under FIFO, the order in which those who wait are   *)
(* served and what a finished process keeps; under either algorithm, that  *)
(* no instance is lost.                                                    *)
EXTENDS KernelProofs

ejecutaC == IF LISTA_EXEC = <<>> THEN Nadie ELSE pcb_ejecutando

bloqueadosC == {p \in Procesos : LISTA_BLOCKED[p] > 0} \union EnEspera

PresentesC ==
  {LISTA_READY[i] : i \in DOMAIN LISTA_READY} \union bloqueadosC
    \union ({ejecutaC} \ {Nadie})

-----------------------------------------------------------------------------
(* The abstract state of a concrete one.                                   *)

\* Where a process is decides where it is not.
LEMMA UnLugar ==
  ASSUME IEstados, NEW p \in Procesos
  PROVE  /\ Aparece(p, LISTA_NEW) => ~Aparece(p, LISTA_READY)
         /\ Aparece(p, LISTA_EXEC) =>
              LISTA_BLOCKED[p] = 0 /\ \A r \in Recursos : ~Aparece(p, lista_block[r])
         /\ LISTA_BLOCKED[p] > 0 =>
              /\ LISTA_BLOCKED[p] = 1
              /\ \A r \in Recursos : ~Aparece(p, lista_block[r])
         /\ \A r \in Recursos : Aparece(p, lista_block[r]) => LISTA_BLOCKED[p] = 0
         /\ consola[p] = "sin_conexion" =>
              /\ ~Aparece(p, LISTA_NEW)
              /\ p \notin Admitidos
              /\ p \notin LISTA_EXIT
  <1> USE DEF IEstados
  <1> DEFINE a == Veces(p, LISTA_NEW)
             b == Veces(p, LISTA_READY)
             c == Veces(p, LISTA_EXEC)
             d == LISTA_BLOCKED[p]
             e == IF p \in LISTA_EXIT THEN 1 ELSE 0
             f == Esperas(p)
  <1>1. /\ a \in Nat /\ b \in Nat /\ c \in Nat /\ d \in Nat /\ e \in Nat /\ f \in Nat
        /\ a + b + c + d + e + f = IF consola[p] = "sin_conexion" THEN 0 ELSE 1
    <2>1. Apariciones(p) = IF consola[p] = "sin_conexion" THEN 0 ELSE 1
      BY DEF UnSoloEstado
    <2> QED BY <2>1, CuentasAhora
  <1>2. /\ a = 0 <=> ~Aparece(p, LISTA_NEW)
        /\ b = 0 <=> ~Aparece(p, LISTA_READY)
        /\ c = 0 <=> ~Aparece(p, LISTA_EXEC)
        /\ e = 0 <=> p \notin LISTA_EXIT
        /\ f = 0 <=> \A r \in Recursos : ~Aparece(p, lista_block[r])
    BY VecesTipo, EsperasTipo DEF IInv, TiposDelKernel
  <1>3. d = LISTA_BLOCKED[p]
    OBVIOUS
  <1> HIDE DEF a, b, c, d, e, f
  <1>4. /\ a # 0 => b = 0
        /\ c # 0 => d = 0 /\ f = 0
        /\ d > 0 => d = 1 /\ f = 0
        /\ f # 0 => d = 0
        /\ consola[p] = "sin_conexion" => a = 0 /\ b = 0 /\ c = 0 /\ d = 0 /\ e = 0 /\ f = 0
    BY <1>1
  <1>5. p \in Admitidos => b # 0 \/ c # 0 \/ d # 0 \/ f # 0
    BY <1>2, <1>3 DEF Admitidos, EnEspera
  <1> QED BY <1>2, <1>3, <1>4, <1>5

\* EsperasTipo, of the state after a step.
LEMMA EsperasPrima ==
  ASSUME NEW q
  PROVE  /\ Esperas(q)' \in Nat
         /\ Esperas(q)' = 0 <=> \A r \in Recursos : ~Aparece(q, lista_block'[r])
  <1>1. EsperaA(q)' \subseteq Recursos
    BY DEF EsperaA
  <1>2. IsFiniteSet(EsperaA(q)')
    BY <1>1, FS_Subset, KernelAssumption
  <1>3. EsperaA(q)' = {} <=> \A r \in Recursos : ~Aparece(q, lista_block'[r])
    BY DEF EsperaA
  <1>4. Esperas(q)' = Cardinality(EsperaA(q)')
    BY DEF Esperas
  <1> QED BY <1>2, <1>3, <1>4, FS_EmptySet, FS_CardinalityType

\* A process that waits does so for one resource, and it has not ended.
LEMMA EsperaUna ==
  ASSUME IEstados, NEW p \in Procesos, Esperas(p) # 0
  PROVE  Esperas(p) = 1 /\ p \notin LISTA_EXIT
  <1> DEFINE a == Veces(p, LISTA_NEW)
             b == Veces(p, LISTA_READY)
             c == Veces(p, LISTA_EXEC)
             d == LISTA_BLOCKED[p]
             e == IF p \in LISTA_EXIT THEN 1 ELSE 0
             f == Esperas(p)
  <1>1. Apariciones(p) \in {0, 1}
    BY DEF IEstados, UnSoloEstado
  <1>2. /\ a \in Nat /\ b \in Nat /\ c \in Nat /\ d \in Nat /\ e \in Nat /\ f \in Nat
        /\ a + b + c + d + e + f = Apariciones(p)
    BY CuentasAhora DEF IEstados
  <1>3. f # 0
    OBVIOUS
  <1> HIDE DEF a, b, c, d, e, f
  <1>4. f = 1 /\ e = 0
    BY <1>1, <1>2, <1>3
  <1> QED BY <1>4 DEF e, f

\* LISTA_EXEC is empty or has one entry.
LEMMA EjecutaUno ==
  ASSUME IInv
  PROVE  \/ LISTA_EXEC = <<>> /\ ejecutaC = Nadie /\ \A p : ~Aparece(p, LISTA_EXEC)
         \/ /\ LISTA_EXEC # <<>> /\ ejecutaC \in Procesos /\ ejecutaC = pcb_ejecutando
            /\ \A p : Aparece(p, LISTA_EXEC) <=> p = ejecutaC
  <1>1. LISTA_EXEC \in Seq(Procesos) /\ Len(LISTA_EXEC) \in {0, 1}
    <2>1. LISTA_EXEC \in Seq(Procesos) /\ Len(LISTA_EXEC) \in Nat /\ CPUVacia \in Nat
      BY DEF IInv, TiposDelKernel
    <2>2. TestigoCPU
      BY DEF IInv, CPUExclusiva
    <2>3. \A n, m \in Nat : \A k \in {0, 1} : n + m + k = 1 => m \in {0, 1}
      OBVIOUS
    <2>4. (IF pc_general = "espera_memoria" THEN 1 ELSE 0) \in {0, 1}
      OBVIOUS
    <2> QED BY <2>1, <2>2, <2>3, <2>4 DEF TestigoCPU
  <1>2. CASE LISTA_EXEC = <<>>
    BY <1>2 DEF ejecutaC, Aparece
  <1>3. CASE LISTA_EXEC # <<>>
    <2>1. Len(LISTA_EXEC) = 1
      BY <1>1, <1>3, ColaVacia
    <2>2. /\ Head(LISTA_EXEC) \in Procesos /\ DOMAIN LISTA_EXEC = {1}
          /\ Head(LISTA_EXEC) = LISTA_EXEC[1]
      BY <1>1, <1>3, <2>1
    <2> QED BY <1>3, <2>2 DEF ejecutaC, pcb_ejecutando, Aparece
  <1> QED BY <1>2, <1>3

\* The processes present in the life cycle are those that hold a slot.
LEMMA PresentesSonAdmitidos ==
  ASSUME IInv
  PROVE  PresentesC = Admitidos
  <1>1. /\ LISTA_READY \in Seq(Procesos)
        /\ \A p : Aparece(p, LISTA_READY) <=> p \in {LISTA_READY[i] : i \in DOMAIN LISTA_READY}
        /\ {LISTA_READY[i] : i \in DOMAIN LISTA_READY} \subseteq Procesos
    BY DEF IInv, TiposDelKernel, Aparece
  <1>2. \A p : p \in {ejecutaC} \ {Nadie} <=> Aparece(p, LISTA_EXEC) /\ p \in Procesos
    BY EjecutaUno, KernelAssumption
  <1> QED BY <1>1, <1>2 DEF PresentesC, Admitidos, bloqueadosC, EnEspera

-----------------------------------------------------------------------------
(* The steps.                                                              *)

\* What the operators of the life cycle are, of the concrete state.
LEMMA EstadosDelCiclo ==
  /\ Ciclo!Presentes = PresentesC
  /\ Ciclo!Elementos(LISTA_NEW) = {LISTA_NEW[i] : i \in DOMAIN LISTA_NEW}
  BY DEF Ciclo!Presentes, Ciclo!Elementos, PresentesC, bloqueadosC, ejecutaC

LEMMA MismoCardinal ==
  ASSUME NEW S
  PROVE  Ciclo!Cardinality(S) = Cardinality(S)
  BY DEF Ciclo!Cardinality, Cardinality

LEMMA InicioCiclo == Init => Ciclo!Init
  <1>1. Init => EnEspera = {}
    BY DEF Init, EnEspera, Aparece
  <1> QED BY <1>1 DEF Init, Ciclo!Init

\* A step that changes none of the lists changes nothing of the life cycle.
LEMMA PasoOculto ==
  ASSUME UNCHANGED <<LISTA_NEW, LISTA_READY, LISTA_EXEC, LISTA_BLOCKED, LISTA_EXIT,
                     lista_block>>
  PROVE  UNCHANGED Ciclo!estados
  BY DEF Ciclo!estados, EnEspera, pcb_ejecutando

\* Who waits for a resource after a step that leaves the queues alone.
LEMMA MismaEspera == UNCHANGED lista_block => EnEspera' = EnEspera
  BY DEF EnEspera

LEMMA PasoCiclo ==
  ASSUME Algoritmo = "FIFO", IGrado, IGrado', [Next]_vars
  PROVE  [Ciclo!Next]_Ciclo!estados
  <1>1. IEstados /\ IInv /\ IInv' /\ UnSoloEstado /\ TiposDelKernel /\ TiposDelKernel'
    BY DEF IGrado, IEstados, IInv
  <1> USE DEF listas, semaforos, recursos, hilos
  <1>2. ASSUME NEW p \in Procesos, crear_pcb(p)
        PROVE  Ciclo!Next
    <2>1. /\ p \notin Admitidos /\ ~Aparece(p, LISTA_NEW) /\ p \notin LISTA_EXIT
      BY <1>1, <1>2, UnLugar DEF crear_pcb
    <2>2. p \notin Ciclo!Presentes \union Ciclo!Elementos(LISTA_NEW) \union LISTA_EXIT
      BY <1>1, <2>1, EstadosDelCiclo, PresentesSonAdmitidos DEF Aparece
    <2>3. EnEspera' = EnEspera
      BY <1>2, MismaEspera DEF crear_pcb
    <2>4. Ciclo!Llegar(p)
      BY <1>2, <2>2, <2>3 DEF Ciclo!Llegar, crear_pcb, pcb_ejecutando
    <2> QED BY <2>4 DEF Ciclo!Next
  <1>3. ASSUME agregar_pcb_a_ready
        PROVE  Ciclo!Next
    <2>1. LISTA_NEW # <<>>
      BY <1>1, <1>3 DEF agregar_pcb_a_ready, TiposDelKernel, IInv, ListasConPermiso, PermisosDeNew
    <2>2. Cardinality(Ciclo!Presentes) < Grado
      <3>1. Ciclo!Presentes = Vivos
        BY <1>1, EstadosDelCiclo, PresentesSonAdmitidos, AdmitidosSonVivos
      <3>2. multiprogramacion + Cardinality(Vivos) + Terminando = Grado
        BY DEF IGrado
      <3>3. /\ multiprogramacion \in Nat /\ multiprogramacion > 0
            /\ Terminando \in {0, 1} /\ Cardinality(Vivos) \in Nat
        BY <1>1, <1>3, VivosFinitos DEF TiposDelKernel, agregar_pcb_a_ready, Terminando
      <3> QED BY <3>1, <3>2, <3>3
    <2>3. EnEspera' = EnEspera
      BY <1>3, MismaEspera DEF agregar_pcb_a_ready
    <2>4. /\ LISTA_NEW' = Tail(LISTA_NEW)
          /\ LISTA_READY' = Append(LISTA_READY, Head(LISTA_NEW))
          /\ UNCHANGED <<LISTA_EXEC, LISTA_BLOCKED, LISTA_EXIT>>
      BY <1>3 DEF agregar_pcb_a_ready, pasar_a_ready
    <2>5. UNCHANGED <<ejecutaC, bloqueadosC, LISTA_EXIT>>
      BY <2>3, <2>4 DEF ejecutaC, bloqueadosC, pcb_ejecutando
    <2>6. Ciclo!Admitir
      BY <2>1, <2>2, <2>4, <2>5, MismoCardinal DEF Ciclo!Admitir, ejecutaC, bloqueadosC
    <2> QED BY <2>6 DEF Ciclo!Next
  <1>4. ASSUME NEW p \in Procesos, Despachar(p)
        PROVE  Ciclo!Next
    <2>1. LISTA_EXEC = <<>>
      BY <1>1, <1>4, ColaVacia DEF Despachar, IInv, TiposDelKernel, CPUExclusiva, TestigoCPU
    <2>2. /\ LISTA_READY # <<>> /\ p = Head(LISTA_READY)
          /\ LISTA_READY' = Tail(LISTA_READY)
          /\ LISTA_EXEC' = Append(<<>>, p)
      BY <1>4, <2>1 DEF Despachar, algoritmo_fifo
    <2>3. LISTA_EXEC' = <<p>>
      BY <2>2
    <2>4. LISTA_EXEC' # <<>> /\ Head(LISTA_EXEC') = p
      BY <2>3
    <2>5. EnEspera' = EnEspera
      BY <1>4, MismaEspera DEF Despachar
    <2>6. Ciclo!Elegir
      BY <1>4, <2>1, <2>2, <2>4, <2>5 DEF Ciclo!Elegir, Despachar, pcb_ejecutando
    <2> QED BY <2>6 DEF Ciclo!Next
  \* A handler finds its process in LISTA_EXEC.
  <1>5. ASSUME NEW p \in Procesos, Devuelve(p)
        PROVE  /\ LISTA_EXEC # <<>> /\ pcb_ejecutando = p /\ p # Nadie
               /\ Tail(LISTA_EXEC) = <<>>
    <2>1. LISTA_EXEC = <<p>> /\ Tail(LISTA_EXEC) = <<>>
      BY <1>1, <1>5, SoloEnExec
    <2> QED BY <2>1, KernelAssumption DEF pcb_ejecutando
  <1>6. ASSUME NEW p \in Procesos, YIELD(p)
        PROVE  Ciclo!Next
    <2>1. /\ LISTA_EXEC # <<>> /\ pcb_ejecutando = p /\ p # Nadie
          /\ LISTA_EXEC' = <<>>
      BY <1>5, <1>6 DEF YIELD, pcb_ejecutando_remove
    <2>2. EnEspera' = EnEspera
      BY <1>6, MismaEspera DEF YIELD
    <2>3. Ciclo!Ceder
      BY <1>6, <2>1, <2>2 DEF Ciclo!Ceder, YIELD, pasar_a_ready
    <2> QED BY <2>3 DEF Ciclo!Next
  <1>7. ASSUME NEW p \in Procesos, IO(p)
        PROVE  Ciclo!Next
    <2>1. /\ LISTA_EXEC # <<>> /\ pcb_ejecutando = p /\ p # Nadie
          /\ LISTA_EXEC' = <<>>
      BY <1>5, <1>7 DEF IO, pcb_ejecutando_remove
    <2>2. EnEspera' = EnEspera
      BY <1>7, MismaEspera DEF IO
    <2>3. {q \in Procesos : LISTA_BLOCKED'[q] > 0} =
            {q \in Procesos : LISTA_BLOCKED[q] > 0} \union {p}
      BY <1>1, <1>7 DEF IO, TiposDelKernel
    <2>4. Ciclo!Bloquear
      BY <1>7, <2>1, <2>2, <2>3 DEF Ciclo!Bloquear, IO
    <2> QED BY <2>4 DEF Ciclo!Next
  <1>8. ASSUME NEW p \in Procesos, NEW r \in Recursos, WaitSinInstancias(p, r)
        PROVE  Ciclo!Next
    <2>1. /\ LISTA_EXEC # <<>> /\ pcb_ejecutando = p /\ p # Nadie
          /\ LISTA_EXEC' = <<>>
      BY <1>5, <1>8 DEF WaitSinInstancias, pcb_ejecutando_remove
    <2>2. EnEspera' = EnEspera \union {p}
      <3>1. /\ lista_block \in [Recursos -> Seq(Procesos)]
            /\ lista_block' = [lista_block EXCEPT ![r] = Append(lista_block[r], p)]
        BY <1>1, <1>8 DEF WaitSinInstancias, TiposDelKernel
      <3>2. \A q : Aparece(q, Append(lista_block[r], p)) <=> (Aparece(q, lista_block[r]) \/ q = p)
        <4> DEFINE cola == lista_block[r]
                   n == Len(cola) + 1
        <4>1. cola \in Seq(Procesos)
          BY <3>1
        <4>2. /\ DOMAIN Append(cola, p) = DOMAIN cola \cup {n}
              /\ Append(cola, p)[n] = p
              /\ \A i \in DOMAIN cola : Append(cola, p)[i] = cola[i]
          BY <4>1
        <4> HIDE DEF n, cola
        <4>3. \A q : Aparece(q, Append(cola, p)) <=> (Aparece(q, cola) \/ q = p)
          BY <4>2 DEF Aparece
        <4> QED BY <4>3 DEF cola
      <3>3. \A q, x : x \in Recursos =>
              (Aparece(q, lista_block'[x]) <=> (Aparece(q, lista_block[x]) \/ (x = r /\ q = p)))
        BY <3>1, <3>2
      <3> QED BY <3>3 DEF EnEspera
    <2>3. Ciclo!Bloquear
      BY <1>8, <2>1, <2>2 DEF Ciclo!Bloquear, WaitSinInstancias
    <2> QED BY <2>3 DEF Ciclo!Next
  <1>9. ASSUME NEW p \in Procesos, NEW razon, Devuelve(p), terminar_consola(p, razon)
        PROVE  Ciclo!Next
    <2>1. /\ LISTA_EXEC # <<>> /\ pcb_ejecutando = p /\ p # Nadie
          /\ LISTA_EXEC' = <<>>
      BY <1>5, <1>9 DEF terminar_consola, pcb_ejecutando_remove
    <2>2. EnEspera' = EnEspera
      BY <1>9, MismaEspera DEF terminar_consola, devolverRecursosPCB
    <2>3. Ciclo!Terminar
      BY <1>9, <2>1, <2>2 DEF Ciclo!Terminar, terminar_consola
    <2> QED BY <2>3 DEF Ciclo!Next
  <1>10. ASSUME NEW p \in Procesos, sleep_IO(p)
         PROVE  Ciclo!Next
    <2>1. /\ EnEspera' = EnEspera /\ p \notin EnEspera
          /\ LISTA_BLOCKED[p] = 1
      <3>1. LISTA_BLOCKED[p] = 1 /\ \A r \in Recursos : ~Aparece(p, lista_block[r])
        BY <1>1, <1>10, UnLugar DEF sleep_IO
      <3> QED BY <1>10, <3>1, MismaEspera DEF sleep_IO, EnEspera
    <2>2. {q \in Procesos : LISTA_BLOCKED'[q] > 0} =
            {q \in Procesos : LISTA_BLOCKED[q] > 0} \ {p}
      BY <1>1, <1>10, <2>1 DEF sleep_IO, TiposDelKernel
    <2>3. Ciclo!Despertar(p)
      BY <1>10, <2>1, <2>2 DEF Ciclo!Despertar, sleep_IO, pasar_a_ready, pcb_ejecutando
    <2> QED BY <2>3 DEF Ciclo!Next
  <1>11. ASSUME NEW p \in Procesos, NEW r \in Recursos, SIGNAL(p, r), SignalConEspera(p, r)
         PROVE  Ciclo!Next
    <2>1. PICK d \in Procesos :
          /\ lista_block[r] # <<>> /\ d = Head(lista_block[r])
          /\ lista_block' = [lista_block EXCEPT ![r] = Tail(@)]
          /\ LISTA_READY' = Append(LISTA_READY, d)
          /\ UNCHANGED <<LISTA_NEW, LISTA_EXEC, LISTA_BLOCKED, LISTA_EXIT>>
      BY <1>1, <1>11, SacarDeCola DEF SIGNAL, SignalConEspera, pasar_a_ready, TiposDelKernel
    <2>2. /\ ColasSinRepetir
          /\ \A q \in Procesos :
               Esperas(q)' = Esperas(q) - (IF q = d THEN 1 ELSE 0)
      BY <1>1, <2>1, DesencolarEspera DEF IEstados
    <2>3. Aparece(d, lista_block[r])
      <3>1. \A cola \in Seq(Procesos) : cola # <<>> =>
              Head(cola) = cola[1] /\ 1 \in DOMAIN cola
        OBVIOUS
      <3>2. lista_block[r] \in Seq(Procesos)
        BY <1>1 DEF TiposDelKernel
      <3> QED BY <2>1, <3>1, <3>2 DEF Aparece
    <2>4. LISTA_BLOCKED[d] = 0 /\ d \in EnEspera
      BY <1>1, <2>3, UnLugar DEF EnEspera
    <2>5. EnEspera' = EnEspera \ {d}
      <3>1. ASSUME NEW q \in Procesos
            PROVE  /\ Esperas(q) \in Nat /\ Esperas(q)' \in Nat
                   /\ q \in EnEspera <=> Esperas(q) # 0
                   /\ q \in EnEspera' <=> Esperas(q)' # 0
        BY EsperasTipo, EsperasPrima DEF EnEspera
      <3>2. Esperas(d) = 1
        BY <1>1, <2>4, <3>1, EsperaUna
      <3>3. ASSUME NEW q \in Procesos
            PROVE  q \in EnEspera' <=> q \in EnEspera /\ q # d
        BY <2>2, <3>1, <3>2
      <3> QED BY <3>3 DEF EnEspera
    <2>6. Ciclo!Despertar(d)
      BY <2>1, <2>4, <2>5 DEF Ciclo!Despertar, pcb_ejecutando
    <2> QED BY <2>6 DEF Ciclo!Next
  \* The steps between two blocking calls that move no process are stutters.
  <1>12. CASE EsperarNew \/ EsperarReady \/ EnviarContexto \/ FinDeTerminar \/ UNCHANGED vars
    BY <1>12, PasoOculto
    DEF EsperarNew, EsperarReady, EnviarContexto, FinDeTerminar, vars
  <1>13. ASSUME NEW p \in Procesos, NEW r \in Recursos,
                WaitConInstancias(p, r) \/ (SIGNAL(p, r) /\ SignalSinEspera(p, r))
         PROVE  UNCHANGED Ciclo!estados
    BY <1>13, PasoOculto DEF WaitConInstancias, SIGNAL, SignalSinEspera
  <1> QED
    BY <1>2, <1>3, <1>4, <1>6, <1>7, <1>8, <1>9, <1>10, <1>11, <1>12, <1>13
    DEF Next, Planificadores, Handler, EXIT, SEG_FAULT, RecursoInexistente, SIGNAL

\* Planners, handlers, sleeps and queues together do what the life cycle of
\* CicloDeVida promises: arrivals are admitted in order and within the degree, one
\* process runs at a time, ready processes run in order, and no step of a thread
\* takes a process anywhere else (planificacion.c, estados.c, hilo_general.c).
THEOREM ImplementaElCiclo ==
  ASSUME Algoritmo = "FIFO"
  PROVE  Spec => Ciclo!Promesa
  <1>1. IGrado /\ [Next]_vars => IGrado'
    BY PasoIGrado
  <1>2. IGrado /\ IGrado' /\ [Next]_vars => [Ciclo!Next]_Ciclo!estados
    BY PasoCiclo
  <1> QED BY <1>1, <1>2, InicioIGrado, InicioCiclo, PTL DEF Spec, Ciclo!Promesa

-----------------------------------------------------------------------------
(* The resources.                                                          *)

\* The process that SIGNAL wakes waited in the queue: it is not the one that
\* signals, and it has not ended.
LEMMA Despertado ==
  ASSUME IEstados, IEstados', NEW p \in Procesos, NEW r \in Recursos,
         SIGNAL(p, r), SignalConEspera(p, r)
  PROVE  \E d \in Procesos :
           /\ d = Head(lista_block[r]) /\ d # p /\ d \notin LISTA_EXIT
           /\ lista_block' = [lista_block EXCEPT ![r] = Tail(@)]
           /\ LISTA_READY' = Append(LISTA_READY, d)
           /\ tablaDeRecursos' = [TablaAlDevolver(p, r) EXCEPT ![d][r] = @ + 1]
  <1>1. IInv /\ IInv' /\ UnSoloEstado /\ TiposDelKernel
    BY DEF IEstados, IInv
  <1>2. /\ lista_block[r] \in Seq(Procesos) /\ lista_block[r] # <<>>
        /\ Head(lista_block[r]) \in Procesos
    BY <1>1, SacarDeCola DEF SignalConEspera, TiposDelKernel
  <1>3. PICK d \in Procesos :
        /\ d = Head(lista_block[r])
        /\ lista_block' = [lista_block EXCEPT ![r] = Tail(@)]
        /\ LISTA_READY' = Append(LISTA_READY, d)
        /\ tablaDeRecursos' = [TablaAlDevolver(p, r) EXCEPT ![d][r] = @ + 1]
    BY <1>2 DEF SignalConEspera, pasar_a_ready
  <1>4. Aparece(d, lista_block[r])
    <2>1. \A cola \in Seq(Procesos) : cola # <<>> =>
            Head(cola) = cola[1] /\ 1 \in DOMAIN cola
      OBVIOUS
    <2> QED BY <1>2, <1>3, <2>1 DEF Aparece
  <1>5. Esperas(d) # 0
    BY <1>4, EsperasTipo
  <1>6. d # p
    BY <1>1, <1>5, SoloEnExec DEF SIGNAL
  <1>7. d \notin LISTA_EXIT
    BY <1>5, EsperaUna
  <1> QED BY <1>3, <1>6, <1>7

-----------------------------------------------------------------------------
(* The queues of the resources.                                            *)

Encola(r) == \E p \in Procesos : lista_block'[r] = Append(lista_block[r], p)

Avanza(r) ==
  LET p == Head(lista_block[r]) IN
  /\ lista_block'[r] = Tail(lista_block[r])
  /\ LISTA_READY' = Append(LISTA_READY, p)
  /\ tablaDeRecursos'[p][r] = tablaDeRecursos[p][r] + 1

LEMMA PasoDeEspera ==
  ASSUME Algoritmo = "FIFO", IEstados, IEstados', [Next]_vars,
         NEW r \in Recursos, lista_block'[r] # lista_block[r]
  PROVE  Encola(r) \/ Avanza(r)
  <1>1. TiposDelKernel
    BY DEF IEstados, IInv
  <1> USE DEF listas, recursos
  <1>2. ASSUME NEW p \in Procesos, NEW x \in Recursos, WaitSinInstancias(p, x)
        PROVE  Encola(r)
    <2>1. lista_block'[r] = Append(lista_block[r], p)
      BY <1>1, <1>2 DEF WaitSinInstancias, TiposDelKernel
    <2> QED BY <2>1 DEF Encola
  <1>3. ASSUME NEW p \in Procesos, NEW x \in Recursos, SIGNAL(p, x), SignalConEspera(p, x)
        PROVE  Avanza(r)
    <2>1. x = r
      BY <1>1, <1>3 DEF SignalConEspera, TiposDelKernel
    <2>2. PICK d \in Procesos :
          /\ d = Head(lista_block[r]) /\ d # p
          /\ lista_block' = [lista_block EXCEPT ![r] = Tail(@)]
          /\ LISTA_READY' = Append(LISTA_READY, d)
          /\ tablaDeRecursos' = [TablaAlDevolver(p, r) EXCEPT ![d][r] = @ + 1]
      BY <1>3, <2>1, Despertado
    <2>3. tablaDeRecursos'[d][r] = tablaDeRecursos[d][r] + 1
      BY <1>1, <2>2 DEF TablaAlDevolver, TiposDelKernel
    <2>4. lista_block'[r] = Tail(lista_block[r])
      BY <1>1, <2>2 DEF TiposDelKernel
    <2> QED BY <2>2, <2>3, <2>4 DEF Avanza
  \* No other step touches a queue.
  <1>4. CASE Planificadores \/ EnviarContexto \/ FinDeTerminar \/ UNCHANGED vars
    BY <1>4 DEF Planificadores, EsperarNew, agregar_pcb_a_ready, EsperarReady,
                Despachar, EnviarContexto, FinDeTerminar, vars
  <1>5. ASSUME NEW p \in Procesos,
               crear_pcb(p) \/ sleep_IO(p) \/ IO(p) \/ YIELD(p)
        PROVE  FALSE
    BY <1>5 DEF crear_pcb, sleep_IO, IO, YIELD
  <1>6. ASSUME NEW p \in Procesos, EXIT(p) \/ SEG_FAULT(p) \/ RecursoInexistente(p)
        PROVE  FALSE
    BY <1>6 DEF EXIT, SEG_FAULT, RecursoInexistente, terminar_consola, devolverRecursosPCB
  <1>7. ASSUME NEW p \in Procesos, NEW x \in Recursos,
               WaitConInstancias(p, x) \/ (SIGNAL(p, x) /\ SignalSinEspera(p, x))
        PROVE  FALSE
    BY <1>7 DEF WaitConInstancias, SignalSinEspera
  <1> QED BY <1>2, <1>3, <1>4, <1>5, <1>6, <1>7 DEF Next, Handler, SIGNAL

\* Those who wait for a resource are served in the order they arrived, and each
\* leaves the queue ready and with the instance it waited for (recursos.c,
\* actualizar_procesos_bloqueados).
THEOREM ServidosEnOrden ==
  ASSUME Algoritmo = "FIFO"
  PROVE  Spec => EsperaEnOrden
  <1>1. ASSUME IEstados, IEstados', [Next]_vars
        PROVE  [\A r \in Recursos :
                  lista_block'[r] # lista_block[r] =>
                    \/ \E p \in Procesos : lista_block'[r] = Append(lista_block[r], p)
                    \/ LET p == Head(lista_block[r]) IN
                       /\ lista_block'[r] = Tail(lista_block[r])
                       /\ LISTA_READY' = Append(LISTA_READY, p)
                       /\ tablaDeRecursos'[p][r] = tablaDeRecursos[p][r] + 1]_vars
    BY <1>1, PasoDeEspera DEF Encola, Avanza
  <1>2. IEstados /\ [Next]_vars => IEstados'
    BY PasoIEstados
  <1> QED BY <1>1, <1>2, InicioIEstados, PTL DEF Spec, EsperaEnOrden

-----------------------------------------------------------------------------
(* The finished processes.                                                 *)

SinRecursos == [r \in Recursos |-> 0]

\* What terminar_consola leaves of a process.
IFin == IEstados /\ \A q \in LISTA_EXIT : tablaDeRecursos[q] = SinRecursos

PasoFinal(q) ==
  /\ q \in LISTA_EXIT'
  /\ consola'[q] = consola[q]
  /\ tablaDeRecursos'[q] = SinRecursos

LEMMA InicioIFin == Init => IFin
  BY InicioIEstados DEF Init, IFin

\* A step of a process that has not ended changes nothing of one that has.
LEMMA PasoIFin ==
  ASSUME Algoritmo = "FIFO", IFin, [Next]_vars
  PROVE  IFin' /\ \A q \in LISTA_EXIT : PasoFinal(q)
  <1>1. IEstados /\ IEstados'
    BY PasoIEstados DEF IFin
  <1>2. IInv /\ UnSoloEstado /\ TiposDelKernel /\ TiposDelKernel'
    BY <1>1 DEF IEstados, IInv
  <1>3. \A q \in LISTA_EXIT : q \in Procesos /\ tablaDeRecursos[q] = SinRecursos
    BY <1>2 DEF IFin, TiposDelKernel
  <1> USE DEF listas, recursos
  \* Every step but an end leaves LISTA_EXIT alone.
  <1>4. ASSUME UNCHANGED LISTA_EXIT,
               \A q \in LISTA_EXIT : /\ consola'[q] = consola[q]
                                     /\ tablaDeRecursos'[q] = tablaDeRecursos[q]
        PROVE  IFin' /\ \A q \in LISTA_EXIT : PasoFinal(q)
    BY <1>1, <1>3, <1>4 DEF IFin, PasoFinal, SinRecursos
  <1>5. CASE Planificadores \/ EnviarContexto \/ FinDeTerminar \/ UNCHANGED vars
    BY <1>4, <1>5
    DEF Planificadores, EsperarNew, agregar_pcb_a_ready, EsperarReady,
        Despachar, EnviarContexto, FinDeTerminar, vars
  <1>6. ASSUME NEW p \in Procesos, crear_pcb(p)
        PROVE  IFin' /\ \A q \in LISTA_EXIT : PasoFinal(q)
    <2>1. p \notin LISTA_EXIT
      BY <1>1, <1>6, UnLugar DEF crear_pcb
    <2> QED BY <1>2, <1>3, <1>4, <1>6, <2>1 DEF crear_pcb, TiposDelKernel
  <1>7. ASSUME NEW p \in Procesos, sleep_IO(p) \/ IO(p) \/ YIELD(p)
        PROVE  IFin' /\ \A q \in LISTA_EXIT : PasoFinal(q)
    BY <1>4, <1>7 DEF sleep_IO, IO, YIELD
  <1>8. ASSUME NEW p \in Procesos, Devuelve(p)
        PROVE  p \notin LISTA_EXIT
    BY <1>2, <1>8, SoloEnExec
  <1>9. ASSUME NEW p \in Procesos, NEW r \in Recursos,
               WaitConInstancias(p, r) \/ WaitSinInstancias(p, r)
        PROVE  IFin' /\ \A q \in LISTA_EXIT : PasoFinal(q)
    <2>1. p \notin LISTA_EXIT
      BY <1>8, <1>9 DEF WaitConInstancias, WaitSinInstancias
    <2>2. \A q \in LISTA_EXIT : tablaDeRecursos'[q] = tablaDeRecursos[q]
      BY <1>2, <1>3, <1>9, <2>1
      DEF WaitConInstancias, WaitSinInstancias, asignarRecurso, TiposDelKernel
    <2> QED BY <1>4, <1>9, <2>2 DEF WaitConInstancias, WaitSinInstancias
  <1>10. ASSUME NEW p \in Procesos, NEW r \in Recursos, SIGNAL(p, r)
         PROVE  IFin' /\ \A q \in LISTA_EXIT : PasoFinal(q)
    <2>1. p \notin LISTA_EXIT
      BY <1>8, <1>10 DEF SIGNAL
    <2>2. \A q \in LISTA_EXIT : TablaAlDevolver(p, r)[q] = tablaDeRecursos[q]
      BY <1>2, <1>3, <2>1 DEF TablaAlDevolver, TiposDelKernel
    <2>3. CASE SignalSinEspera(p, r)
      BY <1>4, <1>10, <2>2, <2>3 DEF SIGNAL, SignalSinEspera
    <2>4. CASE SignalConEspera(p, r)
      <3>1. PICK d \in Procesos :
            /\ d \notin LISTA_EXIT
            /\ tablaDeRecursos' = [TablaAlDevolver(p, r) EXCEPT ![d][r] = @ + 1]
        BY <1>1, <1>10, <2>4, Despertado
      <3>2. DOMAIN TablaAlDevolver(p, r) = Procesos
        BY <1>2 DEF TablaAlDevolver, TiposDelKernel
      <3>3. \A q \in LISTA_EXIT : tablaDeRecursos'[q] = TablaAlDevolver(p, r)[q]
        BY <1>3, <3>1, <3>2
      <3>4. \A q \in LISTA_EXIT : tablaDeRecursos'[q] = tablaDeRecursos[q]
        BY <2>2, <3>3
      <3> QED BY <1>4, <1>10, <3>4 DEF SIGNAL
    <2> QED BY <1>10, <2>3, <2>4 DEF SIGNAL
  <1>11. ASSUME NEW p \in Procesos, NEW razon, Devuelve(p), terminar_consola(p, razon)
         PROVE  IFin' /\ \A q \in LISTA_EXIT : PasoFinal(q)
    <2>1. p \notin LISTA_EXIT
      BY <1>8, <1>11
    <2>2. /\ LISTA_EXIT' = LISTA_EXIT \cup {p}
          /\ consola' = [consola EXCEPT ![p] = razon]
          /\ tablaDeRecursos' = [tablaDeRecursos EXCEPT ![p] = SinRecursos]
      BY <1>11 DEF terminar_consola, devolverRecursosPCB, SinRecursos
    <2>3. \A q \in LISTA_EXIT : PasoFinal(q)
      BY <1>2, <1>3, <2>1, <2>2 DEF PasoFinal, TiposDelKernel
    <2>4. tablaDeRecursos'[p] = SinRecursos
      BY <1>2, <2>2 DEF TiposDelKernel
    <2>5. \A q \in LISTA_EXIT' : tablaDeRecursos'[q] = SinRecursos'
      BY <2>2, <2>3, <2>4 DEF PasoFinal, SinRecursos
    <2> QED BY <1>1, <2>3, <2>5 DEF IFin
  <1> QED BY <1>5, <1>6, <1>7, <1>9, <1>10, <1>11
          DEF Next, Handler, EXIT, SEG_FAULT, RecursoInexistente

\* A process that ended stays ended, holds no instance of any resource and its
\* console keeps the reason it was told (terminar_consola, devolverRecursosPCB).
THEOREM ElFinEsDefinitivo ==
  ASSUME Algoritmo = "FIFO"
  PROVE  Spec => FinDefinitivo
  <1>1. ASSUME IFin, [Next]_vars
        PROVE  [\A p \in LISTA_EXIT :
                  /\ p \in LISTA_EXIT'
                  /\ consola'[p] = consola[p]
                  /\ tablaDeRecursos'[p] = [r \in Recursos |-> 0]]_vars
    BY <1>1, PasoIFin DEF PasoFinal, SinRecursos
  <1>2. IFin /\ [Next]_vars => IFin'
    BY PasoIFin
  <1> QED BY <1>1, <1>2, InicioIFin, PTL DEF Spec, FinDefinitivo

-----------------------------------------------------------------------------
(* The instances of the resources.                                         *)

Tablas == [Procesos -> [Recursos -> Nat]]

\* The instances of a resource that a table says are held, one pair for each.
Tenencias(t, r) == {x \in Procesos \X (1 .. MaxInstancias) : x[2] <= t[x[1]][r]}

Tomadas(t, r) == Cardinality(Tenencias(t, r))

\* What asignarRecurso, devolverRecurso and devolverRecursosPCB do to a table.
Tomar(t, p, r) == [t EXCEPT ![p][r] = @ + 1]
Soltar(t, p, r) == [t EXCEPT ![p][r] = @ - 1]
SoltarTodo(t, p) == [t EXCEPT ![p] = [x \in Recursos |-> 0]]

LEMMA TenenciasFinitas ==
  ASSUME NEW t, NEW r
  PROVE  IsFiniteSet(Tenencias(t, r)) /\ Tomadas(t, r) \in Nat
  <1>1. IsFiniteSet(1 .. MaxInstancias)
    BY KernelAssumption, FS_Interval
  <1>2. IsFiniteSet(Procesos \X (1 .. MaxInstancias))
    BY <1>1, KernelAssumption, FS_Product
  <1>3. Tenencias(t, r) \subseteq Procesos \X (1 .. MaxInstancias)
    BY DEF Tenencias
  <1> QED BY <1>2, <1>3, FS_Subset, FS_CardinalityType DEF Tomadas

\* asignarRecurso in the table of a process.
LEMMA TomarUna ==
  ASSUME NEW t \in Tablas, NEW p \in Procesos, NEW r \in Recursos,
         t[p][r] < MaxInstancias
  PROVE  LET u == Tomar(t, p, r) IN
         /\ u \in Tablas
         /\ Tomadas(u, r) = Tomadas(t, r) + 1
         /\ \A x \in Recursos : x # r => Tomadas(u, x) = Tomadas(t, x)
         /\ u[p][r] = t[p][r] + 1
         /\ \A q \in Procesos, x \in Recursos : q # p \/ x # r => u[q][x] = t[q][x]
  <1> DEFINE u == Tomar(t, p, r)
  <1>1. u \in Tablas
    BY DEF Tablas, Tomar
  <1>2. u[p][r] = t[p][r] + 1
    BY DEF Tablas, Tomar
  <1>3. \A q \in Procesos, x \in Recursos : q # p \/ x # r => u[q][x] = t[q][x]
    BY DEF Tablas, Tomar
  <1> DEFINE n == t[p][r]
             nueva == <<p, n + 1>>
  <1>4. n \in Nat /\ n + 1 \in 1 .. MaxInstancias
    BY KernelAssumption DEF Tablas
  <1>5. Tenencias(u, r) = Tenencias(t, r) \cup {nueva}
    <2>1. ASSUME NEW q \in Procesos, NEW k \in 1 .. MaxInstancias
          PROVE  k <= u[q][r] <=> k <= t[q][r] \/ (q = p /\ k = n + 1)
      <3>1. CASE q = p
        BY <1>2, <1>4, <3>1
      <3>2. CASE q # p
        BY <1>3, <3>2
      <3> QED BY <3>1, <3>2
    <2> QED BY <1>4, <2>1 DEF Tenencias
  <1>6. nueva \notin Tenencias(t, r)
    BY <1>4 DEF Tenencias
  <1>7. Tomadas(u, r) = Tomadas(t, r) + 1
    <2> HIDE DEF nueva
    <2> QED BY <1>5, <1>6, TenenciasFinitas, FS_AddElement DEF Tomadas
  <1>8. ASSUME NEW x \in Recursos, x # r
        PROVE  Tomadas(u, x) = Tomadas(t, x)
    <2>1. Tenencias(u, x) = Tenencias(t, x)
      BY <1>3, <1>8 DEF Tenencias
    <2> QED BY <2>1 DEF Tomadas
  <1> QED BY <1>1, <1>2, <1>3, <1>7, <1>8

\* devolverRecurso in the table of a process that holds an instance.
LEMMA SoltarUna ==
  ASSUME NEW t \in Tablas, NEW p \in Procesos, NEW r \in Recursos,
         t[p][r] > 0, t[p][r] <= MaxInstancias
  PROVE  LET u == Soltar(t, p, r) IN
         /\ u \in Tablas
         /\ Tomadas(u, r) = Tomadas(t, r) - 1
         /\ \A x \in Recursos : x # r => Tomadas(u, x) = Tomadas(t, x)
         /\ u[p][r] = t[p][r] - 1
         /\ \A q \in Procesos, x \in Recursos : q # p \/ x # r => u[q][x] = t[q][x]
  <1> DEFINE u == Soltar(t, p, r)
  <1>1. t[p][r] \in Nat \ {0}
    BY DEF Tablas
  <1>2. u \in Tablas
    BY <1>1 DEF Tablas, Soltar
  <1>3. u[p][r] = t[p][r] - 1
    BY DEF Tablas, Soltar
  <1>4. \A q \in Procesos, x \in Recursos : q # p \/ x # r => u[q][x] = t[q][x]
    BY DEF Tablas, Soltar
  <1> DEFINE n == t[p][r]
             vieja == <<p, n>>
  <1>5. n \in 1 .. MaxInstancias
    BY <1>1, KernelAssumption
  <1>6. Tenencias(u, r) = Tenencias(t, r) \ {vieja}
    <2>1. ASSUME NEW q \in Procesos, NEW k \in 1 .. MaxInstancias
          PROVE  k <= u[q][r] <=> k <= t[q][r] /\ ~(q = p /\ k = n)
      <3>1. CASE q = p
        BY <1>1, <1>3, <3>1
      <3>2. CASE q # p
        BY <1>4, <3>2
      <3> QED BY <3>1, <3>2
    <2> QED BY <2>1 DEF Tenencias
  <1>7. vieja \in Tenencias(t, r)
    BY <1>1, <1>5 DEF Tenencias
  <1>8. Tomadas(u, r) = Tomadas(t, r) - 1
    <2> HIDE DEF vieja
    <2> QED BY <1>6, <1>7, TenenciasFinitas, FS_RemoveElement DEF Tomadas
  <1>9. ASSUME NEW x \in Recursos, x # r
        PROVE  Tomadas(u, x) = Tomadas(t, x)
    <2>1. Tenencias(u, x) = Tenencias(t, x)
      BY <1>4, <1>9 DEF Tenencias
    <2> QED BY <2>1 DEF Tomadas
  <1> QED BY <1>2, <1>3, <1>4, <1>8, <1>9

\* devolverRecursosPCB in the table of a process.
LEMMA SoltarTodas ==
  ASSUME NEW t \in Tablas, NEW p \in Procesos, NEW r \in Recursos,
         t[p][r] <= MaxInstancias
  PROVE  Tomadas(SoltarTodo(t, p), r) = Tomadas(t, r) - t[p][r]
  <1> DEFINE u == SoltarTodo(t, p)
             n == t[p][r]
             suyas == {p} \X (1 .. n)
  <1>1. n \in Nat /\ n <= MaxInstancias /\ MaxInstancias \in Nat
    BY KernelAssumption DEF Tablas
  <1>2. \A q \in Procesos : u[q][r] = IF q = p THEN 0 ELSE t[q][r]
    BY DEF Tablas, SoltarTodo
  <1>3. Tenencias(u, r) = Tenencias(t, r) \ suyas
    BY <1>1, <1>2 DEF Tenencias
  <1>4. Tenencias(t, r) \cap suyas = suyas
    BY <1>1 DEF Tenencias
  <1>5. Cardinality(suyas) = n
    <2> HIDE DEF n
    <2>1. IsFiniteSet(1 .. n) /\ Cardinality(1 .. n) = n
      BY <1>1, FS_Interval
    <2>2. IsFiniteSet({p}) /\ Cardinality({p}) = 1
      BY FS_Singleton
    <2>3. Cardinality(suyas) = Cardinality({p}) * Cardinality(1 .. n)
      BY <2>1, <2>2, FS_Product
    <2> QED BY <1>1, <2>1, <2>2, <2>3
  <1> HIDE DEF suyas
  <1>6. Cardinality(Tenencias(t, r) \ suyas) =
          Cardinality(Tenencias(t, r)) - Cardinality(Tenencias(t, r) \cap suyas)
    BY TenenciasFinitas, FS_Difference
  <1> QED BY <1>3, <1>4, <1>5, <1>6 DEF Tomadas

\* While fewer than MaxInstancias are held nobody holds that many.
LEMMA NadieTieneTodas ==
  ASSUME NEW t \in Tablas, NEW p \in Procesos, NEW r \in Recursos,
         Tomadas(t, r) < MaxInstancias
  PROVE  t[p][r] < MaxInstancias
  <1> SUFFICES ASSUME t[p][r] >= MaxInstancias PROVE FALSE
    BY KernelAssumption DEF Tablas
  <1> DEFINE suyas == {p} \X (1 .. MaxInstancias)
  <1>1. t[p][r] \in Nat /\ MaxInstancias \in Nat
    BY KernelAssumption DEF Tablas
  <1>2. suyas \subseteq Tenencias(t, r)
    BY <1>1 DEF Tenencias
  <1>3. Cardinality(suyas) = MaxInstancias
    <2>1. IsFiniteSet(1 .. MaxInstancias) /\ Cardinality(1 .. MaxInstancias) = MaxInstancias
      BY <1>1, FS_Interval
    <2>2. IsFiniteSet({p}) /\ Cardinality({p}) = 1
      BY FS_Singleton
    <2>3. Cardinality(suyas) = Cardinality({p}) * Cardinality(1 .. MaxInstancias)
      BY <2>1, <2>2, FS_Product
    <2> QED BY <1>1, <2>1, <2>2, <2>3
  <1> HIDE DEF suyas
  <1>4. Cardinality(suyas) <= Tomadas(t, r)
    BY <1>2, TenenciasFinitas, FS_Subset DEF Tomadas
  <1> QED BY <1>1, <1>3, <1>4, TenenciasFinitas

-----------------------------------------------------------------------------
(* No step loses an instance.                                              *)

\* The instances of a resource, free and held, never pass the bound, and no
\* process holds more than the bound: Tomadas counts all it holds.
IExist ==
  /\ IInv
  /\ \A r \in Recursos : Existencias(r) <= MaxInstancias
  /\ \A p \in Procesos, r \in Recursos : tablaDeRecursos[p][r] <= MaxInstancias

\* What a step may do to a resource.
Conserva(r) ==
  \/ Existencias(r)' = Existencias(r)
  \/ /\ Existencias(r)' = Existencias(r) + 1
     /\ \E p \in Procesos : SIGNAL(p, r) /\ tablaDeRecursos[p][r] = 0

LEMMA ExistenciasSon ==
  /\ \A r \in Recursos :
       Existencias(r) = instancias_recursos[r] + Tomadas(tablaDeRecursos, r)
  /\ \A r \in Recursos :
       Existencias(r)' = instancias_recursos'[r] + Tomadas(tablaDeRecursos', r)
  BY DEF Existencias, Tomadas, Tenencias

LEMMA InicioIExist == Init => IExist
  <1> SUFFICES ASSUME Init PROVE IExist
    OBVIOUS
  <1>1. IInv
    BY InicioIInv
  <1>2. \A p \in Procesos, r \in Recursos : tablaDeRecursos[p][r] = 0
    BY DEF Init
  <1>3. \A r \in Recursos : Tenencias(tablaDeRecursos, r) = {}
    BY <1>2, KernelAssumption DEF Tenencias
  <1>4. \A r \in Recursos : Tomadas(tablaDeRecursos, r) = 0
    BY <1>3, FS_EmptySet DEF Tomadas
  <1>5. \A r \in Recursos :
          instancias_recursos[r] \in Nat /\ instancias_recursos[r] <= MaxInstancias
    BY KernelAssumption DEF Init
  <1> QED BY <1>1, <1>2, <1>4, <1>5, ExistenciasSon, KernelAssumption DEF IExist

LEMMA PasoIExist ==
  ASSUME IExist, [Next]_vars
  PROVE  IExist' /\ \A r \in Recursos : Conserva(r)
  <1> USE DEF listas, recursos
  <1>1. IInv /\ IInv' /\ TiposDelKernel
    BY PasoIInv DEF IExist, IInv
  <1>2. /\ tablaDeRecursos \in Tablas
        /\ instancias_recursos \in [Recursos -> Nat]
    BY <1>1 DEF TiposDelKernel, Tablas
  <1>3. /\ \A x \in Recursos : Existencias(x) <= MaxInstancias
        /\ \A q \in Procesos, x \in Recursos : tablaDeRecursos[q][x] <= MaxInstancias
    BY DEF IExist
  <1>4. \A x \in Recursos : /\ instancias_recursos[x] \in Nat
                            /\ Tomadas(tablaDeRecursos, x) \in Nat
                            /\ Tomadas(tablaDeRecursos', x) \in Nat
    BY <1>2, TenenciasFinitas
  <1>5. MaxInstancias \in Nat
    BY KernelAssumption
  \* What every case below has to show.
  <1>6. ASSUME \A x \in Recursos : Existencias(x)' <= MaxInstancias /\ Conserva(x),
               \A q \in Procesos, x \in Recursos :
                 tablaDeRecursos'[q][x] <= MaxInstancias
        PROVE  IExist' /\ \A r \in Recursos : Conserva(r)
    BY <1>1, <1>6 DEF IExist
  <1>7. ASSUME UNCHANGED <<instancias_recursos, tablaDeRecursos>>
        PROVE  IExist' /\ \A r \in Recursos : Conserva(r)
    <2>1. \A x \in Recursos : Existencias(x)' = Existencias(x)
      BY <1>7, ExistenciasSon
    <2> QED BY <1>3, <1>6, <1>7, <2>1 DEF Conserva
  <1>8. CASE Planificadores \/ EnviarContexto \/ FinDeTerminar \/ UNCHANGED vars
    BY <1>7, <1>8
    DEF Planificadores, EsperarNew, agregar_pcb_a_ready, EsperarReady,
        Despachar, EnviarContexto, FinDeTerminar, vars
  <1>9. ASSUME NEW p \in Procesos,
               crear_pcb(p) \/ sleep_IO(p) \/ IO(p) \/ YIELD(p)
        PROVE  IExist' /\ \A r \in Recursos : Conserva(r)
    BY <1>7, <1>9 DEF crear_pcb, sleep_IO, IO, YIELD
  <1>10. ASSUME NEW p \in Procesos, NEW r \in Recursos, WaitSinInstancias(p, r)
         PROVE  IExist' /\ \A x \in Recursos : Conserva(x)
    BY <1>7, <1>10 DEF WaitSinInstancias
  \* An instance is free, so not all of them are held: p holds fewer.
  <1>11. ASSUME NEW p \in Procesos, NEW r \in Recursos, WaitConInstancias(p, r)
         PROVE  IExist' /\ \A x \in Recursos : Conserva(x)
    <2>1. /\ instancias_recursos[r] > 0
          /\ instancias_recursos' = [instancias_recursos EXCEPT ![r] = @ - 1]
          /\ tablaDeRecursos' = Tomar(tablaDeRecursos, p, r)
      BY <1>11 DEF WaitConInstancias, asignarRecurso, Tomar
    <2>2. Tomadas(tablaDeRecursos, r) < MaxInstancias
      BY <1>3, <1>4, <1>5, <2>1, ExistenciasSon
    <2>3. tablaDeRecursos[p][r] < MaxInstancias
      BY <1>2, <2>2, NadieTieneTodas
    <2>4. /\ Tomadas(tablaDeRecursos', r) = Tomadas(tablaDeRecursos, r) + 1
          /\ \A x \in Recursos : x # r =>
               Tomadas(tablaDeRecursos', x) = Tomadas(tablaDeRecursos, x)
          /\ tablaDeRecursos'[p][r] = tablaDeRecursos[p][r] + 1
          /\ \A q \in Procesos, x \in Recursos : q # p \/ x # r =>
               tablaDeRecursos'[q][x] = tablaDeRecursos[q][x]
      BY <1>2, <2>1, <2>3, TomarUna
    <2>5. /\ instancias_recursos'[r] = instancias_recursos[r] - 1
          /\ \A x \in Recursos : x # r => instancias_recursos'[x] = instancias_recursos[x]
      BY <1>2, <2>1
    <2>6. \A x \in Recursos : Existencias(x)' = Existencias(x)
      BY <1>4, <2>4, <2>5, ExistenciasSon
    <2>7. tablaDeRecursos[p][r] \in Nat
      BY <1>2 DEF Tablas
    <2>8. \A q \in Procesos, x \in Recursos : tablaDeRecursos'[q][x] <= MaxInstancias
      BY <1>3, <1>5, <2>3, <2>4, <2>7
    <2> QED BY <1>3, <1>6, <2>6, <2>8 DEF Conserva
  <1>12. ASSUME NEW p \in Procesos, NEW r \in Recursos, SIGNAL(p, r)
         PROVE  IExist' /\ \A x \in Recursos : Conserva(x)
    <2> DEFINE t == TablaAlDevolver(p, r)
               soltada == IF tablaDeRecursos[p][r] > 0 THEN 1 ELSE 0
    <2>1. tablaDeRecursos[p][r] \in Nat /\ tablaDeRecursos[p][r] <= MaxInstancias
      BY <1>2, <1>3 DEF Tablas
    \* devolverRecurso takes one instance from a holder and none from others.
    <2>2. /\ t \in Tablas
          /\ Tomadas(t, r) = Tomadas(tablaDeRecursos, r) - soltada
          /\ \A x \in Recursos : x # r => Tomadas(t, x) = Tomadas(tablaDeRecursos, x)
          /\ \A q \in Procesos, x \in Recursos :
               t[q][x] <= tablaDeRecursos[q][x] /\ t[q][x] \in Nat
      <3>1. CASE tablaDeRecursos[p][r] > 0
        <4>1. t = Soltar(tablaDeRecursos, p, r)
          BY <3>1 DEF TablaAlDevolver, Soltar
        <4>2. /\ t \in Tablas
              /\ Tomadas(t, r) = Tomadas(tablaDeRecursos, r) - 1
              /\ \A x \in Recursos : x # r => Tomadas(t, x) = Tomadas(tablaDeRecursos, x)
              /\ t[p][r] = tablaDeRecursos[p][r] - 1
              /\ \A q \in Procesos, x \in Recursos : q # p \/ x # r =>
                   t[q][x] = tablaDeRecursos[q][x]
          BY <1>2, <2>1, <3>1, <4>1, SoltarUna
        <4>3. ASSUME NEW q \in Procesos, NEW x \in Recursos
              PROVE  t[q][x] <= tablaDeRecursos[q][x] /\ t[q][x] \in Nat
          <5>1. tablaDeRecursos[q][x] \in Nat
            BY <1>2 DEF Tablas
          <5> QED BY <2>1, <3>1, <4>2, <5>1
        <4> QED BY <3>1, <4>2, <4>3
      <3>2. CASE ~(tablaDeRecursos[p][r] > 0)
        <4>1. tablaDeRecursos[p][r] = 0
          BY <2>1, <3>2
        <4>2. t = tablaDeRecursos
          BY <1>2, <4>1 DEF TablaAlDevolver, Tablas
        <4>3. \A q \in Procesos, x \in Recursos : tablaDeRecursos[q][x] \in Nat
          BY <1>2 DEF Tablas
        <4> QED BY <1>2, <1>4, <3>2, <4>2, <4>3
      <3> QED BY <3>1, <3>2
    \* The bound: only a holder returns when all the instances exist.
    <2>3. Existencias(r) + 1 - soltada <= MaxInstancias
      <3>1. Existencias(r) \in Nat
        BY <1>4, ExistenciasSon
      <3> QED BY <1>3, <1>5, <1>12, <3>1 DEF SIGNAL, BajoLaCota
    <2>4. soltada = 1 \/ (soltada = 0 /\ tablaDeRecursos[p][r] = 0)
      BY <2>1
    <2> HIDE DEF t
    <2>5. Tomadas(t, r) \in Nat
      BY TenenciasFinitas
    \* What both ways of going on have to show.
    <2>6. ASSUME /\ instancias_recursos'[r] + Tomadas(tablaDeRecursos', r)
                      = instancias_recursos[r] + Tomadas(t, r) + 1
                 /\ \A x \in Recursos : x # r =>
                      /\ instancias_recursos'[x] = instancias_recursos[x]
                      /\ Tomadas(tablaDeRecursos', x) = Tomadas(tablaDeRecursos, x),
                 \A q \in Procesos, x \in Recursos :
                   tablaDeRecursos'[q][x] <= MaxInstancias
          PROVE  IExist' /\ \A x \in Recursos : Conserva(x)
      <3>1. Existencias(r)' = Existencias(r) + 1 - soltada
        BY <1>4, <2>2, <2>4, <2>6, ExistenciasSon
      <3>2. \A x \in Recursos : x # r => Existencias(x)' = Existencias(x)
        BY <2>6, ExistenciasSon
      <3>3. Existencias(r) \in Nat
        BY <1>4, ExistenciasSon
      <3>4. Conserva(r)
        BY <1>12, <2>4, <3>1, <3>3 DEF Conserva
      <3>5. \A x \in Recursos : Existencias(x)' <= MaxInstancias /\ Conserva(x)
        BY <1>3, <2>3, <3>1, <3>2, <3>4 DEF Conserva
      <3> QED BY <1>6, <2>6, <3>5
    <2>7. CASE SignalSinEspera(p, r)
      <3>1. /\ instancias_recursos' = [instancias_recursos EXCEPT ![r] = @ + 1]
            /\ tablaDeRecursos' = t
        BY <2>7 DEF SignalSinEspera, t
      <3>2. \A q \in Procesos, x \in Recursos : tablaDeRecursos'[q][x] <= MaxInstancias
        <4>1. ASSUME NEW q \in Procesos, NEW x \in Recursos
              PROVE  t[q][x] <= MaxInstancias
          <5>1. tablaDeRecursos[q][x] \in Nat /\ tablaDeRecursos[q][x] <= MaxInstancias
            BY <1>2, <1>3 DEF Tablas
          <5> QED BY <1>5, <2>2, <5>1
        <4> QED BY <3>1, <4>1
      <3>3. /\ instancias_recursos'[r] = instancias_recursos[r] + 1
            /\ \A x \in Recursos : x # r => instancias_recursos'[x] = instancias_recursos[x]
        BY <1>2, <3>1
      <3> QED BY <1>4, <2>2, <2>5, <2>6, <3>1, <3>2, <3>3
    \* The instance goes to the process that waited, which holds fewer than all.
    <2>8. CASE SignalConEspera(p, r)
      <3>1. PICK d \in Procesos :
              tablaDeRecursos' = Tomar(t, d, r)
        <4>1. lista_block[r] \in Seq(Procesos) /\ lista_block[r] # <<>>
          BY <1>1, <2>8 DEF SignalConEspera, TiposDelKernel
        <4>2. Head(lista_block[r]) \in Procesos
          BY <4>1, SacarDeCola
        <4> QED BY <2>8, <4>2 DEF SignalConEspera, t, Tomar
      <3>2. Tomadas(t, r) < MaxInstancias
        BY <1>4, <1>5, <2>2, <2>3, <2>4, <2>5, ExistenciasSon
      <3>3. t[d][r] < MaxInstancias
        BY <2>2, <3>2, NadieTieneTodas
      <3>4. /\ Tomadas(tablaDeRecursos', r) = Tomadas(t, r) + 1
            /\ \A x \in Recursos : x # r => Tomadas(tablaDeRecursos', x) = Tomadas(t, x)
            /\ tablaDeRecursos'[d][r] = t[d][r] + 1
            /\ \A q \in Procesos, x \in Recursos : q # d \/ x # r =>
                 tablaDeRecursos'[q][x] = t[q][x]
        BY <2>2, <3>1, <3>3, TomarUna
      <3>5. UNCHANGED instancias_recursos
        BY <2>8 DEF SignalConEspera
      <3>6. ASSUME NEW q \in Procesos, NEW x \in Recursos
            PROVE  tablaDeRecursos'[q][x] <= MaxInstancias
        <4>1. t[q][x] \in Nat /\ t[q][x] <= MaxInstancias
          <5>1. tablaDeRecursos[q][x] \in Nat /\ tablaDeRecursos[q][x] <= MaxInstancias
            BY <1>2, <1>3 DEF Tablas
          <5> QED BY <1>5, <2>2, <5>1
        <4>2. t[d][r] \in Nat
          BY <2>2
        <4> QED BY <1>5, <3>3, <3>4, <4>1, <4>2
      <3> QED BY <1>4, <2>2, <2>5, <2>6, <3>4, <3>5, <3>6
    <2> QED BY <1>12, <2>7, <2>8 DEF SIGNAL
  <1>13. ASSUME NEW p \in Procesos, NEW razon, terminar_consola(p, razon)
         PROVE  IExist' /\ \A x \in Recursos : Conserva(x)
    <2>1. /\ instancias_recursos' =
               [x \in Recursos |-> instancias_recursos[x] + tablaDeRecursos[p][x]]
          /\ tablaDeRecursos' = SoltarTodo(tablaDeRecursos, p)
      BY <1>13 DEF terminar_consola, devolverRecursosPCB, SoltarTodo
    <2>2. ASSUME NEW x \in Recursos
          PROVE  Existencias(x)' = Existencias(x)
      <3>1. tablaDeRecursos[p][x] \in Nat /\ tablaDeRecursos[p][x] <= MaxInstancias
        BY <1>2, <1>3 DEF Tablas
      <3>2. Tomadas(tablaDeRecursos', x) = Tomadas(tablaDeRecursos, x) - tablaDeRecursos[p][x]
        BY <1>2, <2>1, <3>1, SoltarTodas
      <3>3. instancias_recursos'[x] = instancias_recursos[x] + tablaDeRecursos[p][x]
        BY <2>1
      <3> QED BY <1>4, <3>1, <3>2, <3>3, ExistenciasSon
    <2>3. ASSUME NEW q \in Procesos, NEW x \in Recursos
          PROVE  tablaDeRecursos'[q][x] <= MaxInstancias
      BY <1>2, <1>3, <1>5, <2>1 DEF Tablas, SoltarTodo
    <2> QED BY <1>3, <1>6, <2>2, <2>3 DEF Conserva
  <1> QED BY <1>8, <1>9, <1>10, <1>11, <1>12, <1>13
          DEF Next, Handler, EXIT, SEG_FAULT, RecursoInexistente

\* No step loses an instance of a resource, neither a WAIT nor a wake-up nor the
\* end of a holder, and only a SIGNAL of a process that holds none creates one
\* (asignarRecurso, devolverRecurso, devolverRecursosPCB).
THEOREM InstanciasConservadas == Spec => RecursosConservados
  <1>1. ASSUME IExist, [Next]_vars
        PROVE  [\A r \in Recursos :
                  \/ Existencias(r)' = Existencias(r)
                  \/ /\ Existencias(r)' = Existencias(r) + 1
                     /\ \E p \in Procesos :
                          SIGNAL(p, r) /\ tablaDeRecursos[p][r] = 0]_vars
    BY <1>1, PasoIExist DEF Conserva
  <1>2. IExist /\ [Next]_vars => IExist'
    BY PasoIExist
  <1> QED BY <1>1, <1>2, InicioIExist, PTL DEF Spec, RecursosConservados
=============================================================================

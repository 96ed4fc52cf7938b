---------------------------- MODULE Compactacion ----------------------------
(***************************************************************************)
(* What hilo_general does when memory has to be compacted to create a      *)
(* segment: it waits on espera_instrucciones for the operations the        *)
(* filesystem has under way, which the thread of the answers posts.        *)
(* Composes with the file instructions of module Archivos.                 *)
(*                                                                         *)
(* Memory is external: it answers CREATE_SEGMENT with the base (the        *)
(* context goes back to the CPU: no change here), SIN_MEMORIA or           *)
(* NECESITO_COMPACTAR.  Asked again after a compaction it has one hole at  *)
(* most: it answers the base (CompactarAlcanza, in module Memoria) or,     *)
(* once a process has ended and left its segments behind, SIN_MEMORIA.     *)
(***************************************************************************)
EXTENDS Archivos

CONSTANTS
  CreanSegmentos,  \* processes whose scripts create segments
  MaxEspera        \* bound: posts left over in espera_instrucciones

ASSUME CompactacionAssumption ==
  /\ CreanSegmentos \subseteq Procesos
  /\ MaxEspera \in Nat

VARIABLE solapada  \* history: the wait began with other operations under way

varsP == <<varsA, solapada>>

\* Only the variables of this wait change.
SoloEspera ==
  UNCHANGED <<listas, semaforos, recursos, consola, pc_largo, pc_corto, tablas,
              instruccion_en_fs, archivo_en_curso, canales, hilo_fs>>

InitP == InitA /\ solapada = FALSE

-----------------------------------------------------------------------------
(* hilo_general.c: recibir_respuesta_create_segment, esperandoParaCompactar. *)

\* Memory is asked for the segment of p: for the first time, or again after a
\* compaction when a process that ended left its segments in the way.
FaltaMemoria(p) ==
  \/ Devuelve(p)
  \/ pc_general = "compacta" /\ p = pcb_ejecutando /\ LISTA_EXIT # {}

\* SIN_MEMORIA: the process ends with OUT_OF_MEMORY.
CrearSinMemoria(p) ==
  /\ p \in CreanSegmentos
  /\ FaltaMemoria(p)
  /\ PuedeTerminar(p)
  /\ terminar_consola(p, "OUT_OF_MEMORY")
  /\ UNCHANGED <<varsArchivos, solapada>>

\* NECESITO_COMPACTAR.
NecesitoCompactar(p) ==
  /\ p \in CreanSegmentos
  /\ Devuelve(p)
  /\ pc_general' = "mira_operaciones"
  /\ en_cpu' = Nadie
  /\ SoloEspera
  /\ UNCHANGED <<compactacion, solapada>>

\* esperandoParaCompactar that never waits.
MirarOperaciones_SinEsperar ==
  /\ pc_general = "mira_operaciones"
  /\ pc_general' = "baja_aviso"
  /\ solapada' = (instruccion_en_fs > 1 \/ pc_fs \in {"desbloquea", "avisa"})
  /\ SoloEspera
  /\ UNCHANGED <<en_cpu, compactacion>>

\* if(instruccion_en_fs > 0), read without the mutex.
MirarOperaciones ==
  /\ pc_general = "mira_operaciones"
  /\ pc_general' = IF instruccion_en_fs > 0 THEN "fija_espera" ELSE "baja_aviso"
  /\ solapada' = (instruccion_en_fs > 1 \/ pc_fs \in {"desbloquea", "avisa"})
  /\ SoloEspera
  /\ UNCHANGED <<en_cpu, compactacion>>

\* sem_init(&espera_instrucciones, 0, -instruccion_en_fs): no room for the case
\* where the operation ended after it was seen.
ValorInicial_SinElUno(n) == IF n = 0 THEN 0 ELSE espera_instrucciones

\* sem_init(&espera_instrucciones, 0, -instruccion_en_fs+1): the value is
\* unsigned, and one above SEM_VALUE_MAX fails with EINVAL and leaves the
\* semaphore, zeroed or left by the last wait, as it was.
ValorInicial(n) == IF n <= 1 THEN 1 - n ELSE espera_instrucciones

\* Both mutexes are held from the flag to the sem_init.
FijarEspera ==
  /\ pc_general = "fija_espera"
  /\ hayQueCompactar' = TRUE
  /\ espera_instrucciones' = ValorInicial(instruccion_en_fs)
  /\ pc_general' = "espera_operaciones"
  /\ SoloEspera
  /\ UNCHANGED <<en_cpu, solapada>>

\* sem_wait(&espera_instrucciones).  sem_destroy leaves the value as it is.
EsperarOperaciones ==
  /\ pc_general = "espera_operaciones"
  /\ espera_instrucciones > 0
  /\ espera_instrucciones' = espera_instrucciones - 1
  /\ pc_general' = "baja_aviso"
  /\ SoloEspera
  /\ UNCHANGED <<en_cpu, hayQueCompactar, solapada>>

\* hayQueCompactar = false and EMPEZA_A_COMPACTAR is sent.
PedirCompactacion ==
  /\ pc_general = "baja_aviso"
  /\ hayQueCompactar' = FALSE
  /\ pc_general' = "compacta"
  /\ SoloEspera
  /\ UNCHANGED <<en_cpu, espera_instrucciones, solapada>>

\* Memory has compacted and answers the second CREATE_SEGMENT with the base.
FinDeCompactacion ==
  /\ pc_general = "compacta"
  /\ pc_general' = "espera_cym"
  /\ en_cpu' = pcb_ejecutando
  /\ SoloEspera
  /\ UNCHANGED <<compactacion, solapada>>

CrearSegmento(p) == CrearSinMemoria(p) \/ NecesitoCompactar(p)

Compactar ==
  \/ MirarOperaciones \/ FijarEspera \/ EsperarOperaciones
  \/ PedirCompactacion \/ FinDeCompactacion

-----------------------------------------------------------------------------
(* hilo_general.c: esperar_respuestas, case FS_OK, while a compaction waits. *)

\* if(compacto): the flag was set when it was read.
MirarAviso ==
  /\ pc_fs = "desbloquea"
  /\ hayQueCompactar
  /\ pc_fs' = "avisa"
  /\ UNCHANGED <<vars, tablas, instruccion_en_fs, archivo_en_curso,
                 compactacion, canales, resp>>

\* case FS_OK without the post.
Avisar_SinPost ==
  /\ pc_fs = "avisa"
  /\ pasar_a_ready(resp.proc)
  /\ pc_fs' = "espera_respuesta"
  /\ resp' = SinRespuesta
  /\ UNCHANGED <<LISTA_NEW, LISTA_EXEC, LISTA_BLOCKED, LISTA_EXIT, CantPCBNew,
                 multiprogramacion, CPUVacia, pasar_pcb_a_CPU, recursos,
                 consola, hilos, en_cpu, tablas, instruccion_en_fs,
                 archivo_en_curso, compactacion, canales>>

\* sem_post(&espera_instrucciones), and the process goes to ready.
Avisar ==
  /\ pc_fs = "avisa"
  /\ espera_instrucciones < MaxEspera
  /\ espera_instrucciones' = espera_instrucciones + 1
  /\ pasar_a_ready(resp.proc)
  /\ pc_fs' = "espera_respuesta"
  /\ resp' = SinRespuesta
  /\ UNCHANGED <<LISTA_NEW, LISTA_EXEC, LISTA_BLOCKED, LISTA_EXIT, CantPCBNew,
                 multiprogramacion, CPUVacia, pasar_pcb_a_CPU, recursos,
                 consola, hilos, en_cpu, tablas, instruccion_en_fs,
                 archivo_en_curso, hayQueCompactar, canales>>

AvisoDelFS == (MirarAviso \/ Avisar) /\ UNCHANGED solapada

NextP ==
  /\ pc_fs # "caido"
  /\ \/ NextA /\ UNCHANGED solapada
     \/ \E p \in Procesos : CrearSegmento(p)
     \/ Compactar
     \/ AvisoDelFS

SpecP == InitP /\ [][NextP]_varsP

\* hilo_general, the thread of the answers and the filesystem are scheduled.
EquidadP ==
  /\ WF_varsP(Compactar)
  /\ WF_varsP(BloquearEnArchivo /\ UNCHANGED solapada)
  /\ WF_varsP(AtenderPedido /\ UNCHANGED solapada)
  /\ WF_varsP((HiloRespuestas /\ UNCHANGED solapada) \/ AvisoDelFS)

FairSpecP == SpecP /\ EquidadP

-----------------------------------------------------------------------------
(* Properties.                                                             *)

\* The operations the filesystem has not finished: they read and write the
\* memory of their processes.
SinTerminar ==
  Cardinality({i \in DOMAIN pedidos : pedidos[i].tipo \in OperacionesDeFS})

\* hilo_general.c:141 forbids a compaction while an operation of the filesystem
\* is executing ("para que se prohiba compactar mientras se ejecuta esta
\* instruccion").
CompactaSinOperaciones == pc_general = "compacta" => SinTerminar = 0

\* It does so when at most one operation is counted as the wait begins and the
\* thread of the answers is not between its discount and its post, whatever
\* happens between the unlocked read, the sem_init and the answer.
EsperaLaOperacion ==
  pc_general = "compacta" /\ ~solapada => SinTerminar = 0

\* hilo_general never waits for ever for a compaction, unless an operation failed
\* (FS_ERROR is not discounted): some post or the initial value lets it go on.
EsperaTermina ==
  pc_general = "espera_operaciones" ~>
    \/ pc_general = "compacta"
    \/ instruccion_en_fs > EnVuelo
    \/ pc_fs = "caido"

\* The same without the exception for the operations that fail.
EsperaTerminaSiempre ==
  pc_general = "espera_operaciones" ~>
    pc_general = "compacta" \/ pc_fs = "caido"
=============================================================================

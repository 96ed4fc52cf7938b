------------------------------ MODULE Contexto ------------------------------
(***************************************************************************)
(* The execution context of a process: how it travels between its PCB in   *)
(* the kernel and the CPU, the instructions the CPU runs by itself (SET,   *)
(* MOV_IN and MOV_OUT, with the MMU), and how its segment table follows    *)
(* the segments that memory keeps (module Memoria), compaction included.   *)
(*                                                                         *)
(* Which ready process runs, and when a blocked one is ready again, is the *)
(* matter of modules Kernel and Archivos: here it is any of them, any      *)
(* time.  A register holds one value and an access to memory is of one     *)
(* byte; scripts name only segments they have.                             *)
(***************************************************************************)
EXTENDS Memoria

CONSTANTS
  Instrucciones,     \* the instructions the scripts use
  MaxInstrucciones,  \* bound: instructions of a script
  Valores,           \* values of a register or of a byte
  ValorInicial,      \* what both hold at first
  Tiempos            \* times of the IO instructions

Conocidas == {"SET", "MOV_IN", "MOV_OUT", "YIELD", "IO", "WAIT", "SIGNAL",
              "CREATE_SEGMENT", "DELETE_SEGMENT", "EXIT"}

ASSUME ContextoAssumption ==
  /\ Instrucciones \subseteq Conocidas
  /\ MaxInstrucciones \in Nat
  /\ ValorInicial \in Valores
  /\ Tiempos \subseteq Nat

VARIABLES
  estado,             \* the list each PCB is in
  pcb,                \* the context kept in each PCB
  cpu,                \* the context the CPU works on, and whose it is
  pc_general,         \* where hilo_general is
  LISTA_PCBS_EN_RAM,  \* PCBs whose tables a compaction updates
  motivo,             \* cant_int of motivoDevolucion, one object for all
  dormir,             \* the sleep_IO thread of each process: its time, if read
  espacioUsuario,     \* the bytes of the memory
  historia,           \* history: what each process did, wrote and asked for
  omitidos            \* history: the processes whose table a compaction left as it was

copiados == <<LISTA_PCBS_EN_RAM, omitidos>>
kernelC == <<estado, pcb, pc_general, copiados, motivo, dormir>>
varsC == <<varsM, kernelC, cpu, espacioUsuario, historia>>

SinTiempo == -1
PorLeer == -2

ContextoNuevo == [pc |-> 0, registro |-> ValorInicial, tabla |-> <<segmento_0>>,
                  tamanio_tabla |-> 1]
SinContexto == [proc |-> Global, ctx |-> ContextoNuevo]

\* A logical address: segment 0 is one for all the processes.
Logica(p, id, d) == <<IF id = 0 THEN Global ELSE p, id, d>>

InitC ==
  /\ InitM
  /\ estado = [p \in Procesos |-> "sin_conexion"]
  /\ pcb = [p \in Procesos |-> ContextoNuevo]
  /\ cpu = SinContexto
  /\ pc_general = "espera_pcb"
  /\ LISTA_PCBS_EN_RAM = {}
  /\ motivo = 0
  /\ dormir = [p \in Procesos |-> SinTiempo]
  /\ espacioUsuario = [b \in 0 .. TamMemoria - 1 |-> ValorInicial]
  /\ historia = [pc |-> [p \in Procesos |-> 0],
                 registro |-> [p \in Procesos |-> ValorInicial],
                 escrito |-> {},
                 tiempo |-> [p \in Procesos |-> SinTiempo]]
  /\ omitidos = {}

-----------------------------------------------------------------------------
(* hilo_consola.c and the planners.                                        *)

\* crear_pcb: memory answers the size of segmento_0, the first of its table.
crear_pcb(p) ==
  /\ estado[p] = "sin_conexion"
  /\ IniciarProceso(p)
  /\ estado' = [estado EXCEPT ![p] = "new"]
  /\ pcb' = [pcb EXCEPT ![p] = ContextoNuevo]
  /\ UNCHANGED <<pc_general, copiados, motivo, dormir, cpu,
                 espacioUsuario, historia>>

\* A process leaves NEW, or the queue of a resource or of a file.
pasar_a_ready(p) ==
  /\ estado[p] \in {"new", "espera"}
  /\ estado' = [estado EXCEPT ![p] = "ready"]
  /\ UNCHANGED <<varsM, pcb, pc_general, copiados, motivo, dormir, cpu,
                 espacioUsuario, historia>>

\* enviar_ce_a_cpu: tamanio_tabla entries of the table travel.
enviar_ce_a_cpu(p, c) ==
  cpu' = [proc |-> p, ctx |-> [c EXCEPT !.tabla =
            SubSeq(@, 1, IF c.tamanio_tabla < Len(@) THEN c.tamanio_tabla
                         ELSE Len(@))]]

\* pasar_a_exec, and hilo_general sends the context.
Ejecutar(p) ==
  /\ pc_general = "espera_pcb"
  /\ estado[p] = "ready"
  /\ estado' = [estado EXCEPT ![p] = "exec"]
  /\ enviar_ce_a_cpu(p, pcb[p])
  /\ pc_general' = "espera_cym"
  /\ UNCHANGED <<varsM, pcb, copiados, motivo, dormir, espacioUsuario,
                 historia>>

-----------------------------------------------------------------------------
(* cpu/src: ciclo_instruccion.                                             *)

\* The CPU fetches an instruction of p.
Busca(p, instruccion) ==
  /\ pc_general = "espera_cym"
  /\ cpu.proc = p
  /\ instruccion \in Instrucciones
  /\ cpu.ctx.pc < MaxInstrucciones

ContextoAvanzado == [cpu.ctx EXCEPT !.pc = @ + 1]
Anotar(p) == [historia EXCEPT !.pc[p] = @ + 1]

SET(p, v) ==
  /\ Busca(p, "SET")
  /\ cpu' = [cpu EXCEPT !.ctx = [ContextoAvanzado EXCEPT !.registro = v]]
  /\ historia' = [Anotar(p) EXCEPT !.registro[p] = v]
  /\ UNCHANGED <<varsM, kernelC, espacioUsuario>>

\* tamanioSegmento: the last entry of the table with that number.
tamanioSegmento(c, id) ==
  LET i == CHOOSE i \in DOMAIN c.tabla :
             /\ c.tabla[i].id = id
             /\ \A j \in DOMAIN c.tabla : c.tabla[j].id = id => j <= i
  IN c.tabla[i].tamanio

\* usarMMU, for a logical address in two parts: the physical one adds the number
\* of the segment, not its base, to the offset.
usarMMU(c, id, d) ==
  IF tamanioSegmento(c, id) < d + 1 THEN -1 ELSE id + d

\* MOV_IN: memory is asked for the byte (leer_CPU).
MOV_IN(p, id, d) ==
  LET dir == usarMMU(cpu.ctx, id, d)
      v == espacioUsuario[dir] IN
  /\ Busca(p, "MOV_IN")
  /\ dir # -1
  /\ cpu' = [cpu EXCEPT !.ctx = [ContextoAvanzado EXCEPT !.registro = v]]
  /\ historia' = [Anotar(p) EXCEPT !.registro[p] = v]
  /\ UNCHANGED <<varsM, kernelC, espacioUsuario>>

\* MOV_OUT: memory writes the byte (escribir_CPU).
MOV_OUT(p, id, d) ==
  LET dir == usarMMU(cpu.ctx, id, d)
      l == Logica(p, id, d) IN
  /\ Busca(p, "MOV_OUT")
  /\ dir # -1
  /\ espacioUsuario' = [espacioUsuario EXCEPT ![dir] = cpu.ctx.registro]
  /\ cpu' = [cpu EXCEPT !.ctx = ContextoAvanzado]
  /\ historia' = [Anotar(p) EXCEPT !.escrito =
                    {e \in @ : e.dir # l} \union {[dir |-> l, valor |-> cpu.ctx.registro]}]
  /\ UNCHANGED <<varsM, kernelC>>

-----------------------------------------------------------------------------
(* hilo_general.c: the instructions that go back to the kernel.            *)

\* recibir_cym_desde_cpu and actualizar_pcb; every handler sees n in cant_int.
Recibe(p, instruccion, n) ==
  /\ Busca(p, instruccion)
  /\ motivo' = n
  /\ historia' = Anotar(p)
  /\ UNCHANGED espacioUsuario

actualizar_pcb(p, c) == pcb' = [pcb EXCEPT ![p] = c]

\* p leaves LISTA_EXEC and the CPU is free.
Deja(p, lista) ==
  /\ estado' = [estado EXCEPT ![p] = lista]
  /\ pc_general' = "espera_pcb"
  /\ cpu' = SinContexto
  /\ UNCHANGED copiados

\* The context goes back to the CPU at once.
devolver_ce_a_cpu(p, c) ==
  /\ actualizar_pcb(p, c)
  /\ enviar_ce_a_cpu(p, c)
  /\ UNCHANGED <<estado, pc_general, LISTA_PCBS_EN_RAM>>

\* YIELD forgetting to keep the context that came back.
YIELD_SinActualizar(p) ==
  /\ Recibe(p, "YIELD", 0)
  /\ Deja(p, "ready")
  /\ UNCHANGED <<varsM, pcb, dormir>>

YIELD(p) ==
  /\ Recibe(p, "YIELD", 0)
  /\ actualizar_pcb(p, ContextoAvanzado)
  /\ Deja(p, "ready")
  /\ UNCHANGED <<varsM, dormir>>

\* IO: the thread that will sleep is given a pointer to motivoDevolucion.
IO(p, t) ==
  /\ Busca(p, "IO")
  /\ motivo' = t
  /\ historia' = [Anotar(p) EXCEPT !.tiempo[p] = t]
  /\ actualizar_pcb(p, ContextoAvanzado)
  /\ Deja(p, "blocked")
  /\ dormir' = [dormir EXCEPT ![p] = PorLeer]
  /\ UNCHANGED <<varsM, espacioUsuario>>

\* sleep_IO reads the time, whatever motivoDevolucion has by then.
LeerTiempo(p) ==
  /\ dormir[p] = PorLeer
  /\ dormir' = [dormir EXCEPT ![p] = motivo]
  /\ UNCHANGED <<varsM, estado, pcb, pc_general, copiados, motivo, cpu,
                 espacioUsuario, historia>>

\* sleep_IO after the sleep: out of LISTA_BLOCKED, and then into LISTA_READY.
SalirDeBlocked(p) ==
  /\ dormir[p] \in Tiempos \union {0}
  /\ estado[p] = "blocked"
  /\ estado' = [estado EXCEPT ![p] = "ninguna"]
  /\ dormir' = [dormir EXCEPT ![p] = SinTiempo]
  /\ historia' = [historia EXCEPT !.tiempo[p] = SinTiempo]
  /\ UNCHANGED <<varsM, pcb, pc_general, copiados, motivo, cpu,
                 espacioUsuario>>

FinDeSleep(p) ==
  /\ estado[p] = "ninguna"
  /\ estado' = [estado EXCEPT ![p] = "ready"]
  /\ UNCHANGED <<varsM, pcb, pc_general, copiados, motivo, dormir, cpu,
                 espacioUsuario, historia>>

\* WAIT without instances; a process queued for an open file blocks the same way.
WAIT(p) ==
  /\ Recibe(p, "WAIT", 0)
  /\ actualizar_pcb(p, ContextoAvanzado)
  /\ Deja(p, "espera")
  /\ UNCHANGED <<varsM, dormir>>

\* SIGNAL, as the other instructions after which the context is sent again.
SIGNAL(p) ==
  /\ Recibe(p, "SIGNAL", 0)
  /\ devolver_ce_a_cpu(p, ContextoAvanzado)
  /\ UNCHANGED <<varsM, dormir, omitidos>>

-----------------------------------------------------------------------------
(* The segment instructions.                                               *)

\* agregar_segmento without counting it.
agregar_segmento_SinContar(c, s) == [c EXCEPT !.tabla = Append(@, s)]

\* agregar_segmento counting it twice, as if its caller did so too.
agregar_segmento_DosVeces(c, s) ==
  [c EXCEPT !.tabla = Append(@, s), !.tamanio_tabla = @ + 2]

\* The new entry is the segment memory made.  The code leaves the pid of the entry
\* unset (hilo_general.c:257) and nobody reads it: here it is that of p.
agregar_segmento(c, s) ==
  [c EXCEPT !.tabla = Append(@, s), !.tamanio_tabla = @ + 1]

\* recibir_respuesta_create_segment, with c the context of p so far.
RespuestaCreate(p, c) ==
  \/ /\ respuesta' = "BASE"
     /\ LET nuevo == agregar_segmento(c, Last(listaSegmentos')) IN
        /\ actualizar_pcb(p, nuevo)
        /\ enviar_ce_a_cpu(p, nuevo)
     /\ pc_general' = "espera_cym"
     /\ UNCHANGED estado
  \/ /\ respuesta' = "SIN_MEMORIA"
     /\ actualizar_pcb(p, c)
     /\ estado' = [estado EXCEPT ![p] = "exit"]
     /\ pc_general' = "finaliza"
     /\ cpu' = SinContexto
  \/ /\ respuesta' = "NECESITO_COMPACTAR"
     /\ actualizar_pcb(p, c)
     /\ pc_general' = "compacta"
     /\ cpu' = SinContexto
     /\ UNCHANGED estado

CrearSegmento(p) ==
  /\ Recibe(p, "CREATE_SEGMENT", 0)
  /\ PedirSegmento(p)
  /\ RespuestaCreate(p, ContextoAvanzado)
  /\ UNCHANGED <<copiados, dormir>>

\* pedir_a_memoria_que_compacte and esperar_respuesta_compactacion.
Compactar ==
  /\ pc_general = "compacta"
  /\ EMPEZA_A_COMPACTAR
  /\ pc_general' = "copia_ready"
  /\ UNCHANGED <<estado, pcb, copiados, motivo, dormir, cpu,
                 espacioUsuario, historia>>

EnLista(listas) == {p \in Procesos : estado[p] \in listas}

\* agregar_pcbs_a_lista_global copies the lists one after the other, without
\* their mutexes: left out are the processes that were not in LISTA_READY when that
\* was copied and are not in the other two when it is their turn.
CopiarReady ==
  /\ pc_general = "copia_ready"
  /\ LISTA_PCBS_EN_RAM' = EnLista({"ready"})
  /\ omitidos' = omitidos \union EnLista({"blocked", "ninguna", "espera"})
  /\ pc_general' = "copia_blocked"
  /\ UNCHANGED <<varsM, estado, pcb, motivo, dormir, cpu, espacioUsuario,
                 historia>>

\* The copy without LISTA_EXEC.
CopiarBlocked_SinExec ==
  /\ pc_general = "copia_blocked"
  /\ LISTA_PCBS_EN_RAM' = LISTA_PCBS_EN_RAM \union EnLista({"blocked"})
  /\ omitidos' = omitidos \ EnLista({"exec", "blocked"})
  /\ pc_general' = "actualiza"
  /\ UNCHANGED <<varsM, estado, pcb, motivo, dormir, cpu, espacioUsuario,
                 historia>>

\* LISTA_EXEC and LISTA_BLOCKED; the queues of resources and files are no part.
CopiarBlocked ==
  /\ pc_general = "copia_blocked"
  /\ LISTA_PCBS_EN_RAM' = LISTA_PCBS_EN_RAM \union EnLista({"exec", "blocked"})
  /\ omitidos' = omitidos \ EnLista({"exec", "blocked"})
  /\ pc_general' = "actualiza"
  /\ UNCHANGED <<varsM, estado, pcb, motivo, dormir, cpu, espacioUsuario,
                 historia>>

\* actualizar_lista_segmentos: each copied PCB gets its segments of the list that
\* memory sent and, at the end, the first of that list; tamanio_tabla stays.
ActualizarTablas ==
  /\ pc_general = "actualiza"
  /\ pcb' = [p \in Procesos |->
               IF p \in LISTA_PCBS_EN_RAM
               THEN [pcb[p] EXCEPT !.tabla =
                       buscarSegmentoPorPID(p) \o <<Head(listaSegmentos)>>]
               ELSE pcb[p]]
  /\ omitidos' = omitidos \ LISTA_PCBS_EN_RAM
  /\ pc_general' = "pide_de_nuevo"
  /\ UNCHANGED <<varsM, estado, LISTA_PCBS_EN_RAM, motivo, dormir, cpu,
                 espacioUsuario, historia>>

\* The segment is asked for again.
PedirOtraVez(p) ==
  /\ pc_general = "pide_de_nuevo"
  /\ estado[p] = "exec"
  /\ PedirDeNuevo
  /\ RespuestaCreate(p, pcb[p])
  /\ UNCHANGED <<copiados, motivo, dormir, espacioUsuario, historia>>

\* DELETE_SEGMENT: memory sends the table of the process.
BorrarSegmento(p, s) ==
  /\ Busca(p, "DELETE_SEGMENT")
  /\ DELETE_SEGMENT(p, s)
  /\ LET l == Hallados(listaSegmentos', p) \o <<segmento_0>> IN
     devolver_ce_a_cpu(p, [ContextoAvanzado EXCEPT !.tabla = l,
                                                   !.tamanio_tabla = Len(l)])
  /\ motivo' = 0
  /\ historia' = [Anotar(p) EXCEPT !.escrito =
                    {e \in @ : ~(e.dir[1] = p /\ e.dir[2] = s.id)}]
  /\ omitidos' = omitidos \ {p}
  /\ UNCHANGED <<dormir, espacioUsuario>>

-----------------------------------------------------------------------------
(* terminar_consola.                                                       *)

terminar_consola(p) ==
  /\ actualizar_pcb(p, cpu.ctx)
  /\ estado' = [estado EXCEPT ![p] = "exit"]
  /\ pc_general' = "finaliza"
  /\ cpu' = SinContexto
  /\ motivo' = 0
  /\ UNCHANGED <<varsM, copiados, dormir, espacioUsuario, historia>>

EXIT(p) == Busca(p, "EXIT") /\ terminar_consola(p)

\* MOV_IN or MOV_OUT past the end of the segment.
SEG_FAULT(p, id, d) ==
  /\ Busca(p, "MOV_IN") \/ Busca(p, "MOV_OUT")
  /\ usarMMU(cpu.ctx, id, d) = -1
  /\ terminar_consola(p)

\* finalizar_proceso_en_memoria and its answer.
Finalizar(p) ==
  /\ pc_general = "finaliza"
  /\ estado[p] = "exit"
  /\ FinalizarProceso(p)
  /\ pc_general' = "espera_pcb"
  /\ historia' = [historia EXCEPT !.escrito = {e \in @ : e.dir[1] # p}]
  /\ UNCHANGED <<estado, pcb, copiados, motivo, dormir, cpu,
                 espacioUsuario>>

-----------------------------------------------------------------------------
\* The offsets a script may use in a segment, one past its end included.
Accesos(c) ==
  {<<c.tabla[i].id, d>> : i \in DOMAIN c.tabla, d \in 0 .. TamSegmento0}

InstruccionDeCPU(p) ==
  \/ \E v \in Valores : SET(p, v)
  \/ \E a \in Accesos(cpu.ctx) :
       \/ MOV_IN(p, a[1], a[2])
       \/ MOV_OUT(p, a[1], a[2])
       \/ SEG_FAULT(p, a[1], a[2])

InstruccionDeKernel(p) ==
  \/ YIELD(p)
  \/ \E t \in Tiempos : IO(p, t)
  \/ WAIT(p)
  \/ SIGNAL(p)
  \/ CrearSegmento(p)
  \/ \E s \in Range(listaSegmentos) : BorrarSegmento(p, s)
  \/ EXIT(p)

Compactacion ==
  \/ Compactar
  \/ CopiarReady
  \/ CopiarBlocked
  \/ ActualizarTablas
  \/ \E p \in Procesos : PedirOtraVez(p)

NextC ==
  \/ \E p \in Procesos :
       \/ crear_pcb(p)
       \/ pasar_a_ready(p)
       \/ Ejecutar(p)
       \/ InstruccionDeCPU(p)
       \/ InstruccionDeKernel(p)
       \/ LeerTiempo(p)
       \/ SalirDeBlocked(p)
       \/ FinDeSleep(p)
       \/ Finalizar(p)
  \/ Compactacion

SpecC == InitC /\ [][NextC]_varsC

-----------------------------------------------------------------------------
(* Properties.                                                             *)

\* Every variable of this module keeps its type: what a register or a byte holds
\* is a value that some script set, and a PCB counts no more segments than it has.
TypeOKC ==
  /\ estado \in [Procesos -> {"sin_conexion", "new", "ready", "exec", "blocked",
                              "ninguna", "espera", "exit"}]
  /\ \A p \in Procesos : /\ pcb[p].pc \in Nat /\ pcb[p].registro \in Valores
                         /\ pcb[p].tamanio_tabla \in 1 .. MaxSegmentos + 1
  /\ cpu.proc \in Procesos \union {Global}
  /\ cpu.ctx.registro \in Valores
  /\ LISTA_PCBS_EN_RAM \subseteq Procesos /\ omitidos \subseteq Procesos
  /\ motivo \in Nat
  /\ dormir \in [Procesos -> Nat \union {SinTiempo, PorLeer}]
  /\ espacioUsuario \in [0 .. TamMemoria - 1 -> Valores]

\* The context of a process, wherever it is.
ContextoDe(p) == IF cpu.proc = p THEN cpu.ctx ELSE pcb[p]

\* A process goes on where it was, with the registers it had: each instruction is
\* executed once and in order, however often the process leaves the CPU and
\* whatever the others do meanwhile.
ContextoConservado ==
  \A p \in Procesos :
    /\ ContextoDe(p).pc = historia.pc[p]
    /\ ContextoDe(p).registro = historia.registro[p]

\* tamanio_tabla, which says how many entries are sent, is the length of the
\* table: none is left out and none is read past its end, even after a compaction
\* that rewrote the table and not the count.
TablaEntera ==
  \A p \in Procesos : pcb[p].tamanio_tabla = Len(pcb[p].tabla)

Corriente == pc_general \in {"espera_pcb", "espera_cym"}

Admitidos == Procesos \ EnLista({"sin_conexion", "new", "exit"})

\* The table of p is what memory has for it, and segmento_0.
TablaAlDia(p) ==
  Range(ContextoDe(p).tabla) = Range(buscarSegmentoPorPID(p)) \union {segmento_0}

\* While no segment instruction is under way, the table of an admitted process is
\* what memory has for it, wherever the process is and whoever created, deleted or
\* had memory compacted meanwhile: unless a compaction found it in none of the
\* lists it copies, and no later one, nor a DELETE_SEGMENT of its own, has made its
\* table again.
TablasAlDia ==
  Corriente => \A p \in Admitidos \ omitidos : TablaAlDia(p)

\* hilo_general.c:850, "Borrar las listas de segmentos de todos los procesos", to
\* fill them again: the same of every admitted process.
TablasDeTodos == Corriente => \A p \in Admitidos : TablaAlDia(p)

\* cpu/src/hilo_kernel.c:207, of MOV_OUT: "Lee el valor del Registro y lo escribe
\* en la direccion fisica de memoria obtenida a partir de la Direccion Logica":
\* the byte at a logical address is the last one written through it.
LeeLoUltimo ==
  \A p \in Procesos : \A e \in historia.escrito :
    cpu.proc = p /\ e.dir[1] \in {p, Global} =>
      espacioUsuario[usarMMU(cpu.ctx, e.dir[2], e.dir[3])] = e.valor

\* hilo_general.c:53, "preparo los datos para enviar la PCB al hilo de sleep": a
\* process sleeps the time its instruction says.
DuermeLoPedido ==
  \A p \in Procesos : dormir[p] \in Nat => dormir[p] = historia.tiempo[p]
=============================================================================

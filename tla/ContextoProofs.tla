--------------------------- MODULE ContextoProofs ---------------------------
(***************************************************************************)
(* Proofs about the execution context (module Contexto): a process goes on *)
(* where it was and with the registers it had, for any scripts, processes  *)
(* and sizes, compactions included.  Its table has the entries that        *)
(* tamanio_tabla says, always, and they are the segments memory keeps for  *)
(* it, unless a compaction left the process out.                           *)
(*                                                                         *)
(* A context is in three places, the PCB, the CPU and the message between  *)
(* the two, and memory, the planners and the other handlers run meanwhile. *)
(* EnUnLugar says which copy counts and when there are two: the CPU has a  *)
(* context only while its process is in LISTA_EXEC and hilo_general waits  *)
(* for it.  The table follows the list of memory, whose invariant          *)
(* (IMemoria) holds here because each step is one of memory's or leaves it *)
(* as it was; a table that does not follow it yet is one that a compaction *)
(* under way is to rewrite (Falta).                                        *)
(***************************************************************************)
EXTENDS Contexto, MemoriaProofs

-----------------------------------------------------------------------------
(* Records.                                                                *)

EsContexto(c) ==
  c = [pc |-> c.pc, registro |-> c.registro, tabla |-> c.tabla,
       tamanio_tabla |-> c.tamanio_tabla]

\* A context that has pc n and register v.
Lleva(c, n, v) == EsContexto(c) /\ c.pc = n /\ c.registro = v

EsHistoria(h) ==
  /\ h = [pc |-> h.pc, registro |-> h.registro, escrito |-> h.escrito,
          tiempo |-> h.tiempo]
  /\ h.pc = [p \in Procesos |-> h.pc[p]]
  /\ h.registro = [p \in Procesos |-> h.registro[p]]

Contexto_(n, v, t, k) == [pc |-> n, registro |-> v, tabla |-> t, tamanio_tabla |-> k]
Historia_(n, v, e, t) == [pc |-> n, registro |-> v, escrito |-> e, tiempo |-> t]

\* The changes the steps make to a context and to the history.
ConTabla(c, x) == [c EXCEPT !.tabla = x]
ConTamanio(c, x) == [c EXCEPT !.tamanio_tabla = x]
ConRegistro(c, x) == [c EXCEPT !.registro = x]
Avanzado(c) == [c EXCEPT !.pc = @ + 1]

ConEscrito(h, x) == [h EXCEPT !.escrito = x]
ConTiempo(h, p, x) == [h EXCEPT !.tiempo[p] = x]
ConPC(h, p) == [h EXCEPT !.pc[p] = @ + 1]
ConValor(h, p, x) == [h EXCEPT !.registro[p] = x]

LEMMA CambiarContexto ==
  ASSUME NEW c, NEW n, NEW v, Lleva(c, n, v), NEW x
  PROVE  /\ Lleva(ConTabla(c, x), n, v)
         /\ Lleva(ConTamanio(c, x), n, v)
         /\ Lleva(Avanzado(c), n + 1, v)
         /\ Lleva(ConRegistro(c, x), n, x)
  <1> DEFINE t == c.tabla
             m == c.tamanio_tabla
  <1>1. c = Contexto_(n, v, t, m)
    BY DEF Lleva, EsContexto, Contexto_
  <1> HIDE DEF t, m
  <1>2. \A a, b, i, j : Lleva(Contexto_(i, j, a, b), i, j)
    BY DEF Lleva, EsContexto, Contexto_
  <1>3. /\ ConTabla(Contexto_(n, v, t, m), x) = Contexto_(n, v, x, m)
        /\ ConTamanio(Contexto_(n, v, t, m), x) = Contexto_(n, v, t, x)
        /\ ConRegistro(Contexto_(n, v, t, m), x) = Contexto_(n, x, t, m)
    BY DEF Contexto_, ConTabla, ConTamanio, ConRegistro
  <1>4. Avanzado(Contexto_(n, v, t, m)) = Contexto_(n + 1, v, t, m)
    BY DEF Contexto_, Avanzado
  <1> QED BY <1>1, <1>2, <1>3, <1>4

\* The two changes that keep the program counters and the registers.
LEMMA CambiarLoDemas ==
  ASSUME NEW h, EsHistoria(h), NEW p \in Procesos, NEW x
  PROVE  /\ EsHistoria(ConEscrito(h, x))
         /\ ConEscrito(h, x).pc = h.pc /\ ConEscrito(h, x).registro = h.registro
         /\ EsHistoria(ConTiempo(h, p, x))
         /\ ConTiempo(h, p, x).pc = h.pc /\ ConTiempo(h, p, x).registro = h.registro
  <1> DEFINE n == h.pc
             v == h.registro
             e == h.escrito
             t == h.tiempo
  <1>1. h = Historia_(n, v, e, t)
    BY DEF EsHistoria, Historia_
  <1>2. n = [q \in Procesos |-> n[q]] /\ v = [q \in Procesos |-> v[q]]
    BY DEF EsHistoria
  <1> HIDE DEF n, v, e, t
  <1>3. /\ ConEscrito(Historia_(n, v, e, t), x) = Historia_(n, v, x, t)
        /\ ConTiempo(Historia_(n, v, e, t), p, x)
             = Historia_(n, v, e, [t EXCEPT ![p] = x])
    BY DEF Historia_, ConEscrito, ConTiempo
  <1>4. \A c, d : /\ Historia_(n, v, c, d).pc = n /\ Historia_(n, v, c, d).registro = v
                  /\ EsHistoria(Historia_(n, v, c, d))
    BY <1>2 DEF Historia_, EsHistoria
  <1>5. n = h.pc /\ v = h.registro
    BY DEF n, v
  <1> QED BY <1>1, <1>3, <1>4, <1>5

\* An instruction of p, and a register of p.
LEMMA CambiarHistoria ==
  ASSUME NEW h, EsHistoria(h), NEW p \in Procesos, NEW x
  PROVE  /\ EsHistoria(ConPC(h, p))
         /\ ConPC(h, p).pc[p] = h.pc[p] + 1
         /\ \A q \in Procesos : q # p => ConPC(h, p).pc[q] = h.pc[q]
         /\ ConPC(h, p).registro = h.registro
         /\ EsHistoria(ConValor(h, p, x))
         /\ ConValor(h, p, x).registro[p] = x
         /\ \A q \in Procesos : q # p => ConValor(h, p, x).registro[q] = h.registro[q]
         /\ ConValor(h, p, x).pc = h.pc
  <1> DEFINE n == h.pc
             v == h.registro
             e == h.escrito
             t == h.tiempo
             n1 == [n EXCEPT ![p] = @ + 1]
             vx == [v EXCEPT ![p] = x]
  <1>1. h = Historia_(n, v, e, t)
    BY DEF EsHistoria, Historia_
  <1>2. n = [q \in Procesos |-> n[q]] /\ v = [q \in Procesos |-> v[q]]
    BY DEF EsHistoria
  <1>3. /\ n1 = [q \in Procesos |-> n1[q]] /\ n1[p] = n[p] + 1
        /\ \A q \in Procesos : q # p => n1[q] = n[q]
    BY <1>2
  <1>4. /\ vx = [q \in Procesos |-> vx[q]] /\ vx[p] = x
        /\ \A q \in Procesos : q # p => vx[q] = v[q]
    BY <1>2
  <1> HIDE DEF n, v, e, t
  <1>5. /\ ConPC(Historia_(n, v, e, t), p) = Historia_(n1, v, e, t)
        /\ ConValor(Historia_(n, v, e, t), p, x) = Historia_(n, vx, e, t)
    BY DEF Historia_, ConPC, ConValor
  <1>6. \A a, b, c, d : /\ Historia_(a, b, c, d).pc = a
                        /\ Historia_(a, b, c, d).registro = b
                        /\ (a = [q \in Procesos |-> a[q]] /\ b = [q \in Procesos |-> b[q]]
                              => EsHistoria(Historia_(a, b, c, d)))
    BY DEF Historia_, EsHistoria
  <1> HIDE DEF n1, vx
  <1>7. n = h.pc /\ v = h.registro
    BY DEF n, v
  <1> QED BY <1>1, <1>2, <1>3, <1>4, <1>5, <1>6, <1>7

-----------------------------------------------------------------------------
(* The inductive invariant.                                                *)

\* The context of p is the one its history says.
AlDia(p) == Lleva(ContextoDe(p), historia.pc[p], historia.registro[p])

\* The CPU has the context of the process in LISTA_EXEC, and only while
\* hilo_general waits for it.
EnUnLugar ==
  cpu.proc \in Procesos => pc_general = "espera_cym" /\ estado[cpu.proc] = "exec"

SinEmpezar(p) ==
  estado[p] = "sin_conexion" =>
    historia.pc[p] = 0 /\ historia.registro[p] = ValorInicial

Formas ==
  /\ pcb = [p \in Procesos |-> pcb[p]]
  /\ estado = [p \in Procesos |-> estado[p]]
  /\ cpu = [proc |-> cpu.proc, ctx |-> cpu.ctx]
  /\ EsHistoria(historia)

IContexto ==
  /\ Formas
  /\ EnUnLugar
  /\ \A p \in Procesos : AlDia(p) /\ SinEmpezar(p)

\* A step that concerns one process: the others keep their contexts, and the one
\* on the CPU, if it is another's, stays there.
LEMMA PasoDeUno ==
  ASSUME IContexto, Formas', NEW p \in Procesos,
         \A q \in Procesos : q # p =>
           /\ pcb'[q] = pcb[q] /\ estado'[q] = estado[q]
           /\ historia'.pc[q] = historia.pc[q]
           /\ historia'.registro[q] = historia.registro[q]
           /\ cpu'.proc = q <=> cpu.proc = q
           /\ cpu.proc = q => cpu'.ctx = cpu.ctx /\ pc_general' = pc_general,
         cpu'.proc # p => Lleva(pcb'[p], historia'.pc[p], historia'.registro[p]),
         cpu'.proc = p =>
           /\ Lleva(cpu'.ctx, historia'.pc[p], historia'.registro[p])
           /\ pc_general' = "espera_cym" /\ estado'[p] = "exec",
         estado'[p] # "sin_conexion"
           \/ (estado'[p] = estado[p] /\ historia'.pc[p] = historia.pc[p]
               /\ historia'.registro[p] = historia.registro[p])
  PROVE  IContexto'
  <1>1. EnUnLugar'
    BY DEF IContexto, EnUnLugar
  <1>2. ASSUME NEW q \in Procesos
        PROVE  AlDia(q)' /\ SinEmpezar(q)'
    <2>1. CASE q = p
      BY <2>1 DEF IContexto, AlDia, ContextoDe, SinEmpezar
    <2>2. CASE q # p
      BY <2>2 DEF IContexto, AlDia, ContextoDe, SinEmpezar
    <2> QED BY <2>1, <2>2
  <1> QED BY <1>1, <1>2 DEF IContexto

\* The context that travels is the one it was given.
LEMMA Enviado ==
  ASSUME NEW p \in Procesos, NEW c, NEW n, NEW v, Lleva(c, n, v), enviar_ce_a_cpu(p, c)
  PROVE  /\ cpu' = [proc |-> cpu'.proc, ctx |-> cpu'.ctx]
         /\ cpu'.proc = p /\ Lleva(cpu'.ctx, n, v)
  <1> DEFINE t == SubSeq(c.tabla, 1, IF c.tamanio_tabla < Len(c.tabla)
                                     THEN c.tamanio_tabla ELSE Len(c.tabla))
  <1>1. cpu' = [proc |-> p, ctx |-> ConTabla(c, t)]
    BY DEF enviar_ce_a_cpu, ConTabla
  <1> HIDE DEF t
  <1> QED BY <1>1, CambiarContexto

LEMMA SinContextoEs ==
  ASSUME cpu' = SinContexto
  PROVE  /\ cpu' = [proc |-> cpu'.proc, ctx |-> cpu'.ctx]
         /\ cpu'.proc \notin Procesos
  BY MemoriaAssumption DEF SinContexto

\* What an instruction of p finds.
LEMMA BuscaEs ==
  ASSUME IContexto, NEW p \in Procesos, NEW i, Busca(p, i)
  PROVE  /\ cpu.proc = p /\ pc_general = "espera_cym" /\ estado[p] = "exec"
         /\ Lleva(cpu.ctx, historia.pc[p], historia.registro[p])
         /\ Lleva(ContextoAvanzado, historia.pc[p] + 1, historia.registro[p])
  <1>1. /\ cpu.proc = p /\ pc_general = "espera_cym" /\ estado[p] = "exec"
        /\ Lleva(cpu.ctx, historia.pc[p], historia.registro[p])
    BY DEF IContexto, EnUnLugar, Busca, AlDia, ContextoDe
  <1>2. ContextoAvanzado = Avanzado(cpu.ctx)
    BY DEF ContextoAvanzado, Avanzado
  <1> QED BY <1>1, <1>2, CambiarContexto

\* h is the history after an instruction of p that leaves v in its registers.
Anotada(h, p, v) ==
  /\ EsHistoria(h)
  /\ h.pc[p] = historia.pc[p] + 1
  /\ h.registro[p] = v
  /\ \A q \in Procesos : q # p =>
       h.pc[q] = historia.pc[q] /\ h.registro[q] = historia.registro[q]

LEMMA AnotarEs ==
  ASSUME EsHistoria(historia), NEW p \in Procesos, NEW x
  PROVE  /\ Anotada(Anotar(p), p, historia.registro[p])
         /\ Anotada(ConValor(Anotar(p), p, x), p, x)
         /\ Anotada(ConEscrito(Anotar(p), x), p, historia.registro[p])
         /\ Anotada(ConTiempo(Anotar(p), p, x), p, historia.registro[p])
  <1>1. Anotar(p) = ConPC(historia, p)
    BY DEF Anotar, ConPC
  <1>2. Anotada(ConPC(historia, p), p, historia.registro[p])
    BY CambiarHistoria DEF Anotada
  <1>3. EsHistoria(ConPC(historia, p))
    BY <1>2 DEF Anotada
  <1>4. Anotada(ConValor(ConPC(historia, p), p, x), p, x)
    BY <1>2, <1>3, CambiarHistoria DEF Anotada
  <1>5. /\ Anotada(ConEscrito(ConPC(historia, p), x), p, historia.registro[p])
        /\ Anotada(ConTiempo(ConPC(historia, p), p, x), p, historia.registro[p])
    BY <1>2, <1>3, CambiarLoDemas DEF Anotada
  <1> QED BY <1>1, <1>2, <1>4, <1>5

LEMMA Actualizado ==
  ASSUME pcb = [p \in Procesos |-> pcb[p]], NEW p \in Procesos, NEW c,
         actualizar_pcb(p, c)
  PROVE  /\ pcb' = [q \in Procesos |-> pcb'[q]] /\ pcb'[p] = c
         /\ \A q \in Procesos : q # p => pcb'[q] = pcb[q]
  BY DEF actualizar_pcb

LEMMA Movido ==
  ASSUME estado = [p \in Procesos |-> estado[p]], NEW p \in Procesos, NEW lista,
         estado' = [estado EXCEPT ![p] = lista]
  PROVE  /\ estado' = [q \in Procesos |-> estado'[q]] /\ estado'[p] = lista
         /\ \A q \in Procesos : q # p => estado'[q] = estado[q]
  OBVIOUS

-----------------------------------------------------------------------------
(* The steps.                                                              *)

LEMMA PasosDeFuera ==
  ASSUME IContexto, NEW p \in Procesos,
         crear_pcb(p) \/ pasar_a_ready(p) \/ LeerTiempo(p) \/ SalirDeBlocked(p)
           \/ FinDeSleep(p)
  PROVE  IContexto'
  <1>1. CASE crear_pcb(p)
    <2>1. /\ estado[p] = "sin_conexion" /\ estado' = [estado EXCEPT ![p] = "new"]
          /\ pcb' = [pcb EXCEPT ![p] = ContextoNuevo]
          /\ UNCHANGED <<pc_general, cpu, historia>>
      BY <1>1 DEF crear_pcb
    <2>2. Lleva(ContextoNuevo, 0, ValorInicial)
      BY DEF Lleva, EsContexto, ContextoNuevo
    <2>3. cpu.proc # p
      BY <2>1 DEF IContexto, EnUnLugar
    <2>4. Formas' /\ pcb'[p] = ContextoNuevo /\ estado'[p] = "new"
      BY <2>1 DEF IContexto, Formas
    <2>5. \A q \in Procesos : q # p => pcb'[q] = pcb[q] /\ estado'[q] = estado[q]
      BY <2>1 DEF IContexto, Formas
    <2>6. historia.pc[p] = 0 /\ historia.registro[p] = ValorInicial
      BY <2>1 DEF IContexto, SinEmpezar
    <2> QED BY <2>1, <2>2, <2>3, <2>4, <2>5, <2>6, PasoDeUno
  <1>2. CASE pasar_a_ready(p) \/ FinDeSleep(p) \/ LeerTiempo(p) \/ SalirDeBlocked(p)
    <2>1. UNCHANGED <<pcb, pc_general, cpu>>
      BY <1>2 DEF pasar_a_ready, FinDeSleep, LeerTiempo, SalirDeBlocked
    <2>2. /\ estado' = [q \in Procesos |-> estado'[q]]
          /\ \A q \in Procesos : q # p => estado'[q] = estado[q]
          /\ estado'[p] = estado[p] \/ (estado[p] # "exec" /\ estado'[p] # "sin_conexion")
      BY <1>2 DEF pasar_a_ready, FinDeSleep, LeerTiempo, SalirDeBlocked, IContexto, Formas
    <2>3. EsHistoria(historia') /\ historia'.pc = historia.pc
          /\ historia'.registro = historia.registro
      <3>1. historia' = historia \/ historia' = ConTiempo(historia, p, SinTiempo)
        BY <1>2 DEF pasar_a_ready, FinDeSleep, LeerTiempo, SalirDeBlocked, ConTiempo
      <3>2. EsHistoria(historia)
        BY DEF IContexto, Formas
      <3> QED BY <3>1, <3>2, CambiarLoDemas
    <2>4. Formas'
      BY <2>1, <2>2, <2>3 DEF IContexto, Formas
    <2>5. cpu.proc = p => pc_general = "espera_cym" /\ estado[p] = "exec"
      BY DEF IContexto, EnUnLugar
    <2>6. /\ cpu.proc # p => Lleva(pcb[p], historia.pc[p], historia.registro[p])
          /\ cpu.proc = p => Lleva(cpu.ctx, historia.pc[p], historia.registro[p])
      BY DEF IContexto, AlDia, ContextoDe
    <2> QED BY <2>1, <2>2, <2>3, <2>4, <2>5, <2>6, PasoDeUno
  <1> QED BY <1>1, <1>2

LEMMA PasoEjecutar ==
  ASSUME IContexto, NEW p \in Procesos, Ejecutar(p)
  PROVE  IContexto'
  <1>1. /\ pc_general = "espera_pcb" /\ estado' = [estado EXCEPT ![p] = "exec"]
        /\ enviar_ce_a_cpu(p, pcb[p]) /\ pc_general' = "espera_cym"
        /\ UNCHANGED <<pcb, historia>>
    BY DEF Ejecutar
  <1>2. cpu.proc \notin Procesos
    BY <1>1 DEF IContexto, EnUnLugar
  <1>3. Lleva(pcb[p], historia.pc[p], historia.registro[p])
    BY <1>2 DEF IContexto, AlDia, ContextoDe
  <1>4. /\ cpu' = [proc |-> cpu'.proc, ctx |-> cpu'.ctx]
        /\ cpu'.proc = p /\ Lleva(cpu'.ctx, historia.pc[p], historia.registro[p])
    BY <1>1, <1>3, Enviado
  <1>5. /\ estado' = [q \in Procesos |-> estado'[q]] /\ estado'[p] = "exec"
        /\ \A q \in Procesos : q # p => estado'[q] = estado[q]
    BY <1>1, Movido DEF IContexto, Formas
  <1>6. Formas'
    BY <1>1, <1>4, <1>5 DEF IContexto, Formas
  <1> QED BY <1>1, <1>2, <1>4, <1>5, <1>6, PasoDeUno

\* The two ways a step of p ends: with its context on the CPU or in its PCB.
EnLaCPU(p, n, v) ==
  /\ cpu' = [proc |-> cpu'.proc, ctx |-> cpu'.ctx] /\ cpu'.proc = p
  /\ Lleva(cpu'.ctx, n, v)
  /\ pc_general' = "espera_cym"
  /\ estado' = estado /\ estado[p] = "exec"

EnElPCB(p, n, v) ==
  /\ cpu' = SinContexto
  /\ Lleva(pcb'[p], n, v)
  /\ estado' = [q \in Procesos |-> estado'[q]]
  /\ \A q \in Procesos : q # p => estado'[q] = estado[q]
  /\ estado'[p] # "sin_conexion"

LEMMA PasoDeSuProceso ==
  ASSUME IContexto, NEW p \in Procesos, cpu.proc = p \/ cpu.proc \notin Procesos,
         pcb' = [q \in Procesos |-> pcb'[q]],
         \A q \in Procesos : q # p => pcb'[q] = pcb[q],
         EsHistoria(historia'),
         \A q \in Procesos : q # p => /\ historia'.pc[q] = historia.pc[q]
                                      /\ historia'.registro[q] = historia.registro[q],
         \/ EnLaCPU(p, historia'.pc[p], historia'.registro[p])
         \/ EnElPCB(p, historia'.pc[p], historia'.registro[p])
  PROVE  IContexto'
  <1>1. CASE EnLaCPU(p, historia'.pc[p], historia'.registro[p])
    <2>1. Formas'
      BY <1>1 DEF IContexto, Formas, EnLaCPU
    <2>2. \A q \in Procesos : q # p => ~(cpu'.proc = q) /\ ~(cpu.proc = q)
      BY <1>1 DEF EnLaCPU
    <2>3. /\ cpu'.proc = p /\ Lleva(cpu'.ctx, historia'.pc[p], historia'.registro[p])
          /\ pc_general' = "espera_cym" /\ estado' = estado /\ estado'[p] = "exec"
      BY <1>1 DEF EnLaCPU
    <2> QED BY <2>1, <2>2, <2>3, PasoDeUno
  <1>2. CASE EnElPCB(p, historia'.pc[p], historia'.registro[p])
    <2>1. Formas' /\ cpu'.proc \notin Procesos
      BY <1>2, SinContextoEs DEF IContexto, Formas, EnElPCB
    <2>2. \A q \in Procesos : q # p => ~(cpu'.proc = q) /\ ~(cpu.proc = q)
      BY <2>1
    <2>3. /\ Lleva(pcb'[p], historia'.pc[p], historia'.registro[p])
          /\ \A q \in Procesos : q # p => estado'[q] = estado[q]
          /\ estado'[p] # "sin_conexion" /\ cpu'.proc # p
      BY <1>2, <2>1 DEF EnElPCB
    <2> QED BY <2>1, <2>2, <2>3, PasoDeUno
  <1> QED BY <1>1, <1>2

\* The instructions the CPU runs by itself: p stays there with a new context.
LEMMA PasoDeCPU ==
  ASSUME IContexto, NEW p \in Procesos, NEW i, Busca(p, i),
         UNCHANGED kernelC, NEW c, cpu' = [cpu EXCEPT !.ctx = c], NEW v,
         Anotada(historia', p, v), Lleva(c, historia.pc[p] + 1, v)
  PROVE  IContexto'
  <1>1. /\ cpu.proc = p /\ pc_general = "espera_cym" /\ estado[p] = "exec"
    BY BuscaEs
  <1>2. cpu' = [proc |-> cpu'.proc, ctx |-> cpu'.ctx] /\ cpu'.proc = p /\ cpu'.ctx = c
    BY <1>1 DEF IContexto, Formas
  <1>3. UNCHANGED <<estado, pcb, pc_general>>
    BY DEF kernelC
  <1>4. EnLaCPU(p, historia'.pc[p], historia'.registro[p])
    BY <1>1, <1>2, <1>3 DEF EnLaCPU, Anotada
  <1> QED BY <1>1, <1>3, <1>4, PasoDeSuProceso DEF Anotada, IContexto, Formas

LEMMA PasoInstruccionDeCPU ==
  ASSUME IContexto, NEW p \in Procesos, NEW v, NEW id, NEW d,
         SET(p, v) \/ MOV_IN(p, id, d) \/ MOV_OUT(p, id, d)
  PROVE  IContexto'
  <1>1. EsHistoria(historia)
    BY DEF IContexto, Formas
  <1>2. ASSUME NEW i, NEW x, Busca(p, i), UNCHANGED kernelC,
               cpu' = [cpu EXCEPT !.ctx = ConRegistro(ContextoAvanzado, x)],
               historia' = ConValor(Anotar(p), p, x)
        PROVE  IContexto'
    <2>1. Lleva(ConRegistro(ContextoAvanzado, x), historia.pc[p] + 1, x)
      BY <1>2, BuscaEs, CambiarContexto
    <2>2. Anotada(historia', p, x)
      BY <1>1, <1>2, AnotarEs
    <2> QED BY <1>2, <2>1, <2>2, PasoDeCPU
  <1>3. CASE SET(p, v)
    <2>1. /\ Busca(p, "SET") /\ UNCHANGED kernelC
          /\ cpu' = [cpu EXCEPT !.ctx = ConRegistro(ContextoAvanzado, v)]
          /\ historia' = ConValor(Anotar(p), p, v)
      BY <1>3 DEF SET, ConRegistro, ConValor
    <2> QED BY <1>2, <2>1
  <1>4. CASE MOV_IN(p, id, d)
    <2> DEFINE x == espacioUsuario[usarMMU(cpu.ctx, id, d)]
    <2>1. /\ Busca(p, "MOV_IN") /\ UNCHANGED kernelC
          /\ cpu' = [cpu EXCEPT !.ctx = ConRegistro(ContextoAvanzado, x)]
          /\ historia' = ConValor(Anotar(p), p, x)
      BY <1>4 DEF MOV_IN, ConRegistro, ConValor
    <2> HIDE DEF x
    <2> QED BY <1>2, <2>1
  <1>5. CASE MOV_OUT(p, id, d)
    <2> DEFINE x == {e \in Anotar(p).escrito : e.dir # Logica(p, id, d)}
                      \union {[dir |-> Logica(p, id, d), valor |-> cpu.ctx.registro]}
    <2>1. /\ Busca(p, "MOV_OUT") /\ UNCHANGED kernelC
          /\ cpu' = [cpu EXCEPT !.ctx = ContextoAvanzado]
          /\ historia' = ConEscrito(Anotar(p), x)
      BY <1>5 DEF MOV_OUT, ConEscrito
    <2> HIDE DEF x
    <2>2. Anotada(historia', p, historia.registro[p])
      BY <1>1, <2>1, AnotarEs
    <2>3. Lleva(ContextoAvanzado, historia.pc[p] + 1, historia.registro[p])
      BY <2>1, BuscaEs
    <2> QED BY <2>1, <2>2, <2>3, PasoDeCPU
  <1> QED BY <1>3, <1>4, <1>5

\* The instructions after which another process may run.
LEMMA PasoQueDeja ==
  ASSUME IContexto, NEW p \in Procesos, NEW t, YIELD(p) \/ IO(p, t) \/ WAIT(p)
  PROVE  IContexto'
  <1>1. EsHistoria(historia) /\ pcb = [q \in Procesos |-> pcb[q]]
        /\ estado = [q \in Procesos |-> estado[q]]
    BY DEF IContexto, Formas
  <1>2. \E i : Busca(p, i)
    BY DEF YIELD, IO, WAIT, Recibe
  <1>3. /\ cpu.proc = p
        /\ Lleva(ContextoAvanzado, historia.pc[p] + 1, historia.registro[p])
    BY <1>2, BuscaEs
  <1>4. historia' = Anotar(p) \/ historia' = ConTiempo(Anotar(p), p, t)
    BY DEF YIELD, IO, WAIT, Recibe, ConTiempo
  <1>5. Anotada(historia', p, historia.registro[p])
    BY <1>1, <1>4, AnotarEs
  <1>6. actualizar_pcb(p, ContextoAvanzado) /\ cpu' = SinContexto
    BY DEF YIELD, IO, WAIT, Deja
  <1>7. \E lista \in {"ready", "blocked", "espera"} : estado' = [estado EXCEPT ![p] = lista]
    BY DEF YIELD, IO, WAIT, Deja
  <1>8. /\ pcb' = [q \in Procesos |-> pcb'[q]] /\ pcb'[p] = ContextoAvanzado
        /\ \A q \in Procesos : q # p => pcb'[q] = pcb[q]
    BY <1>1, <1>6, Actualizado
  <1>9. /\ estado' = [q \in Procesos |-> estado'[q]] /\ estado'[p] # "sin_conexion"
        /\ \A q \in Procesos : q # p => estado'[q] = estado[q]
    BY <1>1, <1>7, Movido
  <1>10. EnElPCB(p, historia'.pc[p], historia'.registro[p])
    BY <1>3, <1>5, <1>6, <1>8, <1>9 DEF EnElPCB, Anotada
  <1> QED BY <1>3, <1>5, <1>8, <1>10, PasoDeSuProceso DEF Anotada

\* Adding a segment keeps the rest of the context.
LEMMA SegmentoAgregado ==
  ASSUME NEW c, NEW n, NEW v, Lleva(c, n, v), NEW s
  PROVE  Lleva(agregar_segmento(c, s), n, v)
  <1> DEFINE t == Append(c.tabla, s)
             k == c.tamanio_tabla + 1
  <1>1. agregar_segmento(c, s) = [c EXCEPT !.tabla = t, !.tamanio_tabla = k]
    BY DEF agregar_segmento
  <1> HIDE DEF t, k
  <1>2. [c EXCEPT !.tabla = t, !.tamanio_tabla = k] = ConTamanio(ConTabla(c, t), k)
    BY DEF ConTabla, ConTamanio
  <1>3. Lleva(ConTamanio(ConTabla(c, t), k), n, v)
    BY CambiarContexto
  <1> QED BY <1>1, <1>2, <1>3

LEMMA PasoDevuelve ==
  ASSUME IContexto, NEW p \in Procesos, cpu.proc = p, estado[p] = "exec",
         pc_general = "espera_cym", NEW c, devolver_ce_a_cpu(p, c),
         Anotada(historia', p, historia.registro[p]),
         Lleva(c, historia.pc[p] + 1, historia.registro[p])
  PROVE  IContexto'
  <1>1. /\ actualizar_pcb(p, c) /\ enviar_ce_a_cpu(p, c)
        /\ estado' = estado /\ pc_general' = pc_general
    BY DEF devolver_ce_a_cpu
  <1>2. /\ pcb' = [q \in Procesos |-> pcb'[q]]
        /\ \A q \in Procesos : q # p => pcb'[q] = pcb[q]
    BY <1>1, Actualizado DEF IContexto, Formas
  <1>3. EnLaCPU(p, historia'.pc[p], historia'.registro[p])
    BY <1>1, Enviado DEF EnLaCPU, Anotada
  <1> QED BY <1>2, <1>3, PasoDeSuProceso DEF Anotada

LEMMA PasoSIGNAL ==
  ASSUME IContexto, NEW p \in Procesos, SIGNAL(p)
  PROVE  IContexto'
  <1>1. /\ Busca(p, "SIGNAL") /\ historia' = Anotar(p)
        /\ devolver_ce_a_cpu(p, ContextoAvanzado)
    BY DEF SIGNAL, Recibe
  <1>2. Anotada(historia', p, historia.registro[p])
    BY <1>1, AnotarEs DEF IContexto, Formas
  <1> QED BY <1>1, <1>2, BuscaEs, PasoDevuelve

LEMMA PasoBorrarSegmento ==
  ASSUME IContexto, NEW p \in Procesos, NEW s, BorrarSegmento(p, s)
  PROVE  IContexto'
  <1> DEFINE l == Hallados(listaSegmentos', p) \o <<segmento_0>>
             k == Len(l)
             e == {x \in Anotar(p).escrito : ~(x.dir[1] = p /\ x.dir[2] = s.id)}
  <1>1. /\ Busca(p, "DELETE_SEGMENT")
        /\ devolver_ce_a_cpu(p, [ContextoAvanzado EXCEPT !.tabla = l,
                                                         !.tamanio_tabla = k])
        /\ historia' = ConEscrito(Anotar(p), e)
    BY DEF BorrarSegmento, ConEscrito
  <1> HIDE DEF l, k, e
  <1>2. [ContextoAvanzado EXCEPT !.tabla = l, !.tamanio_tabla = k]
          = ConTamanio(ConTabla(ContextoAvanzado, l), k)
    BY DEF ConTabla, ConTamanio
  <1>3. devolver_ce_a_cpu(p, ConTamanio(ConTabla(ContextoAvanzado, l), k))
    BY <1>1, <1>2
  <1>4. Lleva(ContextoAvanzado, historia.pc[p] + 1, historia.registro[p])
    BY <1>1, BuscaEs
  <1>5. Lleva(ConTamanio(ConTabla(ContextoAvanzado, l), k),
              historia.pc[p] + 1, historia.registro[p])
    BY <1>4, CambiarContexto
  <1>6. Anotada(historia', p, historia.registro[p])
    BY <1>1, AnotarEs DEF IContexto, Formas
  <1> QED BY <1>1, <1>3, <1>5, <1>6, BuscaEs, PasoDevuelve

\* The three answers to a request for a segment, with c the context so far.
LEMMA PasoRespuestaCreate ==
  ASSUME IContexto, NEW p \in Procesos, cpu.proc = p \/ cpu.proc \notin Procesos,
         estado[p] = "exec", NEW c, RespuestaCreate(p, c), EsHistoria(historia'),
         \A q \in Procesos : q # p => /\ historia'.pc[q] = historia.pc[q]
                                      /\ historia'.registro[q] = historia.registro[q],
         Lleva(c, historia'.pc[p], historia'.registro[p])
  PROVE  IContexto'
  <1> DEFINE nuevo == agregar_segmento(c, Last(listaSegmentos'))
  <1>1. Lleva(nuevo, historia'.pc[p], historia'.registro[p])
    BY SegmentoAgregado
  <1>2. pcb = [q \in Procesos |-> pcb[q]] /\ estado = [q \in Procesos |-> estado[q]]
    BY DEF IContexto, Formas
  <1>3. CASE actualizar_pcb(p, nuevo) /\ enviar_ce_a_cpu(p, nuevo)
             /\ pc_general' = "espera_cym" /\ UNCHANGED estado
    <2> HIDE DEF nuevo
    <2>1. EnLaCPU(p, historia'.pc[p], historia'.registro[p])
      BY <1>1, <1>3, Enviado DEF EnLaCPU
    <2> QED BY <1>2, <1>3, <2>1, Actualizado, PasoDeSuProceso
  <1>4. CASE actualizar_pcb(p, c) /\ cpu' = SinContexto
             /\ (estado' = estado \/ estado' = [estado EXCEPT ![p] = "exit"])
    <2>1. /\ estado' = [q \in Procesos |-> estado'[q]] /\ estado'[p] # "sin_conexion"
          /\ \A q \in Procesos : q # p => estado'[q] = estado[q]
      BY <1>2, <1>4, Movido
    <2>2. pcb'[p] = c
      BY <1>2, <1>4, Actualizado
    <2>3. EnElPCB(p, historia'.pc[p], historia'.registro[p])
      BY <1>4, <2>1, <2>2 DEF EnElPCB
    <2> QED BY <1>2, <1>4, <2>3, Actualizado, PasoDeSuProceso
  <1> QED BY <1>3, <1>4 DEF RespuestaCreate

LEMMA PasoCrearSegmento ==
  ASSUME IContexto, NEW p \in Procesos, CrearSegmento(p)
  PROVE  IContexto'
  <1>1. /\ Busca(p, "CREATE_SEGMENT") /\ historia' = Anotar(p)
        /\ RespuestaCreate(p, ContextoAvanzado)
    BY DEF CrearSegmento, Recibe
  <1>2. Anotada(historia', p, historia.registro[p])
    BY <1>1, AnotarEs DEF IContexto, Formas
  <1>3. /\ cpu.proc = p /\ estado[p] = "exec"
        /\ Lleva(ContextoAvanzado, historia'.pc[p], historia'.registro[p])
    BY <1>1, <1>2, BuscaEs DEF Anotada
  <1> QED BY <1>1, <1>2, <1>3, PasoRespuestaCreate DEF Anotada

\* The answer to the second request: the context waited in the PCB meanwhile.
LEMMA PasoPedirOtraVez ==
  ASSUME IContexto, NEW p \in Procesos, PedirOtraVez(p)
  PROVE  IContexto'
  <1>1. /\ pc_general = "pide_de_nuevo" /\ estado[p] = "exec"
        /\ RespuestaCreate(p, pcb[p]) /\ historia' = historia
    BY DEF PedirOtraVez
  <1>2. cpu.proc \notin Procesos
    BY <1>1 DEF IContexto, EnUnLugar
  <1>3. Lleva(pcb[p], historia'.pc[p], historia'.registro[p])
    BY <1>1, <1>2 DEF IContexto, AlDia, ContextoDe
  <1>4. EsHistoria(historia')
    BY <1>1 DEF IContexto, Formas
  <1> QED BY <1>1, <1>2, <1>3, <1>4, PasoRespuestaCreate

LEMMA PasoTerminar ==
  ASSUME IContexto, NEW p \in Procesos, NEW i, Busca(p, i), terminar_consola(p)
  PROVE  IContexto'
  <1>1. /\ actualizar_pcb(p, cpu.ctx) /\ estado' = [estado EXCEPT ![p] = "exit"]
        /\ cpu' = SinContexto /\ historia' = historia
    BY DEF terminar_consola
  <1>2. pcb = [q \in Procesos |-> pcb[q]] /\ estado = [q \in Procesos |-> estado[q]]
        /\ EsHistoria(historia')
    BY <1>1 DEF IContexto, Formas
  <1>3. /\ cpu.proc = p
        /\ Lleva(cpu.ctx, historia'.pc[p], historia'.registro[p])
    BY <1>1, BuscaEs
  <1>4. /\ estado' = [q \in Procesos |-> estado'[q]] /\ estado'[p] # "sin_conexion"
        /\ \A q \in Procesos : q # p => estado'[q] = estado[q]
    BY <1>1, <1>2, Movido
  <1>5. EnElPCB(p, historia'.pc[p], historia'.registro[p])
    BY <1>1, <1>2, <1>3, <1>4, Actualizado DEF EnElPCB
  <1> QED BY <1>1, <1>2, <1>3, <1>5, Actualizado, PasoDeSuProceso

\* The rest of the end of a process and of a compaction, which rewrites tables
\* and nothing else of a PCB.
LEMMA PasoSinCPU ==
  ASSUME IContexto, pc_general # "espera_cym", pc_general' # "espera_cym",
         cpu' = cpu, estado' = estado, EsHistoria(historia'),
         historia'.pc = historia.pc, historia'.registro = historia.registro,
         pcb' = [q \in Procesos |-> pcb'[q]],
         \A q \in Procesos : pcb'[q] = pcb[q] \/ \E t : pcb'[q] = ConTabla(pcb[q], t)
  PROVE  IContexto'
  <1>1. cpu.proc \notin Procesos
    BY DEF IContexto, EnUnLugar
  <1>2. Formas' /\ EnUnLugar'
    BY <1>1 DEF IContexto, Formas, EnUnLugar
  <1>3. ASSUME NEW q \in Procesos
        PROVE  AlDia(q)' /\ SinEmpezar(q)'
    <2>1. Lleva(pcb[q], historia.pc[q], historia.registro[q])
      BY <1>1 DEF IContexto, AlDia, ContextoDe
    <2>2. Lleva(pcb'[q], historia.pc[q], historia.registro[q])
      BY <2>1, CambiarContexto
    <2> QED BY <1>1, <2>2 DEF AlDia, ContextoDe, IContexto, SinEmpezar
  <1> QED BY <1>2, <1>3 DEF IContexto

LEMMA PasoFinalizarProceso ==
  ASSUME IContexto, NEW p \in Procesos, Finalizar(p)
  PROVE  IContexto'
  <1> DEFINE e == {x \in historia.escrito : x.dir[1] # p}
  <1>1. /\ pc_general = "finaliza" /\ pc_general' = "espera_pcb"
        /\ UNCHANGED <<cpu, estado, pcb>>
        /\ historia' = ConEscrito(historia, e)
    BY DEF Finalizar, ConEscrito
  <1> HIDE DEF e
  <1>2. EsHistoria(historia) /\ pcb = [q \in Procesos |-> pcb[q]]
    BY DEF IContexto, Formas
  <1>3. EsHistoria(historia') /\ historia'.pc = historia.pc
        /\ historia'.registro = historia.registro
    BY <1>1, <1>2, CambiarLoDemas
  <1> QED BY <1>1, <1>2, <1>3, PasoSinCPU

LEMMA PasoCompactacion ==
  ASSUME IContexto, Compactar \/ CopiarReady \/ CopiarBlocked \/ ActualizarTablas
  PROVE  IContexto'
  <1>1. EsHistoria(historia) /\ pcb = [q \in Procesos |-> pcb[q]]
    BY DEF IContexto, Formas
  <1>2. /\ pc_general # "espera_cym" /\ pc_general' # "espera_cym"
        /\ UNCHANGED <<cpu, estado, historia>>
    BY DEF Compactar, CopiarReady, CopiarBlocked, ActualizarTablas
  <1>3. CASE Compactar \/ CopiarReady \/ CopiarBlocked
    <2>1. pcb' = pcb
      BY <1>3 DEF Compactar, CopiarReady, CopiarBlocked
    <2> QED BY <1>1, <1>2, <2>1, PasoSinCPU
  <1>4. CASE ActualizarTablas
    <2> DEFINE t(q) == buscarSegmentoPorPID(q) \o <<Head(listaSegmentos)>>
    <2>1. pcb' = [q \in Procesos |-> IF q \in LISTA_PCBS_EN_RAM
                                     THEN ConTabla(pcb[q], t(q)) ELSE pcb[q]]
      BY <1>4 DEF ActualizarTablas, ConTabla
    <2> HIDE DEF t
    <2>2. /\ pcb' = [q \in Procesos |-> pcb'[q]]
          /\ \A q \in Procesos : pcb'[q] = pcb[q] \/ pcb'[q] = ConTabla(pcb[q], t(q))
      BY <2>1
    <2> QED BY <1>1, <1>2, <2>2, PasoSinCPU
  <1> QED BY <1>3, <1>4

LEMMA PasoIContexto == IContexto /\ [NextC]_varsC => IContexto'
  <1> SUFFICES ASSUME IContexto, [NextC]_varsC
               PROVE  IContexto'
    OBVIOUS
  <1>1. CASE UNCHANGED varsC
    BY <1>1
    DEF varsC, kernelC, IContexto, Formas, EnUnLugar, AlDia, ContextoDe, SinEmpezar
  <1>2. ASSUME NEW p \in Procesos, InstruccionDeCPU(p)
        PROVE  IContexto'
    <2>1. ASSUME NEW id, NEW d, SEG_FAULT(p, id, d)
          PROVE  IContexto'
      BY <2>1, PasoTerminar DEF SEG_FAULT
    <2> QED BY <1>2, <2>1, PasoInstruccionDeCPU DEF InstruccionDeCPU
  <1>3. ASSUME NEW p \in Procesos, InstruccionDeKernel(p)
        PROVE  IContexto'
    BY <1>3, PasoQueDeja, PasoSIGNAL, PasoCrearSegmento, PasoBorrarSegmento, PasoTerminar
    DEF InstruccionDeKernel, EXIT
  <1>4. CASE Compactacion
    BY <1>4, PasoCompactacion, PasoPedirOtraVez DEF Compactacion
  <1> QED BY <1>1, <1>2, <1>3, <1>4, PasosDeFuera, PasoEjecutar, PasoFinalizarProceso DEF NextC

LEMMA InicioIContexto == InitC => IContexto
  <1> SUFFICES ASSUME InitC PROVE IContexto
    OBVIOUS
  <1>1. Lleva(ContextoNuevo, 0, ValorInicial)
    BY DEF Lleva, EsContexto, ContextoNuevo
  <1>2. cpu.proc \notin Procesos
    BY MemoriaAssumption DEF InitC, SinContexto
  <1>3. /\ \A p \in Procesos : historia.pc[p] = 0 /\ historia.registro[p] = ValorInicial
        /\ EsHistoria(historia)
    BY DEF InitC, EsHistoria
  <1>4. Formas
    BY <1>3 DEF InitC, Formas, SinContexto
  <1>5. \A p \in Procesos : AlDia(p) /\ SinEmpezar(p)
    BY <1>1, <1>2, <1>3 DEF InitC, AlDia, ContextoDe, SinEmpezar
  <1> QED BY <1>2, <1>4, <1>5 DEF IContexto, EnUnLugar

\* Every instruction of a process runs once and in order, with the registers the
\* one before left, whatever the others do and however often the process leaves
\* the CPU or its tables are rewritten (actualizar_pcb, enviar_ce_a_cpu).
THEOREM ElContextoSeConserva == SpecC => []ContextoConservado
  <1>1. IContexto => ContextoConservado
    BY DEF IContexto, AlDia, Lleva, ContextoConservado
  <1> QED BY <1>1, InicioIContexto, PasoIContexto, PTL DEF SpecC

-----------------------------------------------------------------------------
(* The segments of each process in a list: their numbers, and themselves.  *)

Numeros(l, p) == {l[i].id : i \in {j \in DOMAIN l : l[j].pid = p}}
Entradas(l, p) == {l[i] : i \in {j \in DOMAIN l : l[j].pid = p}}

Mismos(m, l, p) == Numeros(m, p) = Numeros(l, p) /\ Entradas(m, p) = Entradas(l, p)

\* buscarSegmentoPorPID finds as many entries as numbers p uses.
LEMMA HalladosSon ==
  ASSUME NEW l \in Seq(EsSegmento), NEW V, NEW M, IdsDe(l, V, M), NEW p
  PROVE  /\ Hallados(l, p) \in Seq(EsSegmento)
         /\ Len(Hallados(l, p)) = Cardinality(Numeros(l, p))
         /\ IsFiniteSet(Numeros(l, p))
         /\ Range(Hallados(l, p)) = Entradas(l, p)
  <1>1. PICK h, n, N : h = Hallados(l, p) /\ n = Len(h) /\ N = Numeros(l, p)
    OBVIOUS
  <1>2. Halla(h, Len(l), l, p)
    BY <1>1, HalladosEs
  <1>3. h \in Seq(EsSegmento) /\ n \in Nat /\ DOMAIN h = 1 .. n /\ DOMAIN l = 1 .. Len(l)
    BY <1>1, <1>2 DEF Halla
  <1>4. \A i \in 1 .. n : \E j \in 1 .. Len(l) : h[i] = l[j] /\ l[j].pid = p
    BY <1>1, <1>2 DEF Halla
  <1>5. \A j \in 1 .. Len(l) : l[j].pid = p => \E i \in 1 .. n : h[i] = l[j]
    BY <1>1, <1>2 DEF Halla
  <1>6. \A i, j \in 1 .. n : i # j => h[i].id # h[j].id
    <2>1. \A i, j \in 1 .. Len(l) : i # j => l[i].pid # l[j].pid \/ l[i].id # l[j].id
      BY <1>3 DEF IdsDe
    <2>2. \A i, j \in 1 .. n : i # j => h[i] # h[j]
      BY <1>1, <1>2, <2>1 DEF Halla
    <2>3. SUFFICES ASSUME NEW i \in 1 .. n, NEW j \in 1 .. n, i # j
                   PROVE  h[i].id # h[j].id
      OBVIOUS
    <2>4. PICK a \in 1 .. Len(l) : h[i] = l[a] /\ l[a].pid = p
      BY <1>4
    <2>5. PICK b \in 1 .. Len(l) : h[j] = l[b] /\ l[b].pid = p
      BY <1>4
    <2> QED BY <2>1, <2>2, <2>3, <2>4, <2>5
  <1>7. PICK f : f = [i \in 1 .. n |-> h[i].id]
    OBVIOUS
  <1>8. \A x : x \in N <=> \E j \in 1 .. Len(l) : l[j].pid = p /\ x = l[j].id
    BY <1>1, <1>3 DEF Numeros
  <1>9. f \in [1 .. n -> N]
    <2>1. \A i \in 1 .. n : h[i].id \in N
      BY <1>4, <1>8
    <2> QED BY <1>7, <2>1
  <1>10. \A x \in N : \E i \in 1 .. n : f[i] = x
    BY <1>5, <1>7, <1>8
  <1>11. \A i, j \in 1 .. n : i # j => f[i] # f[j]
    BY <1>6, <1>7
  <1>12. ExistsBijection(1 .. n, N)
    <2>1. f \in Bijection(1 .. n, N)
      BY <1>9, <1>10, <1>11 DEF Bijection, Injection, Surjection, IsInjective
    <2> QED BY <2>1 DEF ExistsBijection
  <1>13. Cardinality(N) = n /\ IsFiniteSet(N)
    BY <1>3, <1>12, FS_CountingElements, FS_NatBijection
  <1>14. Range(h) = Entradas(l, p)
    <2>1. \A x : x \in Entradas(l, p) <=> \E j \in 1 .. Len(l) : l[j].pid = p /\ x = l[j]
      BY <1>3 DEF Entradas
    <2>2. \A x : x \in Range(h) <=> \E i \in 1 .. n : x = h[i]
      BY <1>3 DEF Range
    <2>3. ASSUME NEW x \in Range(h)
          PROVE  x \in Entradas(l, p)
      <3>1. PICK i \in 1 .. n : x = h[i]
        BY <2>2
      <3> QED BY <1>4, <2>1, <3>1
    <2>4. ASSUME NEW x \in Entradas(l, p)
          PROVE  x \in Range(h)
      <3>1. PICK j \in 1 .. Len(l) : l[j].pid = p /\ x = l[j]
        BY <2>1
      <3>2. PICK i \in 1 .. n : h[i] = l[j]
        BY <1>5, <3>1
      <3> QED BY <2>2, <3>1, <3>2
    <2> QED BY <2>3, <2>4
  <1> QED BY <1>1, <1>3, <1>13, <1>14

\* One segment more.
LEMMA NumerosConOtro ==
  ASSUME NEW l \in Seq(EsSegmento), NEW s \in EsSegmento, NEW q
  PROVE  /\ s.pid # q => Mismos(Append(l, s), l, q)
         /\ s.pid = q => /\ Numeros(Append(l, s), q) = Numeros(l, q) \union {s.id}
                         /\ Entradas(Append(l, s), q) = Entradas(l, q) \union {s}
  <1>1. PICK m, n : m = Append(l, s) /\ n = Len(l) + 1
    OBVIOUS
  <1>2. /\ DOMAIN m = 1 .. n /\ DOMAIN l = 1 .. Len(l) /\ m[n] = s
        /\ \A i \in 1 .. Len(l) : m[i] = l[i]
    BY <1>1
  <1>3. \A i : i \in 1 .. n <=> i = n \/ i \in 1 .. Len(l)
    BY <1>1
  <1>4. /\ \A x : x \in Numeros(l, q) <=> \E j \in 1 .. Len(l) : l[j].pid = q /\ x = l[j].id
        /\ \A x : x \in Entradas(l, q) <=> \E j \in 1 .. Len(l) : l[j].pid = q /\ x = l[j]
    BY <1>2 DEF Numeros, Entradas
  <1>5. /\ \A x : x \in Numeros(m, q) <=> \E j \in 1 .. n : m[j].pid = q /\ x = m[j].id
        /\ \A x : x \in Entradas(m, q) <=> \E j \in 1 .. n : m[j].pid = q /\ x = m[j]
    BY <1>2 DEF Numeros, Entradas
  <1>6. \A x : x \in Numeros(m, q) <=> x \in Numeros(l, q) \/ (s.pid = q /\ x = s.id)
    BY <1>2, <1>3, <1>4, <1>5
  <1>7. \A x : x \in Entradas(m, q) <=> x \in Entradas(l, q) \/ (s.pid = q /\ x = s)
    BY <1>2, <1>3, <1>4, <1>5
  <1>8. s.pid # q => Mismos(m, l, q)
    BY <1>6, <1>7 DEF Mismos
  <1>9. s.pid = q => /\ Numeros(m, q) = Numeros(l, q) \union {s.id}
                     /\ Entradas(m, q) = Entradas(l, q) \union {s}
    BY <1>6, <1>7
  <1> QED BY <1>1, <1>8, <1>9

\* One segment less, of another process.
LEMMA NumerosSinUno ==
  ASSUME NEW l \in Seq(EsSegmento), NEW k \in 1 .. Len(l), NEW q, l[k].pid # q
  PROVE  Mismos(Sin(l, k), l, q)
  <1>1. PICK m, n : m = Sin(l, k) /\ n = Len(l) - 1
    OBVIOUS
  <1>2. DOMAIN m = 1 .. n /\ DOMAIN l = 1 .. Len(l)
    BY <1>1, EntradasSin
  <1>3. \A j \in 1 .. n : \E i \in 1 .. Len(l) : i # k /\ m[j] = l[i]
    BY <1>1, EntradasSin
  <1>4. \A i \in 1 .. Len(l) : i # k => \E j \in 1 .. n : m[j] = l[i]
    BY <1>1, EntradasSin
  <1>5. /\ \A x : x \in Numeros(l, q) <=> \E j \in 1 .. Len(l) : l[j].pid = q /\ x = l[j].id
        /\ \A x : x \in Entradas(l, q) <=> \E j \in 1 .. Len(l) : l[j].pid = q /\ x = l[j]
        /\ \A x : x \in Numeros(m, q) <=> \E j \in 1 .. n : m[j].pid = q /\ x = m[j].id
        /\ \A x : x \in Entradas(m, q) <=> \E j \in 1 .. n : m[j].pid = q /\ x = m[j]
    BY <1>2 DEF Numeros, Entradas
  <1>6. \A x : x \in Entradas(m, q) <=> x \in Entradas(l, q)
    <2>1. \A x : x \in Entradas(m, q) => x \in Entradas(l, q)
      BY <1>3, <1>5
    <2>2. \A x : x \in Entradas(l, q) => x \in Entradas(m, q)
      BY <1>4, <1>5
    <2> QED BY <2>1, <2>2
  <1>7. \A x : x \in Numeros(m, q) <=> x \in Numeros(l, q)
    <2>1. \A x : x \in Numeros(m, q) => x \in Numeros(l, q)
      BY <1>3, <1>5
    <2>2. \A x : x \in Numeros(l, q) => x \in Numeros(m, q)
      BY <1>4, <1>5
    <2> QED BY <2>1, <2>2
  <1>8. Mismos(m, l, q)
    BY <1>6, <1>7 DEF Mismos
  <1> QED BY <1>1, <1>8

\* The same segments in other places.
LEMMA NumerosRebasados ==
  ASSUME NEW l \in Seq(EsSegmento), NEW m \in EnOrdenDeBase(l), NEW q
  PROVE  Numeros(Rebasados(m), q) = Numeros(l, q)
  <1>1. m \in Seq(EsSegmento) /\ Len(m) = Len(l) /\ \E o : Reordena(m, l, o)
    BY OrdenadaEs
  <1>2. PICK o : Reordena(m, l, o)
    BY <1>1
  <1>3. PICK a, n : a = Rebasados(m) /\ n = Len(l)
    OBVIOUS
  <1>4. Seguidos(a, m, Desplazamiento(m), n)
    BY <1>1, <1>3, RebasadosEs
  <1>5. DOMAIN a = 1 .. n /\ DOMAIN l = 1 .. n
    BY <1>3, <1>4 DEF Seguidos
  <1>6. \A i \in 1 .. n : a[i].pid = l[o[i]].pid /\ a[i].id = l[o[i]].id /\ o[i] \in 1 .. n
    <2>1. \A i \in 1 .. n : m[i] = l[o[i]] /\ o[i] \in 1 .. n
      BY <1>2, <1>3 DEF Reordena
    <2>2. \A i \in 1 .. n : a[i].pid = m[i].pid /\ a[i].id = m[i].id
      BY <1>4 DEF Seguidos
    <2> QED BY <2>1, <2>2
  <1>7. \A j \in 1 .. n : \E i \in 1 .. n : o[i] = j
    BY <1>2, <1>3 DEF Reordena
  <1>8. \A x : x \in Numeros(a, q) <=> x \in Numeros(l, q)
    <2>1. /\ \A x : x \in Numeros(l, q) <=> \E j \in 1 .. n : l[j].pid = q /\ x = l[j].id
          /\ \A x : x \in Numeros(a, q) <=> \E j \in 1 .. n : a[j].pid = q /\ x = a[j].id
      BY <1>5 DEF Numeros
    <2>2. \A x : x \in Numeros(a, q) => x \in Numeros(l, q)
      BY <1>6, <2>1
    <2>3. ASSUME NEW x \in Numeros(l, q)
          PROVE  x \in Numeros(a, q)
      <3>1. PICK j \in 1 .. n : l[j].pid = q /\ x = l[j].id
        BY <2>1
      <3>2. PICK i \in 1 .. n : o[i] = j
        BY <1>7
      <3> QED BY <1>6, <2>1, <3>1, <3>2
    <2> QED BY <2>2, <2>3
  <1>9. Numeros(a, q) = Numeros(l, q)
    BY <1>8
  <1> QED BY <1>3, <1>9

-----------------------------------------------------------------------------
(* The answers of memory to a request for a segment.                       *)

Creado(p, s) ==
  /\ s \in EsSegmento /\ s.pid = p /\ s.id \notin Numeros(listaSegmentos, p)
  /\ s.tamanio > 0
  /\ listaSegmentos' = Append(listaSegmentos, s)
  /\ respuesta' = "BASE" /\ pendiente' = Nada

NoCreado(p) ==
  /\ listaSegmentos' = listaSegmentos
  /\ \/ respuesta' = "SIN_MEMORIA" /\ pendiente' = Nada
     \/ respuesta' = "NECESITO_COMPACTAR" /\ pendiente'.pid = p

LEMMA RespuestaDeMemoria ==
  ASSUME IMemoria, NEW p \in Procesos,
         PedirSegmento(p) \/ (PedirDeNuevo /\ pendiente.pid = p)
  PROVE  p \in vivos /\ ((\E s : Creado(p, s)) \/ NoCreado(p))
  <1>1. PICK l, h : l = listaSegmentos /\ h = listaHuecos
    OBVIOUS
  <1>2. l \in Seq(EsSegmento) /\ h \in Seq(EsHueco) /\ IdsDe(l, vivos, muertos)
    BY <1>1 DEF IMemoria, InvDe, TipoDe
  <1>3. \E id, t : /\ CREATE_SEGMENT(p, id, t) /\ id \in Nat /\ id \notin Numeros(l, p)
                   /\ t \in Tamanios /\ p \in vivos
    <2>1. CASE PedirSegmento(p)
      <3>1. PICK b : b = Hallados(l, p)
        OBVIOUS
      <3>2. PICK id \in (1 .. MaxSegmentos) \ {s.id : s \in Range(b)}, t \in Tamanios :
              CREATE_SEGMENT(p, id, t)
        BY <1>1, <2>1, <3>1 DEF PedirSegmento, buscarSegmentoPorPID
      <3>3. Range(b) = Entradas(l, p)
        BY <1>2, <3>1, HalladosSon
      <3>4. id \notin Numeros(l, p)
        BY <3>2, <3>3 DEF Numeros, Entradas
      <3> QED BY <2>1, <3>2, <3>4 DEF PedirSegmento
    <2>2. CASE PedirDeNuevo /\ pendiente.pid = p
      <3>1. PICK id, t : id = pendiente.id /\ t = pendiente.tamanio
        OBVIOUS
      <3>2. CREATE_SEGMENT(p, id, t) /\ pendiente # Nada
        BY <2>2, <3>1 DEF PedirDeNuevo
      <3>3. PedidoDe(pendiente, compactada, l, vivos)
        BY <1>1 DEF IMemoria, InvDe
      <3>4. /\ p \in vivos /\ t \in Tamanios /\ id \in 1 .. MaxSegmentos
            /\ \A i \in DOMAIN l : l[i].pid # p \/ l[i].id # id
        BY <2>2, <3>1, <3>2, <3>3 DEF PedidoDe
      <3>5. id \notin Numeros(l, p)
        BY <3>4 DEF Numeros
      <3> QED BY <3>2, <3>4, <3>5
    <2> QED BY <2>1, <2>2
  <1>4. PICK id, t : /\ CREATE_SEGMENT(p, id, t) /\ id \in Nat /\ id \notin Numeros(l, p)
                     /\ t \in Tamanios /\ p \in vivos
    BY <1>3
  <1>5. t \in Nat /\ t > 0
    BY <1>4, MemoriaAssumption
  <1>6. CASE CrearConLugar(p, id, t)
    <2>1. PICK i \in DOMAIN h :
            listaSegmentos' = Append(l, segmentoCrear(p, id, h[i].base, t))
      BY <1>1, <1>6 DEF CrearConLugar
    <2>2. PICK s : s = segmentoCrear(p, id, h[i].base, t)
      OBVIOUS
    <2>3. h[i].base \in Nat
      <3>1. h[i] \in EsHueco
        BY <1>2
      <3> QED BY <3>1, DeHueco
    <2>4. s \in EsSegmento /\ s.pid = p /\ s.id = id /\ s.tamanio = t
      BY <1>4, <1>5, <2>2, <2>3 DEF segmentoCrear, EsSegmento
    <2>5. respuesta' = "BASE" /\ pendiente' = Nada
      BY <1>6 DEF CrearConLugar
    <2>6. Creado(p, s)
      BY <1>1, <1>4, <1>5, <2>1, <2>2, <2>4, <2>5 DEF Creado
    <2> QED BY <1>4, <2>6
  <1>7. CASE CrearSinLugar(p, id, t)
    <2>1. segmentoCrear(p, id, 0, t).pid = p
      BY DEF segmentoCrear
    <2> QED BY <1>4, <1>7, <2>1 DEF CrearSinLugar, NoCreado
  <1> QED BY <1>4, <1>6, <1>7 DEF CREATE_SEGMENT

-----------------------------------------------------------------------------
(* The tables: as many entries as tamanio_tabla says, one for each segment *)
(* of the process and segmento_0.                                          *)

Forma(c, l, p) ==
  /\ EsContexto(c)
  /\ c.tabla \in Seq(EsSegmento)
  /\ c.tamanio_tabla = Len(c.tabla)
  /\ Len(c.tabla) = Cardinality(Numeros(l, p)) + 1

\* d has the table of c.
Conserva(c, d) ==
  EsContexto(d) /\ d.tabla = c.tabla /\ d.tamanio_tabla = c.tamanio_tabla

\* And d another.
Con(d, t, k) == EsContexto(d) /\ d.tabla = t /\ d.tamanio_tabla = k

LEMMA CambiarTabla ==
  ASSUME NEW c, EsContexto(c), NEW x, NEW t, NEW k
  PROVE  /\ Conserva(c, Avanzado(c))
         /\ Conserva(c, ConRegistro(c, x))
         /\ Con(ConTabla(c, t), t, c.tamanio_tabla)
         /\ Con(ConTamanio(ConTabla(c, t), k), t, k)
  <1> DEFINE n == c.pc
             v == c.registro
             u == c.tabla
             m == c.tamanio_tabla
  <1>1. c = Contexto_(n, v, u, m) /\ c.tabla = u /\ c.tamanio_tabla = m
    BY DEF EsContexto, Contexto_
  <1> HIDE DEF n, v, u, m
  <1>2. \A i, j, a, b : Con(Contexto_(i, j, a, b), a, b)
    BY DEF Contexto_, Con, EsContexto
  <1>3. /\ ConRegistro(Contexto_(n, v, u, m), x) = Contexto_(n, x, u, m)
        /\ Avanzado(Contexto_(n, v, u, m)) = Contexto_(n + 1, v, u, m)
        /\ ConTabla(Contexto_(n, v, u, m), t) = Contexto_(n, v, t, m)
        /\ ConTamanio(Contexto_(n, v, t, m), k) = Contexto_(n, v, t, k)
    BY DEF Contexto_, ConRegistro, Avanzado, ConTabla, ConTamanio
  <1>4. \A d : Con(d, u, m) => Conserva(c, d)
    BY <1>1 DEF Con, Conserva
  <1> QED BY <1>1, <1>2, <1>3, <1>4

LEMMA FormaQueda ==
  ASSUME NEW c, NEW d, Conserva(c, d), NEW l, NEW m, NEW p, Forma(c, l, p),
         Numeros(m, p) = Numeros(l, p)
  PROVE  Forma(d, m, p)
  BY DEF Forma, Conserva

\* The whole table travels.
LEMMA FormaViaja ==
  ASSUME NEW c, NEW l, NEW p \in Procesos, Forma(c, l, p), enviar_ce_a_cpu(p, c)
  PROVE  cpu'.proc = p /\ Conserva(c, cpu'.ctx) /\ Forma(cpu'.ctx, l, p)
  <1>1. PICK t : t = c.tabla
    OBVIOUS
  <1>2. t \in Seq(EsSegmento) /\ c.tamanio_tabla = Len(t) /\ Len(t) \in Nat
    BY <1>1 DEF Forma
  <1>3. SubSeq(t, 1, IF c.tamanio_tabla < Len(t) THEN c.tamanio_tabla ELSE Len(t)) = t
    <2>1. (IF c.tamanio_tabla < Len(t) THEN c.tamanio_tabla ELSE Len(t)) = Len(t)
      BY <1>2
    <2>2. SubSeq(t, 1, Len(t)) = t
      BY <1>2, SubSeqFull
    <2> QED BY <2>1, <2>2
  <1>4. PICK e : e = ConTabla(c, t)
    OBVIOUS
  <1>5. cpu' = [proc |-> p, ctx |-> e]
    BY <1>1, <1>3, <1>4 DEF enviar_ce_a_cpu, ConTabla
  <1>6. Con(e, t, c.tamanio_tabla)
    BY <1>4, CambiarTabla DEF Forma
  <1>7. Conserva(c, e)
    BY <1>1, <1>6 DEF Con, Conserva
  <1>8. Forma(e, l, p)
    BY <1>7, FormaQueda
  <1> QED BY <1>5, <1>7, <1>8

\* agregar_segmento, of a segment with a number of its own.
LEMMA FormaAgrega ==
  ASSUME NEW c, NEW l \in Seq(EsSegmento), NEW V, NEW M, IdsDe(l, V, M),
         NEW p, Forma(c, l, p), NEW s \in EsSegmento, s.pid = p,
         s.id \notin Numeros(l, p)
  PROVE  /\ Forma(agregar_segmento(c, s), Append(l, s), p)
         /\ agregar_segmento(c, s).tabla = Append(c.tabla, s)
  <1>1. PICK t, k, d : /\ t = Append(c.tabla, s) /\ k = c.tamanio_tabla + 1
                       /\ d = agregar_segmento(c, s)
    OBVIOUS
  <1>2. d = ConTamanio(ConTabla(c, t), k)
    BY <1>1 DEF agregar_segmento, ConTabla, ConTamanio
  <1>3. Con(d, t, k)
    BY <1>2, CambiarTabla DEF Forma
  <1>4. c.tabla \in Seq(EsSegmento) /\ c.tamanio_tabla = Len(c.tabla)
        /\ Len(c.tabla) = Cardinality(Numeros(l, p)) + 1
    BY DEF Forma
  <1>5. t \in Seq(EsSegmento) /\ Len(t) = Len(c.tabla) + 1
    BY <1>1, <1>4
  <1>6. Numeros(Append(l, s), p) = Numeros(l, p) \union {s.id}
    BY NumerosConOtro
  <1>7. IsFiniteSet(Numeros(l, p)) /\ Cardinality(Numeros(l, p)) \in Nat
    BY HalladosSon, FS_CardinalityType
  <1>8. Cardinality(Numeros(Append(l, s), p)) = Cardinality(Numeros(l, p)) + 1
    BY <1>6, <1>7, FS_AddElement
  <1>9. Forma(d, Append(l, s), p)
    BY <1>1, <1>3, <1>4, <1>5, <1>7, <1>8 DEF Forma, Con
  <1> QED BY <1>1, <1>3, <1>9 DEF Con

\* One entry more.
LEMMA RangoConOtro ==
  ASSUME NEW h \in Seq(EsSegmento), NEW s \in EsSegmento
  PROVE  /\ Append(h, s) \in Seq(EsSegmento)
         /\ Len(Append(h, s)) = Len(h) + 1
         /\ Range(Append(h, s)) = Range(h) \union {s}
  <1>1. PICK t, n : t = Append(h, s) /\ n = Len(h) + 1
    OBVIOUS
  <1>2. t \in Seq(EsSegmento) /\ Len(t) = n
    BY <1>1
  <1>3. /\ DOMAIN t = 1 .. n /\ DOMAIN h = 1 .. Len(h) /\ t[n] = s
        /\ \A i \in 1 .. Len(h) : t[i] = h[i]
    BY <1>1
  <1>4. n \in 1 .. n /\ \A i : i \in 1 .. n <=> i = n \/ i \in 1 .. Len(h)
    BY <1>1
  <1>5. /\ \A x : x \in Range(t) <=> \E i \in 1 .. n : x = t[i]
        /\ \A x : x \in Range(h) <=> \E i \in 1 .. Len(h) : x = h[i]
    BY <1>3 DEF Range
  <1>6. ASSUME NEW x \in Range(t)
        PROVE  x \in Range(h) \/ x = s
    <2>1. PICK i \in 1 .. n : x = t[i]
      BY <1>5
    <2> QED BY <1>3, <1>4, <1>5, <2>1
  <1>7. ASSUME NEW x, x \in Range(h) \/ x = s
        PROVE  x \in Range(t)
    <2>1. CASE x = s
      BY <1>3, <1>4, <1>5, <2>1
    <2>2. CASE x \in Range(h)
      <3>1. PICK i \in 1 .. Len(h) : x = h[i]
        BY <1>5, <2>2
      <3> QED BY <1>3, <1>4, <1>5, <3>1
    <2> QED BY <1>7, <2>1, <2>2
  <1>8. Range(t) = Range(h) \union {s}
    BY <1>6, <1>7
  <1> QED BY <1>1, <1>2, <1>8

\* The table that is made from the list of memory.
LEMMA FormaHallada ==
  ASSUME NEW l \in Seq(EsSegmento), NEW V, NEW M, IdsDe(l, V, M),
         NEW p, NEW s \in EsSegmento
  PROVE  /\ Hallados(l, p) \o <<s>> \in Seq(EsSegmento)
         /\ Len(Hallados(l, p) \o <<s>>) = Cardinality(Numeros(l, p)) + 1
         /\ Range(Hallados(l, p) \o <<s>>) = Entradas(l, p) \union {s}
  <1>1. PICK h : h = Hallados(l, p)
    OBVIOUS
  <1>2. /\ h \in Seq(EsSegmento) /\ Len(h) = Cardinality(Numeros(l, p))
        /\ Range(h) = Entradas(l, p)
    BY <1>1, HalladosSon
  <1>3. h \o <<s>> = Append(h, s)
    BY <1>2
  <1> QED BY <1>1, <1>2, <1>3, RangoConOtro

-----------------------------------------------------------------------------
(* Each step is one of memory's, or leaves it as it was.                   *)

LEMMA PasoDeMemoria ==
  ASSUME NextC
  PROVE  NextM \/ UNCHANGED varsM
  <1>1. ASSUME NEW p \in Procesos, crear_pcb(p) \/ Finalizar(p) \/ CrearSegmento(p)
        PROVE  NextM
    BY <1>1 DEF crear_pcb, Finalizar, CrearSegmento, NextM
  <1>2. ASSUME NEW p \in Procesos, NEW s \in Range(listaSegmentos), BorrarSegmento(p, s)
        PROVE  NextM
    BY <1>2 DEF BorrarSegmento, NextM
  <1>3. ASSUME NEW p \in Procesos, PedirOtraVez(p)
        PROVE  NextM
    BY <1>3 DEF PedirOtraVez, NextM
  <1>4. ASSUME NEW p \in Procesos,
               \/ pasar_a_ready(p) \/ Ejecutar(p) \/ LeerTiempo(p) \/ SalirDeBlocked(p)
               \/ FinDeSleep(p)
        PROVE  UNCHANGED varsM
    BY <1>4 DEF pasar_a_ready, Ejecutar, LeerTiempo, SalirDeBlocked, FinDeSleep
  <1>5. ASSUME NEW p \in Procesos, InstruccionDeCPU(p)
        PROVE  UNCHANGED varsM
    BY <1>5 DEF InstruccionDeCPU, SET, MOV_IN, MOV_OUT, SEG_FAULT, terminar_consola
  <1>6. ASSUME NEW p \in Procesos,
               YIELD(p) \/ (\E t \in Tiempos : IO(p, t)) \/ WAIT(p) \/ SIGNAL(p) \/ EXIT(p)
        PROVE  UNCHANGED varsM
    BY <1>6 DEF YIELD, IO, WAIT, SIGNAL, EXIT, terminar_consola
  <1>7. ASSUME Compactar \/ CopiarReady \/ CopiarBlocked \/ ActualizarTablas
        PROVE  NextM \/ UNCHANGED varsM
    BY <1>7 DEF Compactar, CopiarReady, CopiarBlocked, ActualizarTablas, NextM
  <1>8. ASSUME NEW p \in Procesos, InstruccionDeKernel(p)
        PROVE  NextM \/ UNCHANGED varsM
    BY <1>1, <1>2, <1>6, <1>8 DEF InstruccionDeKernel
  <1> QED BY <1>1, <1>3, <1>4, <1>5, <1>7, <1>8 DEF NextC, Compactacion

LEMMA PasoIMemoria == IMemoria /\ [NextC]_varsC => IMemoria'
  BY PasoDeMemoria, PasoMemoria, SinCambiosMemoria DEF varsC

LEMMA InicioIMemoria == InitC => IMemoria
  BY InicioMemoria DEF InitC

-----------------------------------------------------------------------------
(* hilo_general attends one process at a time, and only that one asks      *)
(* memory for anything.                                                    *)

UnoEnExec ==
  /\ \A p, q \in Procesos : estado[p] = "exec" /\ estado[q] = "exec" => p = q
  /\ pc_general \in {"espera_pcb", "finaliza"} => \A p \in Procesos : estado[p] # "exec"
  /\ pendiente # Nada => /\ pendiente.pid \in Procesos /\ estado[pendiente.pid] = "exec"
                         /\ pc_general # "espera_cym"

\* Which process executes, and what waits for a compaction, may change together.
LEMMA UnoQueda ==
  ASSUME UnoEnExec, NEW p \in Procesos,
         \A q \in Procesos : q # p => estado'[q] = estado[q],
         \/ /\ estado'[p] = "exec"
            /\ \A q \in Procesos : q # p => estado[q] # "exec"
            /\ pc_general' \notin {"espera_pcb", "finaliza"}
            /\ pendiente' = Nada \/ (pendiente'.pid = p /\ pc_general' # "espera_cym")
         \/ /\ estado'[p] # "exec"
            /\ \A q \in Procesos : q # p => estado[q] # "exec"
            /\ pendiente' = Nada
         \/ /\ estado'[p] = estado[p] \/ (estado[p] # "exec" /\ estado'[p] # "exec")
            /\ pendiente' = pendiente /\ pc_general' = pc_general
  PROVE  UnoEnExec'
  BY DEF UnoEnExec

LEMMA UnoRespuestaCreate ==
  ASSUME UnoEnExec, IContexto, IMemoria, NEW p \in Procesos, estado[p] = "exec", NEW c,
         PedirSegmento(p) \/ (PedirDeNuevo /\ pendiente.pid = p), RespuestaCreate(p, c)
  PROVE  UnoEnExec'
  <1>1. \A q \in Procesos : q # p => estado[q] # "exec"
    BY DEF UnoEnExec
  <1>2. estado = [q \in Procesos |-> estado[q]]
    BY DEF IContexto, Formas
  <1>3. \/ respuesta' \in {"BASE", "SIN_MEMORIA"} /\ pendiente' = Nada
        \/ respuesta' = "NECESITO_COMPACTAR" /\ pendiente'.pid = p
    BY RespuestaDeMemoria DEF Creado, NoCreado
  <1>4. CASE respuesta' = "BASE"
    <2>1. estado' = estado /\ pc_general' = "espera_cym" /\ pendiente' = Nada
      BY <1>3, <1>4 DEF RespuestaCreate
    <2> QED BY <1>1, <2>1, UnoQueda
  <1>5. CASE respuesta' = "SIN_MEMORIA"
    <2>1. estado' = [estado EXCEPT ![p] = "exit"] /\ pendiente' = Nada
      BY <1>3, <1>5 DEF RespuestaCreate
    <2>2. estado'[p] = "exit" /\ \A q \in Procesos : q # p => estado'[q] = estado[q]
      BY <1>2, <2>1
    <2> QED BY <1>1, <2>1, <2>2, UnoQueda
  <1>6. CASE respuesta' = "NECESITO_COMPACTAR"
    <2>1. estado' = estado /\ pc_general' = "compacta" /\ pendiente'.pid = p
      BY <1>3, <1>6 DEF RespuestaCreate
    <2> QED BY <1>1, <2>1, UnoQueda
  <1> QED BY <1>3, <1>4, <1>5, <1>6

LEMMA UnoInstruccion ==
  ASSUME UnoEnExec, IContexto, IMemoria, NEW p \in Procesos,
         InstruccionDeCPU(p) \/ InstruccionDeKernel(p)
  PROVE  UnoEnExec'
  <1>1. /\ estado[p] = "exec" /\ pc_general = "espera_cym" /\ pendiente = Nada
        /\ \A q \in Procesos : q # p => estado[q] # "exec"
    <2>1. \E i : Busca(p, i)
      BY DEF InstruccionDeCPU, InstruccionDeKernel, SET, MOV_IN, MOV_OUT, SEG_FAULT, YIELD,
             IO, WAIT, SIGNAL, CrearSegmento, BorrarSegmento, EXIT, Recibe
    <2> QED BY <2>1, BuscaEs DEF UnoEnExec
  <1>2. estado = [q \in Procesos |-> estado[q]]
    BY DEF IContexto, Formas
  <1>3. ASSUME NEW x, x # "exec", estado' = [estado EXCEPT ![p] = x], pendiente' = pendiente
        PROVE  UnoEnExec'
    <2>1. estado'[p] = x /\ \A q \in Procesos : q # p => estado'[q] = estado[q]
      BY <1>2, <1>3
    <2> QED BY <1>1, <1>3, <2>1, UnoQueda
  <1>4. ASSUME UNCHANGED <<estado, pc_general, pendiente>>
        PROVE  UnoEnExec'
    BY <1>4 DEF UnoEnExec
  <1>5. CASE InstruccionDeCPU(p)
    <2>1. CASE \E id, d : SEG_FAULT(p, id, d)
      <3>1. estado' = [estado EXCEPT ![p] = "exit"] /\ pendiente' = pendiente
        BY <2>1 DEF SEG_FAULT, terminar_consola, varsM
      <3> QED BY <1>3, <3>1
    <2>2. CASE ~\E id, d : SEG_FAULT(p, id, d)
      <3>1. UNCHANGED <<estado, pc_general, pendiente>>
        BY <1>5, <2>2 DEF InstruccionDeCPU, SET, MOV_IN, MOV_OUT, kernelC, varsM
      <3> QED BY <1>4, <3>1
    <2> QED BY <2>1, <2>2
  <1>6. CASE YIELD(p) \/ (\E t \in Tiempos : IO(p, t)) \/ WAIT(p) \/ EXIT(p)
    <2>1. \E x \in {"ready", "blocked", "espera", "exit"} : estado' = [estado EXCEPT ![p] = x]
      BY <1>6 DEF YIELD, IO, WAIT, EXIT, terminar_consola, Deja
    <2>2. pendiente' = pendiente
      BY <1>6 DEF YIELD, IO, WAIT, EXIT, terminar_consola, varsM
    <2> QED BY <1>3, <2>1, <2>2
  <1>7. CASE SIGNAL(p) \/ \E s : BorrarSegmento(p, s)
    <2>1. UNCHANGED <<estado, pc_general, pendiente>>
      BY <1>7 DEF SIGNAL, BorrarSegmento, DELETE_SEGMENT, devolver_ce_a_cpu, varsM
    <2> QED BY <1>4, <2>1
  <1>8. CASE CrearSegmento(p)
    BY <1>1, <1>8, UnoRespuestaCreate DEF CrearSegmento
  <1> QED BY <1>5, <1>6, <1>7, <1>8 DEF InstruccionDeKernel

LEMMA PasoUno ==
  ASSUME UnoEnExec, IContexto, IMemoria, [NextC]_varsC
  PROVE  UnoEnExec'
  <1>1. estado = [q \in Procesos |-> estado[q]]
    BY DEF IContexto, Formas
  <1>2. ASSUME NEW p \in Procesos, crear_pcb(p)
        PROVE  UnoEnExec'
    <2>1. /\ estado[p] = "sin_conexion" /\ estado' = [estado EXCEPT ![p] = "new"]
          /\ UNCHANGED <<pc_general, pendiente>>
      BY <1>2 DEF crear_pcb, IniciarProceso
    <2>2. estado'[p] = "new" /\ \A q \in Procesos : q # p => estado'[q] = estado[q]
      BY <1>1, <2>1
    <2> QED BY <2>1, <2>2, UnoQueda
  <1>3. ASSUME NEW p \in Procesos,
               pasar_a_ready(p) \/ LeerTiempo(p) \/ SalirDeBlocked(p) \/ FinDeSleep(p)
        PROVE  UnoEnExec'
    <2>1. UNCHANGED <<pc_general, pendiente>>
      BY <1>3 DEF pasar_a_ready, LeerTiempo, SalirDeBlocked, FinDeSleep, varsM
    <2>2. /\ \A q \in Procesos : q # p => estado'[q] = estado[q]
          /\ estado'[p] = estado[p] \/ (estado[p] # "exec" /\ estado'[p] # "exec")
      BY <1>1, <1>3 DEF pasar_a_ready, LeerTiempo, SalirDeBlocked, FinDeSleep
    <2> QED BY <2>1, <2>2, UnoQueda
  <1>4. ASSUME NEW p \in Procesos, Ejecutar(p)
        PROVE  UnoEnExec'
    <2>1. /\ pc_general = "espera_pcb" /\ pc_general' = "espera_cym"
          /\ estado' = [estado EXCEPT ![p] = "exec"] /\ pendiente' = pendiente
      BY <1>4 DEF Ejecutar, varsM
    <2>2. pendiente = Nada /\ \A q \in Procesos : estado[q] # "exec"
      BY <2>1 DEF UnoEnExec
    <2>3. estado'[p] = "exec" /\ \A q \in Procesos : q # p => estado'[q] = estado[q]
      BY <1>1, <2>1
    <2> QED BY <2>1, <2>2, <2>3, UnoQueda
  <1>5. ASSUME NEW p \in Procesos, Finalizar(p)
        PROVE  UnoEnExec'
    BY <1>5 DEF Finalizar, FinalizarProceso, UnoEnExec
  <1>6. ASSUME Compactar \/ CopiarReady \/ CopiarBlocked \/ ActualizarTablas
        PROVE  UnoEnExec'
    <2>1. UNCHANGED <<estado, pendiente>>
      BY <1>6 DEF Compactar, CopiarReady, CopiarBlocked, ActualizarTablas,
                  EMPEZA_A_COMPACTAR, varsM
    <2>2. pc_general' \notin {"espera_pcb", "espera_cym", "finaliza"}
      BY <1>6 DEF Compactar, CopiarReady, CopiarBlocked, ActualizarTablas
    <2> QED BY <2>1, <2>2 DEF UnoEnExec
  <1>7. ASSUME NEW p \in Procesos, PedirOtraVez(p)
        PROVE  UnoEnExec'
    <2>1. estado[p] = "exec" /\ PedirDeNuevo /\ RespuestaCreate(p, pcb[p])
      BY <1>7 DEF PedirOtraVez
    <2>2. pendiente.pid = p
      BY <2>1 DEF UnoEnExec, PedirDeNuevo
    <2> QED BY <2>1, <2>2, UnoRespuestaCreate
  <1>8. CASE UNCHANGED varsC
    BY <1>8 DEF varsC, kernelC, varsM, UnoEnExec
  <1> QED BY <1>2, <1>3, <1>4, <1>5, <1>6, <1>7, <1>8, UnoInstruccion
      DEF NextC, Compactacion

-----------------------------------------------------------------------------
(* The table of each process, in its PCB and in the copy that counts.      *)

FormaDe(q) ==
  Forma(pcb[q], listaSegmentos, q) /\ Forma(ContextoDe(q), listaSegmentos, q)

\* The table of q stays as it is.
Conservado(q) ==
  /\ Conserva(ContextoDe(q), ContextoDe(q)')
  /\ pcb'[q] = pcb[q] \/ Conserva(ContextoDe(q), pcb'[q])

ConGlobal(l) == Numeros(l, Global) # {}

ITablas == ConGlobal(listaSegmentos) /\ \A q \in Procesos : FormaDe(q)

LEMMA FormaDeQueda ==
  ASSUME NEW q, FormaDe(q), Conservado(q),
         Numeros(listaSegmentos', q) = Numeros(listaSegmentos, q)
  PROVE  FormaDe(q)'
  <1>1. /\ Forma(pcb[q], listaSegmentos, q)
        /\ Forma(ContextoDe(q), listaSegmentos, q)
    BY DEF FormaDe
  <1>2. Forma(ContextoDe(q)', listaSegmentos', q)
    BY <1>1, FormaQueda DEF Conservado
  <1>3. Conserva(pcb[q], pcb[q])
    BY <1>1 DEF Conserva, Forma
  <1>4. Forma(pcb'[q], listaSegmentos', q)
    BY <1>1, <1>3, FormaQueda DEF Conservado
  <1> QED BY <1>2, <1>4 DEF FormaDe

\* A step of another process.
LEMMA LosDemas ==
  ASSUME NEW q \in Procesos, FormaDe(q), pcb'[q] = pcb[q],
         (cpu.proc # q /\ cpu'.proc # q) \/ cpu' = cpu
  PROVE  Conservado(q)
  <1>1. ContextoDe(q)' = ContextoDe(q)
    BY DEF ContextoDe
  <1>2. Conserva(ContextoDe(q), ContextoDe(q))
    BY DEF Conserva, FormaDe, Forma
  <1> QED BY <1>1, <1>2 DEF Conservado

\* The context of p advances on the CPU, goes to it, or comes back.
LEMMA ContextoMovido ==
  ASSUME IContexto, NEW p \in Procesos, \A q \in Procesos : FormaDe(q),
         cpu.proc = p \/ cpu.proc \notin Procesos,
         NEW c, Conserva(ContextoDe(p), c),
         \/ cpu.proc = p /\ pcb' = pcb /\ cpu' = [cpu EXCEPT !.ctx = c]
         \/ (actualizar_pcb(p, c) \/ pcb' = pcb) /\ enviar_ce_a_cpu(p, c)
         \/ actualizar_pcb(p, c) /\ cpu' = SinContexto
  PROVE  \A q \in Procesos : Conservado(q)
  <1>1. /\ pcb = [q \in Procesos |-> pcb[q]] /\ cpu = [proc |-> cpu.proc, ctx |-> cpu.ctx]
    BY DEF IContexto, Formas
  <1>2. Forma(c, listaSegmentos, p)
    BY FormaQueda DEF FormaDe
  <1>3. /\ \A q \in Procesos : q # p => pcb'[q] = pcb[q]
        /\ pcb'[p] = c \/ pcb' = pcb
    BY <1>1, Actualizado
  <1>4. CASE cpu.proc = p /\ pcb' = pcb /\ cpu' = [cpu EXCEPT !.ctx = c]
    <2>1. cpu'.proc = p /\ cpu'.ctx = c
      BY <1>1, <1>4
    <2>2. Conservado(p)
      BY <1>4, <2>1 DEF Conservado, ContextoDe
    <2>3. \A q \in Procesos : q # p => Conservado(q)
      BY <1>4, <2>1, LosDemas
    <2> QED BY <2>2, <2>3
  <1>5. CASE (actualizar_pcb(p, c) \/ pcb' = pcb) /\ enviar_ce_a_cpu(p, c)
    <2>1. cpu'.proc = p /\ Conserva(c, cpu'.ctx)
      BY <1>2, <1>5, FormaViaja
    <2>2. Conserva(ContextoDe(p), cpu'.ctx)
      BY <2>1 DEF Conserva
    <2>3. pcb'[p] = pcb[p] \/ Conserva(ContextoDe(p), pcb'[p])
      BY <1>3
    <2>4. Conservado(p)
      BY <2>1, <2>2, <2>3 DEF Conservado, ContextoDe
    <2>5. \A q \in Procesos : q # p => Conservado(q)
      BY <1>3, <2>1, LosDemas
    <2> QED BY <2>4, <2>5
  <1>6. CASE actualizar_pcb(p, c) /\ cpu' = SinContexto
    <2>1. cpu'.proc \notin Procesos
      BY <1>6, SinContextoEs
    <2>2. pcb'[p] = c
      BY <1>1, <1>6, Actualizado
    <2>3. Conservado(p)
      BY <2>1, <2>2 DEF Conservado, ContextoDe
    <2>4. \A q \in Procesos : q # p => Conservado(q)
      BY <1>3, <2>1, LosDemas
    <2> QED BY <2>3, <2>4
  <1> QED BY <1>4, <1>5, <1>6

\* The context an instruction leaves has the table it found.
LEMMA TablaAvanza ==
  ASSUME IContexto, NEW p \in Procesos, FormaDe(p), NEW i, Busca(p, i), NEW v
  PROVE  /\ cpu.proc = p /\ estado[p] = "exec" /\ pc_general = "espera_cym"
         /\ Conserva(ContextoDe(p), cpu.ctx)
         /\ Conserva(ContextoDe(p), ContextoAvanzado)
         /\ Conserva(ContextoDe(p), ConRegistro(ContextoAvanzado, v))
  <1>1. cpu.proc = p /\ estado[p] = "exec" /\ pc_general = "espera_cym"
    BY BuscaEs
  <1>2. PICK c : c = cpu.ctx
    OBVIOUS
  <1>3. ContextoDe(p) = c /\ EsContexto(c)
    BY <1>1, <1>2 DEF ContextoDe, FormaDe, Forma
  <1>4. ContextoAvanzado = Avanzado(c)
    BY <1>2 DEF ContextoAvanzado, Avanzado
  <1>5. Conserva(c, Avanzado(c))
    BY <1>3, CambiarTabla
  <1>6. Conserva(Avanzado(c), ConRegistro(Avanzado(c), v))
    BY <1>5, CambiarTabla DEF Conserva
  <1>7. Conserva(c, ConRegistro(Avanzado(c), v)) /\ Conserva(c, c)
    BY <1>3, <1>5, <1>6 DEF Conserva
  <1> QED BY <1>1, <1>2, <1>3, <1>4, <1>5, <1>7

\* The steps that ask memory for nothing, save ActualizarTablas, leave every
\* table as it is.
LEMMA PasosQueConservan ==
  ASSUME IContexto, \A q \in Procesos : FormaDe(q), NEW p \in Procesos,
         \/ pasar_a_ready(p) \/ LeerTiempo(p) \/ SalirDeBlocked(p) \/ FinDeSleep(p)
         \/ Ejecutar(p) \/ InstruccionDeCPU(p) \/ YIELD(p) \/ (\E t \in Tiempos : IO(p, t))
         \/ WAIT(p) \/ SIGNAL(p) \/ EXIT(p) \/ Finalizar(p)
         \/ Compactar \/ CopiarReady \/ CopiarBlocked
  PROVE  \A q \in Procesos : Conservado(q)
  <1>1. CASE UNCHANGED <<pcb, cpu>>
    BY <1>1, LosDemas
  <1>2. CASE \/ pasar_a_ready(p) \/ LeerTiempo(p) \/ SalirDeBlocked(p) \/ FinDeSleep(p)
             \/ Finalizar(p) \/ Compactar \/ CopiarReady \/ CopiarBlocked
    <2>1. UNCHANGED <<pcb, cpu>>
      BY <1>2 DEF pasar_a_ready, LeerTiempo, SalirDeBlocked, FinDeSleep, Finalizar, Compactar,
                  CopiarReady, CopiarBlocked
    <2> QED BY <1>1, <2>1
  <1>3. CASE Ejecutar(p)
    <2>1. pc_general = "espera_pcb" /\ enviar_ce_a_cpu(p, pcb[p]) /\ pcb' = pcb
      BY <1>3 DEF Ejecutar
    <2>2. cpu.proc \notin Procesos
      BY <2>1 DEF IContexto, EnUnLugar
    <2>3. Conserva(ContextoDe(p), pcb[p])
      BY <2>2 DEF ContextoDe, FormaDe, Forma, Conserva
    <2> QED BY <2>1, <2>2, <2>3, ContextoMovido
  <1>4. ASSUME NEW i, NEW v, Busca(p, i), UNCHANGED kernelC,
               \/ cpu' = [cpu EXCEPT !.ctx = ConRegistro(ContextoAvanzado, v)]
               \/ cpu' = [cpu EXCEPT !.ctx = ContextoAvanzado]
        PROVE  \A q \in Procesos : Conservado(q)
    <2>1. pcb' = pcb
      BY <1>4 DEF kernelC
    <2> QED BY <1>4, <2>1, TablaAvanza, ContextoMovido
  <1>5. ASSUME NEW i, Busca(p, i), cpu' = SinContexto,
               actualizar_pcb(p, cpu.ctx) \/ actualizar_pcb(p, ContextoAvanzado)
        PROVE  \A q \in Procesos : Conservado(q)
    BY <1>5, TablaAvanza, ContextoMovido
  <1>6. CASE InstruccionDeCPU(p)
    <2>1. ASSUME NEW v, SET(p, v)
          PROVE  \A q \in Procesos : Conservado(q)
      BY <1>4, <2>1 DEF SET, ConRegistro
    <2>2. ASSUME NEW id, NEW d, MOV_IN(p, id, d)
          PROVE  \A q \in Procesos : Conservado(q)
      BY <1>4, <2>2 DEF MOV_IN, ConRegistro
    <2>3. ASSUME NEW id, NEW d, MOV_OUT(p, id, d)
          PROVE  \A q \in Procesos : Conservado(q)
      BY <1>4, <2>3 DEF MOV_OUT
    <2>4. ASSUME NEW id, NEW d, SEG_FAULT(p, id, d)
          PROVE  \A q \in Procesos : Conservado(q)
      BY <1>5, <2>4 DEF SEG_FAULT, terminar_consola
    <2> QED BY <1>6, <2>1, <2>2, <2>3, <2>4 DEF InstruccionDeCPU
  <1>7. CASE YIELD(p) \/ (\E t \in Tiempos : IO(p, t)) \/ WAIT(p)
    <2>1. /\ \E i : Busca(p, i)
          /\ cpu' = SinContexto /\ actualizar_pcb(p, ContextoAvanzado)
      BY <1>7 DEF YIELD, IO, WAIT, Deja, Recibe
    <2> QED BY <1>5, <2>1
  <1>8. CASE EXIT(p)
    BY <1>5, <1>8 DEF EXIT, terminar_consola
  <1>9. CASE SIGNAL(p)
    <2>1. /\ Busca(p, "SIGNAL") /\ actualizar_pcb(p, ContextoAvanzado)
          /\ enviar_ce_a_cpu(p, ContextoAvanzado)
      BY <1>9 DEF SIGNAL, Recibe, devolver_ce_a_cpu
    <2> QED BY <2>1, TablaAvanza, ContextoMovido
  <1> QED BY <1>2, <1>3, <1>6, <1>7, <1>8, <1>9

LEMMA TablaNueva ==
  ASSUME IMemoria, NEW p \in Procesos, crear_pcb(p)
  PROVE  /\ Numeros(listaSegmentos, p) = {}
         /\ Forma(ContextoNuevo, listaSegmentos, p)
  <1>1. PICK l : l = listaSegmentos
    OBVIOUS
  <1>2. p \notin vivos \union muertos
    BY DEF crear_pcb, IniciarProceso
  <1>3. l \in Seq(EsSegmento) /\ IdsDe(l, vivos, muertos)
    BY <1>1 DEF IMemoria, InvDe, TipoDe
  <1>4. p # Global
    BY MemoriaAssumption
  <1>5. \A i \in DOMAIN l : l[i].pid # p
    BY <1>2, <1>3, <1>4 DEF IdsDe
  <1>6. Numeros(l, p) = {}
    BY <1>5 DEF Numeros
  <1>7. EsContexto(ContextoNuevo) /\ ContextoNuevo.tabla = <<segmento_0>>
        /\ ContextoNuevo.tamanio_tabla = 1
    BY DEF EsContexto, ContextoNuevo
  <1>8. <<segmento_0>> \in Seq(EsSegmento) /\ Len(<<segmento_0>>) = 1
    BY NadaEs
  <1>9. Cardinality({}) = 0
    BY FS_EmptySet
  <1> QED BY <1>1, <1>6, <1>7, <1>8, <1>9 DEF Forma

\* A segment asked for, the first time or again: the table of p, and no other, is
\* one entry longer, if it was created.
LEMMA TablaRespuesta ==
  ASSUME IContexto, IMemoria, \A q \in Procesos : FormaDe(q), NEW p \in Procesos,
         cpu.proc = p \/ cpu.proc \notin Procesos, NEW c, Conserva(ContextoDe(p), c),
         PedirSegmento(p) \/ (PedirDeNuevo /\ pendiente.pid = p), RespuestaCreate(p, c)
  PROVE  \/ /\ \A q \in Procesos : Conservado(q)
            /\ listaSegmentos' = listaSegmentos /\ respuesta' # "BASE"
         \/ /\ \A q \in Procesos : q # p => Conservado(q)
            /\ FormaDe(p)'
            /\ \E s : /\ Creado(p, s)
                      /\ ContextoDe(p)'.tabla = Append(ContextoDe(p).tabla, s)
  <1>1. PICK l : l = listaSegmentos
    OBVIOUS
  <1>2. l \in Seq(EsSegmento) /\ IdsDe(l, vivos, muertos)
    BY <1>1 DEF IMemoria, InvDe, TipoDe
  <1>3. CASE NoCreado(p)
    <2>1. \/ actualizar_pcb(p, c) /\ cpu' = SinContexto
          \/ FALSE
      BY <1>3 DEF RespuestaCreate, NoCreado
    <2>2. \A q \in Procesos : Conservado(q)
      BY <2>1, ContextoMovido
    <2> QED BY <1>3, <2>2 DEF NoCreado
  <1>4. CASE \E s : Creado(p, s)
    <2>1. PICK s : Creado(p, s)
      BY <1>4
    <2>2. /\ s \in EsSegmento /\ s.pid = p /\ s.id \notin Numeros(l, p)
          /\ listaSegmentos' = Append(l, s) /\ respuesta' = "BASE"
      BY <1>1, <2>1 DEF Creado
    <2>3. Last(Append(l, s)) = s
      BY <1>2, <2>2 DEF Last
    <2>4. PICK n : n = agregar_segmento(c, s)
      OBVIOUS
    <2>5. actualizar_pcb(p, n) /\ enviar_ce_a_cpu(p, n)
      BY <2>2, <2>3, <2>4 DEF RespuestaCreate
    <2>6. Forma(c, l, p)
      <3>1. Forma(ContextoDe(p), l, p)
        BY <1>1 DEF FormaDe
      <3> QED BY <3>1, FormaQueda
    <2>7. Forma(n, Append(l, s), p) /\ n.tabla = Append(c.tabla, s)
      BY <1>2, <2>2, <2>4, <2>6, FormaAgrega
    <2>8. cpu'.proc = p /\ Conserva(n, cpu'.ctx) /\ Forma(cpu'.ctx, Append(l, s), p)
      BY <2>5, <2>7, FormaViaja
    <2>9. pcb = [q \in Procesos |-> pcb[q]]
      BY DEF IContexto, Formas
    <2>10. pcb'[p] = n /\ \A q \in Procesos : q # p => pcb'[q] = pcb[q]
      BY <2>5, <2>9, Actualizado
    <2>11. \A q \in Procesos : q # p => Conservado(q)
      BY <2>8, <2>10, LosDemas
    <2>12. ContextoDe(p)' = cpu'.ctx
      BY <2>8 DEF ContextoDe
    <2>13. FormaDe(p)'
      BY <2>2, <2>7, <2>8, <2>10, <2>12 DEF FormaDe
    <2>14. ContextoDe(p)'.tabla = Append(ContextoDe(p).tabla, s)
      BY <2>7, <2>8, <2>12 DEF Conserva
    <2> QED BY <2>1, <2>11, <2>13, <2>14
  <1> QED BY <1>3, <1>4, RespuestaDeMemoria

\* DELETE_SEGMENT: the table of p is what memory has left for it.
LEMMA TablaBorrada ==
  ASSUME IContexto, IMemoria, IMemoria', \A q \in Procesos : FormaDe(q), NEW p \in Procesos,
         NEW s, BorrarSegmento(p, s)
  PROVE  /\ \A q \in Procesos : q # p => Conservado(q)
         /\ \A q : q # p => Mismos(listaSegmentos', listaSegmentos, q)
         /\ FormaDe(p)'
         /\ Range(ContextoDe(p)'.tabla) = Entradas(listaSegmentos', p) \union {segmento_0}
  <1>1. PICK l, m : l = listaSegmentos /\ m = listaSegmentos'
    OBVIOUS
  <1>2. /\ l \in Seq(EsSegmento) /\ IdsDe(l, vivos, muertos)
        /\ m \in Seq(EsSegmento) /\ IdsDe(m, vivos', muertos')
    BY <1>1 DEF IMemoria, InvDe, TipoDe
  <1>3. s \in Range(Hallados(l, p)) /\ m = RemoveFirst(l, s)
    BY <1>1 DEF BorrarSegmento, DELETE_SEGMENT, buscarSegmentoPorPID
  <1>4. \E i \in 1 .. Len(l) : l[i] = s /\ l[i].pid = p
    <2>1. s \in Entradas(l, p)
      BY <1>2, <1>3, HalladosSon
    <2> QED BY <1>2, <2>1 DEF Entradas
  <1>5. PICK k \in 1 .. Len(l) : l[k] = s /\ m = Sin(l, k)
    BY <1>2, <1>3, <1>4, QuitarPrimero
  <1>6. \A q : q # p => Mismos(m, l, q)
    BY <1>2, <1>4, <1>5, NumerosSinUno
  <1>7. PICK t, k1, c, d : /\ t = Hallados(m, p) \o <<segmento_0>> /\ k1 = Len(t)
                           /\ c = ContextoAvanzado
                           /\ d = [c EXCEPT !.tabla = t, !.tamanio_tabla = k1]
    OBVIOUS
  <1>8. Busca(p, "DELETE_SEGMENT") /\ devolver_ce_a_cpu(p, d)
    BY <1>1, <1>7 DEF BorrarSegmento
  <1>9. cpu.proc = p /\ EsContexto(c)
    BY <1>7, <1>8, TablaAvanza DEF Conserva
  <1>10. Con(d, t, k1)
    <2>1. d = ConTamanio(ConTabla(c, t), k1)
      BY <1>7 DEF ConTamanio, ConTabla
    <2> QED BY <1>9, <2>1, CambiarTabla
  <1>11. /\ t \in Seq(EsSegmento) /\ Len(t) = Cardinality(Numeros(m, p)) + 1
         /\ Range(t) = Entradas(m, p) \union {segmento_0}
    BY <1>2, <1>7, FormaHallada, NadaEs
  <1>12. Forma(d, m, p)
    BY <1>7, <1>10, <1>11 DEF Forma, Con
  <1>13. actualizar_pcb(p, d) /\ enviar_ce_a_cpu(p, d)
    BY <1>8 DEF devolver_ce_a_cpu
  <1>14. cpu'.proc = p /\ Conserva(d, cpu'.ctx) /\ Forma(cpu'.ctx, m, p)
    BY <1>12, <1>13, FormaViaja
  <1>15. pcb = [q \in Procesos |-> pcb[q]]
    BY DEF IContexto, Formas
  <1>16. pcb'[p] = d /\ \A q \in Procesos : q # p => pcb'[q] = pcb[q]
    BY <1>13, <1>15, Actualizado
  <1>17. \A q \in Procesos : q # p => Conservado(q)
    BY <1>9, <1>14, <1>16, LosDemas
  <1>18. ContextoDe(p)' = cpu'.ctx
    BY <1>14 DEF ContextoDe
  <1>19. FormaDe(p)'
    BY <1>1, <1>12, <1>14, <1>16, <1>18 DEF FormaDe
  <1>20. Range(ContextoDe(p)'.tabla) = Entradas(m, p) \union {segmento_0}
    <2>1. ContextoDe(p)'.tabla = t
      BY <1>10, <1>14, <1>18 DEF Conserva, Con
    <2> QED BY <1>11, <2>1
  <1> QED BY <1>1, <1>6, <1>17, <1>19, <1>20

\* actualizar_lista_segmentos: the new table is as long as tamanio_tabla says, for
\* a compaction creates and deletes no segment.
LEMMA TablasActualizadas ==
  ASSUME IContexto, IMemoria, ITablas, ActualizarTablas
  PROVE  /\ \A q \in Procesos \ LISTA_PCBS_EN_RAM : Conservado(q)
         /\ \A q \in Procesos : FormaDe(q)'
         /\ \A q \in Procesos \intersect LISTA_PCBS_EN_RAM :
              Range(ContextoDe(q)'.tabla)
                = Entradas(listaSegmentos, q) \union {Head(listaSegmentos)}
  <1>1. PICK l : l = listaSegmentos
    OBVIOUS
  <1>2. l \in Seq(EsSegmento) /\ IdsDe(l, vivos, muertos)
    BY <1>1 DEF IMemoria, InvDe, TipoDe
  <1>3. PICK s : s = Head(l) /\ s \in EsSegmento
    <2>1. Len(l) # 0
      BY <1>1, <1>2 DEF ITablas, ConGlobal, Numeros
    <2> QED BY <1>2, <2>1
  <1>4. /\ pc_general = "actualiza" /\ cpu' = cpu /\ listaSegmentos' = l
        /\ pcb' = [q \in Procesos |->
                     IF q \in LISTA_PCBS_EN_RAM
                     THEN ConTabla(pcb[q], Hallados(l, q) \o <<s>>) ELSE pcb[q]]
    BY <1>1, <1>3 DEF ActualizarTablas, ConTabla, buscarSegmentoPorPID, varsM
  <1>5. cpu.proc \notin Procesos
    BY <1>4 DEF IContexto, EnUnLugar
  <1>6. \A q \in Procesos \ LISTA_PCBS_EN_RAM : Conservado(q)
    BY <1>4, LosDemas DEF ITablas
  <1>7. ASSUME NEW q \in Procesos
        PROVE  ContextoDe(q) = pcb[q] /\ ContextoDe(q)' = pcb'[q] /\ Forma(pcb[q], l, q)
    BY <1>1, <1>4, <1>5 DEF ContextoDe, ITablas, FormaDe
  <1>8. ASSUME NEW q \in Procesos \intersect LISTA_PCBS_EN_RAM
        PROVE  /\ FormaDe(q)'
               /\ Range(ContextoDe(q)'.tabla) = Entradas(l, q) \union {s}
    <2>1. PICK t, c : t = Hallados(l, q) \o <<s>> /\ c = pcb[q]
      OBVIOUS
    <2>2. Forma(c, l, q) /\ pcb'[q] = ConTabla(c, t)
      BY <1>4, <1>7, <2>1
    <2>3. /\ t \in Seq(EsSegmento) /\ Len(t) = Cardinality(Numeros(l, q)) + 1
          /\ Range(t) = Entradas(l, q) \union {s}
      BY <1>2, <1>3, <2>1, FormaHallada
    <2>4. Con(ConTabla(c, t), t, c.tamanio_tabla)
      BY <2>2, CambiarTabla DEF Forma
    <2>5. Forma(pcb'[q], l, q) /\ pcb'[q].tabla = t
      BY <2>2, <2>3, <2>4 DEF Forma, Con
    <2> QED BY <1>4, <1>7, <2>3, <2>5 DEF FormaDe
  <1>9. ASSUME NEW q \in Procesos \ LISTA_PCBS_EN_RAM
        PROVE  FormaDe(q)'
    BY <1>1, <1>4, <1>6, FormaDeQueda DEF ITablas
  <1> QED BY <1>1, <1>3, <1>6, <1>8, <1>9

-----------------------------------------------------------------------------
(* TablaEntera.                                                            *)

\* A step that moves segments about, or none.
LEMMA TablasQuedan ==
  ASSUME ITablas, \A q \in Procesos : Conservado(q),
         \A q : Numeros(listaSegmentos', q) = Numeros(listaSegmentos, q)
  PROVE  ITablas'
  BY FormaDeQueda DEF ITablas, ConGlobal

LEMMA TablasRespuesta ==
  ASSUME IContexto, IMemoria, ITablas, NEW p \in Procesos,
         cpu.proc = p \/ cpu.proc \notin Procesos, NEW c, Conserva(ContextoDe(p), c),
         PedirSegmento(p) \/ (PedirDeNuevo /\ pendiente.pid = p), RespuestaCreate(p, c)
  PROVE  ITablas'
  <1>1. \A q \in Procesos : FormaDe(q)
    BY DEF ITablas
  <1>2. CASE /\ \A q \in Procesos : Conservado(q)
             /\ listaSegmentos' = listaSegmentos
    BY <1>2, TablasQuedan
  <1>3. CASE /\ \A q \in Procesos : q # p => Conservado(q)
             /\ FormaDe(p)'
             /\ \E s : Creado(p, s)
    <2>1. PICK l, s : l = listaSegmentos /\ Creado(p, s)
      BY <1>3
    <2>2. l \in Seq(EsSegmento) /\ s \in EsSegmento
      BY <2>1 DEF IMemoria, InvDe, TipoDe, Creado
    <2>3. s.pid = p /\ p # Global /\ listaSegmentos' = Append(l, s)
      BY <2>1, MemoriaAssumption DEF Creado
    <2>4. ASSUME NEW q, q # p
          PROVE  Numeros(listaSegmentos', q) = Numeros(l, q)
      <3>1. Mismos(Append(l, s), l, q)
        BY <2>2, <2>3, <2>4, NumerosConOtro
      <3> QED BY <2>3, <3>1 DEF Mismos
    <2>5. \A q \in Procesos : q # p => FormaDe(q)'
      BY <1>1, <1>3, <2>1, <2>4, FormaDeQueda
    <2>6. ConGlobal(listaSegmentos')
      BY <2>1, <2>3, <2>4 DEF ITablas, ConGlobal
    <2> QED BY <1>3, <2>5, <2>6 DEF ITablas
  <1> QED BY <1>1, <1>2, <1>3, TablaRespuesta

LEMMA PasoTablas ==
  ASSUME IContexto, IMemoria, IMemoria', UnoEnExec, ITablas, [NextC]_varsC
  PROVE  ITablas'
  <1>1. \A q \in Procesos : FormaDe(q)
    BY DEF ITablas
  <1>2. ASSUME NEW p \in Procesos,
               \/ pasar_a_ready(p) \/ LeerTiempo(p) \/ SalirDeBlocked(p) \/ FinDeSleep(p)
               \/ Ejecutar(p) \/ InstruccionDeCPU(p) \/ YIELD(p)
               \/ (\E t \in Tiempos : IO(p, t)) \/ WAIT(p) \/ SIGNAL(p) \/ EXIT(p)
               \/ Finalizar(p) \/ CopiarReady \/ CopiarBlocked
        PROVE  ITablas'
    <2>1. listaSegmentos' = listaSegmentos
      BY <1>2 DEF pasar_a_ready, LeerTiempo, SalirDeBlocked, FinDeSleep, Ejecutar,
                  InstruccionDeCPU, SET, MOV_IN, MOV_OUT, SEG_FAULT, terminar_consola,
                  YIELD, IO, WAIT, SIGNAL, EXIT, Finalizar, FinalizarProceso,
                  CopiarReady, CopiarBlocked, varsM
    <2>2. \A q \in Procesos : Conservado(q)
      BY <1>1, <1>2, PasosQueConservan
    <2> QED BY <2>1, <2>2, TablasQuedan
  <1>3. ASSUME NEW p \in Procesos, crear_pcb(p)
        PROVE  ITablas'
    <2>1. /\ estado[p] = "sin_conexion" /\ pcb' = [pcb EXCEPT ![p] = ContextoNuevo]
          /\ cpu' = cpu /\ listaSegmentos' = listaSegmentos
      BY <1>3 DEF crear_pcb, IniciarProceso
    <2>2. cpu.proc # p
      BY <2>1 DEF IContexto, EnUnLugar
    <2>3. pcb'[p] = ContextoNuevo /\ \A q \in Procesos : q # p => pcb'[q] = pcb[q]
      BY <2>1 DEF IContexto, Formas
    <2>4. FormaDe(p)'
      BY <1>3, <2>1, <2>2, <2>3, TablaNueva DEF FormaDe, ContextoDe
    <2>5. \A q \in Procesos : q # p => FormaDe(q)'
      BY <1>1, <2>1, <2>3, LosDemas, FormaDeQueda
    <2> QED BY <2>1, <2>4, <2>5 DEF ITablas
  <1>4. ASSUME NEW p \in Procesos, CrearSegmento(p)
        PROVE  ITablas'
    <2>1. /\ Busca(p, "CREATE_SEGMENT") /\ PedirSegmento(p)
          /\ RespuestaCreate(p, ContextoAvanzado)
      BY <1>4 DEF CrearSegmento, Recibe
    <2>2. cpu.proc = p /\ Conserva(ContextoDe(p), ContextoAvanzado)
      BY <1>1, <2>1, TablaAvanza
    <2> QED BY <2>1, <2>2, TablasRespuesta
  <1>5. ASSUME NEW p \in Procesos, PedirOtraVez(p)
        PROVE  ITablas'
    <2>1. /\ pc_general = "pide_de_nuevo" /\ estado[p] = "exec" /\ PedirDeNuevo
          /\ RespuestaCreate(p, pcb[p])
      BY <1>5 DEF PedirOtraVez
    <2>2. cpu.proc \notin Procesos /\ pendiente.pid = p
      BY <2>1 DEF IContexto, EnUnLugar, UnoEnExec, PedirDeNuevo
    <2>3. Conserva(ContextoDe(p), pcb[p])
      BY <1>1, <2>2 DEF ContextoDe, FormaDe, Forma, Conserva
    <2> QED BY <2>1, <2>2, <2>3, TablasRespuesta
  <1>6. ASSUME NEW p \in Procesos, NEW s, BorrarSegmento(p, s)
        PROVE  ITablas'
    <2>1. /\ \A q \in Procesos : q # p => Conservado(q)
          /\ \A q : q # p => Mismos(listaSegmentos', listaSegmentos, q)
          /\ FormaDe(p)'
      BY <1>1, <1>6, TablaBorrada
    <2>2. \A q \in Procesos : q # p => FormaDe(q)'
      BY <1>1, <2>1, FormaDeQueda DEF Mismos
    <2>3. ConGlobal(listaSegmentos')
      BY <2>1, MemoriaAssumption DEF ITablas, ConGlobal, Mismos
    <2> QED BY <2>1, <2>2, <2>3 DEF ITablas
  <1>7. ASSUME NEW p \in Procesos, Compactar
        PROVE  ITablas'
    <2>1. PICK l : l = listaSegmentos
      OBVIOUS
    <2>2. PICK m \in EnOrdenDeBase(l) : listaSegmentos' = Rebasados(m)
      BY <1>7, <2>1 DEF Compactar, EMPEZA_A_COMPACTAR, compactar
    <2>3. l \in Seq(EsSegmento)
      BY <2>1 DEF IMemoria, InvDe, TipoDe
    <2>4. \A q : Numeros(Rebasados(m), q) = Numeros(l, q)
      BY <2>2, <2>3, NumerosRebasados
    <2>5. \A q \in Procesos : Conservado(q)
      BY <1>1, <1>7, PasosQueConservan
    <2> QED BY <2>1, <2>2, <2>4, <2>5, TablasQuedan
  <1>8. CASE ActualizarTablas
    <2>1. listaSegmentos' = listaSegmentos
      BY <1>8 DEF ActualizarTablas, varsM
    <2> QED BY <1>8, <2>1, TablasActualizadas DEF ITablas
  <1>9. CASE UNCHANGED varsC
    <2>1. UNCHANGED <<pcb, cpu, listaSegmentos>>
      BY <1>9 DEF varsC, kernelC, varsM
    <2> QED BY <2>1 DEF ITablas, FormaDe, ContextoDe
  <1>10. ASSUME Compactar
         PROVE  ITablas'
    <2>1. pendiente # Nada
      BY <1>10 DEF Compactar, EMPEZA_A_COMPACTAR
    <2>2. pendiente.pid \in Procesos
      BY <2>1 DEF UnoEnExec
    <2> QED BY <1>7, <1>10, <2>2
  <1>11. ASSUME CopiarReady \/ CopiarBlocked
         PROVE  ITablas'
    <2>1. UNCHANGED <<pcb, cpu, listaSegmentos>>
      BY <1>11 DEF CopiarReady, CopiarBlocked, varsM
    <2> QED BY <2>1 DEF ITablas, FormaDe, ContextoDe
  <1>12. ASSUME NEW p \in Procesos, InstruccionDeKernel(p)
         PROVE  ITablas'
    BY <1>2, <1>4, <1>6, <1>12 DEF InstruccionDeKernel
  <1> QED BY <1>2, <1>3, <1>5, <1>8, <1>9, <1>10, <1>11, <1>12 DEF NextC, Compactacion

LEMMA InicioTablas == InitC => UnoEnExec /\ ITablas
  <1> SUFFICES ASSUME InitC
               PROVE  UnoEnExec /\ ITablas
    OBVIOUS
  <1>1. listaSegmentos = <<segmento_0>> /\ pendiente = Nada
    BY DEF InitC, InitM
  <1>2. /\ \A q \in Procesos : pcb[q] = ContextoNuevo /\ estado[q] = "sin_conexion"
        /\ cpu = SinContexto
    BY DEF InitC
  <1>3. cpu.proc \notin Procesos
    BY <1>2, MemoriaAssumption DEF SinContexto
  <1>4. Numeros(<<segmento_0>>, Global) # {}
    BY NadaEs DEF Numeros
  <1>5. ASSUME NEW q \in Procesos
        PROVE  FormaDe(q)
    <2>1. Numeros(<<segmento_0>>, q) = {}
      BY MemoriaAssumption, NadaEs DEF Numeros
    <2>2. EsContexto(ContextoNuevo) /\ ContextoNuevo.tabla = <<segmento_0>>
          /\ ContextoNuevo.tamanio_tabla = 1
      BY DEF EsContexto, ContextoNuevo
    <2>3. <<segmento_0>> \in Seq(EsSegmento) /\ Len(<<segmento_0>>) = 1
      BY NadaEs
    <2>4. Forma(ContextoNuevo, <<segmento_0>>, q)
      BY <2>1, <2>2, <2>3, FS_EmptySet DEF Forma
    <2>5. pcb[q] = ContextoNuevo /\ ContextoDe(q) = ContextoNuevo
      BY <1>2, <1>3 DEF ContextoDe
    <2> QED BY <1>1, <2>4, <2>5 DEF FormaDe
  <1>6. UnoEnExec
    BY <1>1, <1>2 DEF UnoEnExec
  <1> QED BY <1>1, <1>4, <1>5, <1>6 DEF ITablas, ConGlobal

\* tamanio_tabla is the length of the table, through creations, deletions and
\* compactions that rewrite the table without touching the count
\* (agregar_segmento, recibir_respuesta_delete_segment, actualizar_lista_segmentos).
THEOREM LaTablaVaEntera == SpecC => []TablaEntera
  <1> DEFINE I == IContexto /\ IMemoria /\ UnoEnExec /\ ITablas
  <1>1. InitC => I
    BY InicioIContexto, InicioIMemoria, InicioTablas
  <1>2. I /\ [NextC]_varsC => I'
    <2> SUFFICES ASSUME I, [NextC]_varsC
                 PROVE  I'
      OBVIOUS
    <2>1. IContexto' /\ IMemoria'
      BY PasoIContexto, PasoIMemoria
    <2>2. UnoEnExec' /\ ITablas'
      BY <2>1, PasoUno, PasoTablas
    <2> QED BY <2>1, <2>2
  <1>3. I => TablaEntera
    BY DEF ITablas, FormaDe, Forma, TablaEntera
  <1> QED BY <1>1, <1>2, <1>3, PTL DEF SpecC

-----------------------------------------------------------------------------
(* segmento_0 is the first of the list of memory and the lowest, so that    *)
(* list_sort leaves it first; no hole has its base, unless freed memory is  *)
(* read as one.                                                             *)

HuecoAlto == {h \in EsHueco : h.base >= 1 \/ h.tamanio = 0}
BasuraAlta == \A g \in Basura : g.base >= 1 \/ g.tamanio = 0

Raiz(l) ==
  /\ 1 \in DOMAIN l /\ l[1] = segmento_0
  /\ \A i \in DOMAIN l : i # 1 => l[i].pid # Global /\ l[i].base >= 1

LEMMA AltoEs ==
  /\ \A h \in HuecoAlto : /\ h \in EsHueco /\ h.obj \in Nat /\ h.base \in Nat
                          /\ h.tamanio \in Nat /\ (h.base >= 1 \/ h.tamanio = 0)
  /\ \A o, b, t \in Nat : b >= 1 \/ t = 0 => Hueco(o, b, t) \in HuecoAlto
  /\ \A l \in Seq(HuecoAlto) : l \in Seq(EsHueco)
  <1>1. \A h \in HuecoAlto : /\ h \in EsHueco /\ h.obj \in Nat /\ h.base \in Nat
                             /\ h.tamanio \in Nat /\ (h.base >= 1 \/ h.tamanio = 0)
    BY DeHueco DEF HuecoAlto
  <1>2. ASSUME NEW o \in Nat, NEW b \in Nat, NEW t \in Nat, b >= 1 \/ t = 0
        PROVE  Hueco(o, b, t) \in HuecoAlto
    <2>1. PICK h : h = Hueco(o, b, t)
      OBVIOUS
    <2>2. h \in EsHueco /\ h.base = b /\ h.tamanio = t
      BY <2>1, HuecoEs
    <2>3. h \in HuecoAlto
      BY <1>2, <2>2 DEF HuecoAlto
    <2> QED BY <2>1, <2>3
  <1>3. ASSUME NEW l \in Seq(HuecoAlto)
        PROVE  l \in Seq(EsHueco)
    <2>1. \A i \in 1 .. Len(l) : l[i] \in EsHueco
      BY <1>1
    <2>2. Len(l) \in Nat /\ l = [i \in 1 .. Len(l) |-> l[i]]
      OBVIOUS
    <2>3. l \in [1 .. Len(l) -> EsHueco]
      BY <2>1, <2>2
    <2> QED BY <2>2, <2>3
  <1> QED BY <1>1, <1>2, <1>3

LEMMA EscribirAlto ==
  ASSUME NEW l \in Seq(HuecoAlto), NEW o \in Nat, NEW b \in Nat, NEW t \in Nat,
         b >= 1 \/ t = 0
  PROVE  Escribir(l, o, b, t) \in Seq(HuecoAlto)
  <1>1. Hueco(o, b, t) \in HuecoAlto
    BY AltoEs
  <1>2. \A i \in 1 .. Len(l) : l[i] \in HuecoAlto
    OBVIOUS
  <1>3. Escribir(l, o, b, t) = [i \in 1 .. Len(l) |-> IF l[i].obj = o THEN Hueco(o, b, t) ELSE l[i]]
    BY DEF Escribir
  <1>4. Escribir(l, o, b, t) \in [1 .. Len(l) -> HuecoAlto]
    BY <1>1, <1>2, <1>3
  <1>5. Len(l) \in Nat
    OBVIOUS
  <1> QED BY <1>4, <1>5

LEMMA UnirAlto ==
  ASSUME NEW l \in Seq(HuecoAlto), NEW i \in Nat, i >= 1
  PROVE  Unir(l, i) \in Seq(HuecoAlto)
  <1>1. CASE i >= Len(l) \/ l[i].base + l[i].tamanio # l[i + 1].base
    BY <1>1 DEF Unir
  <1>2. CASE ~(i >= Len(l)) /\ l[i].base + l[i].tamanio = l[i + 1].base
    <2>1. PICK k : k = i + 1
      OBVIOUS
    <2>2. i \in 1 .. Len(l) /\ k \in 1 .. Len(l)
      BY <1>2, <2>1
    <2>3. l[i] \in HuecoAlto /\ l[k] \in HuecoAlto
      BY <2>2
    <2>4. PICK o, b, z, y, t : /\ o = l[k].obj /\ b = l[i].base /\ z = l[k].tamanio
                               /\ y = l[i].tamanio /\ t = z + y
      OBVIOUS
    <2>5. o \in Nat /\ b \in Nat /\ z \in Nat /\ y \in Nat
      BY <2>3, <2>4, AltoEs
    <2>6. (b >= 1 \/ y = 0) /\ (b + y >= 1 \/ z = 0)
      <3>1. (b >= 1 \/ y = 0) /\ (l[k].base >= 1 \/ z = 0)
        BY <2>3, <2>4, AltoEs
      <3> QED BY <1>2, <2>1, <2>4, <3>1
    <2>7. t \in Nat /\ (b >= 1 \/ t = 0)
      <3>1. t = z + y
        BY <2>4
      <3> QED BY <2>5, <2>6, <3>1
    <2>8. Escribir(l, o, b, t) \in Seq(HuecoAlto)
      BY <2>5, <2>7, EscribirAlto
    <2>9. Unir(l, i) = RemoveFirst(Escribir(l, o, b, t), l[i])
      BY <1>2, <2>1, <2>4 DEF Unir
    <2> QED BY <2>8, <2>9, QuitarTipo
  <1> QED BY <1>1, <1>2

LEMMA BuddyAlto ==
  ASSUME NEW l \in Seq(HuecoAlto), NEW r \in buddySystem(l)
  PROVE  r \in Seq(HuecoAlto)
  <1>1. PICK m \in EnOrdenDeBase(l) : r = Pasada(m)[Len(m)]
    BY DEF buddySystem
  <1>2. m \in Seq(HuecoAlto) /\ m \in Seq(EsHueco)
    BY OrdenadaEs, AltoEs
  <1>3. PICK n, g : n = Len(m) /\ g = Pasada(m)
    OBVIOUS
  <1>4. n \in Nat
    BY <1>2, <1>3
  <1>5. g[0] = m /\ \A i \in 1 .. n : g[i] = Unir(g[i - 1], i)
    BY <1>2, <1>3, PasadaEs
  <1> DEFINE S == {i \in Nat : i <= n => g[i] \in Seq(HuecoAlto)}
  <1>6. 0 \in S
    BY <1>2, <1>5
  <1>7. ASSUME NEW i \in S
        PROVE  i + 1 \in S
    <2>1. SUFFICES ASSUME i + 1 <= n
                   PROVE  g[i + 1] \in Seq(HuecoAlto)
      OBVIOUS
    <2>2. i + 1 \in Nat /\ i + 1 >= 1 /\ (i + 1) - 1 = i /\ i + 1 \in 1 .. n
      BY <1>4, <2>1
    <2>3. PICK j \in 1 .. n : j = i + 1
      BY <2>2
    <2>4. g[j] = Unir(g[i], j) /\ g[i] \in Seq(HuecoAlto)
      BY <1>4, <1>5, <2>1, <2>2, <2>3
    <2> QED BY <2>2, <2>3, <2>4, UnirAlto
  <1>8. S = Nat
    <2>1. S \in SUBSET Nat
      OBVIOUS
    <2> QED BY <1>6, <1>7, <2>1, Induccion
  <1>9. n \in S
    BY <1>4, <1>8
  <1> QED BY <1>1, <1>3, <1>9

\* The hole that a segment of a process leaves, and the holes of its end.
LEMMA OtroAlto ==
  ASSUME NEW h \in Seq(HuecoAlto), NEW s \in EsSegmento, s.base >= 1
  PROVE  /\ Hueco(ObjetoNuevo(h), s.base, s.tamanio) \in HuecoAlto
         /\ Append(h, Hueco(ObjetoNuevo(h), s.base, s.tamanio)) \in Seq(HuecoAlto)
  <1>1. PICK o, b, t : o = ObjetoNuevo(h) /\ b = s.base /\ t = s.tamanio
    OBVIOUS
  <1>2. o \in Nat /\ b \in Nat /\ t \in Nat /\ b >= 1
    BY <1>1, AltoEs, ObjetoEs, SegmentoEs
  <1>3. Hueco(o, b, t) \in HuecoAlto
    BY <1>2, AltoEs
  <1> QED BY <1>1, <1>3

LEMMA EliminarAlto ==
  ASSUME listaHuecos \in Seq(HuecoAlto), NEW b \in Seq(EsSegmento),
         \A i \in 1 .. Len(b) : b[i].base >= 1
  PROVE  eliminarProceso(b) \in Seq(HuecoAlto)
  <1>1. PICK n, v : n = Len(b) /\ v = (n + 1) \div 2
    OBVIOUS
  <1>2. n \in Nat /\ v \in Nat /\ v <= n
    BY <1>1
  <1>3. CASE v = 0
    BY <1>1, <1>3 DEF eliminarProceso
  <1>4. CASE v # 0
    <2>1. v \in 1 .. n
      BY <1>2, <1>4
    <2>2. b[v] \in EsSegmento /\ b[v].base >= 1
      BY <1>1, <2>1
    <2>3. PICK h : h = Hueco(ObjetoNuevo(listaHuecos), b[v].base, b[v].tamanio)
      OBVIOUS
    <2>4. h \in HuecoAlto
      BY <2>2, <2>3, OtroAlto
    <2>5. [i \in 1 .. v |-> h] \in Seq(HuecoAlto)
      BY <1>2, <2>4
    <2>6. eliminarProceso(b) = listaHuecos \o [i \in 1 .. v |-> h]
      BY <1>1, <1>4, <2>3 DEF eliminarProceso
    <2> QED BY <2>5, <2>6, ConcatProperties
  <1> QED BY <1>3, <1>4

LEMMA OcuparAlto ==
  ASSUME BasuraAlta, NEW l, l = listaHuecos, l \in Seq(HuecoAlto), NEW i \in DOMAIN l,
         NEW t \in Nat, t > 0, NEW r \in Ocupar(i, t), l[i].tamanio >= t
  PROVE  r \in Seq(HuecoAlto) /\ l[i].base \in Nat /\ l[i].base >= 1
  <1>1. i \in 1 .. Len(l) /\ l[i] \in HuecoAlto
    OBVIOUS
  <1>2. PICK o, b, z : o = l[i].obj /\ b = l[i].base /\ z = l[i].tamanio
    OBVIOUS
  <1>3. o \in Nat /\ b \in Nat /\ z \in Nat /\ b >= 1
    BY <1>1, <1>2, AltoEs
  <1>4. RemoveAt(l, i) = Sin(l, i) /\ Sin(l, i) \in Seq(HuecoAlto)
    BY <1>1, QuitarEs
  <1>5. CASE z > t
    <2>1. PICK c \in Nat, u \in Nat : c = b + t /\ u = z - t
      BY <1>3, <1>5
    <2>2. r = Escribir(l, o, c, u)
      BY <1>2, <1>5, <2>1 DEF Ocupar
    <2>3. c >= 1
      BY <1>3, <2>1
    <2> QED BY <1>2, <1>3, <2>2, <2>3, EscribirAlto
  <1>6. CASE ~(z > t)
    <2>1. r = Sin(l, i) \/ \E g \in Basura : r = Escribir(Sin(l, i), o, g.base, g.tamanio)
      BY <1>2, <1>4, <1>6 DEF Ocupar
    <2>2. ASSUME NEW g \in Basura, r = Escribir(Sin(l, i), o, g.base, g.tamanio)
          PROVE  r \in Seq(HuecoAlto)
      <3>1. g.base \in Nat /\ g.tamanio \in Nat /\ (g.base >= 1 \/ g.tamanio = 0)
        BY MemoriaAssumption DEF BasuraAlta
      <3> QED BY <1>3, <1>4, <2>2, <3>1, EscribirAlto
    <2> QED BY <1>2, <1>3, <1>4, <2>1, <2>2
  <1> QED BY <1>5, <1>6

\* A new segment above segmento_0, one less, and all of them moved down.
LEMMA RaizConOtro ==
  ASSUME NEW l \in Seq(EsSegmento), Raiz(l), NEW s \in EsSegmento, s.pid # Global, s.base >= 1
  PROVE  Raiz(Append(l, s))
  <1>1. PICK m, n : m = Append(l, s) /\ n = Len(l) + 1
    OBVIOUS
  <1>2. /\ DOMAIN m = 1 .. n /\ DOMAIN l = 1 .. Len(l) /\ m[n] = s
        /\ \A i \in 1 .. Len(l) : m[i] = l[i]
    BY <1>1
  <1>3. \A i : i \in 1 .. n <=> i = n \/ i \in 1 .. Len(l)
    BY <1>1
  <1>4. Raiz(m)
    BY <1>2, <1>3 DEF Raiz
  <1> QED BY <1>1, <1>4

LEMMA RaizSinUno ==
  ASSUME NEW l \in Seq(EsSegmento), Raiz(l), NEW k \in 1 .. Len(l), l[k].pid # Global
  PROVE  Raiz(Sin(l, k))
  <1>1. PICK m, n : m = Sin(l, k) /\ n = Len(l) - 1
    OBVIOUS
  <1>2. DOMAIN m = 1 .. n /\ DOMAIN l = 1 .. Len(l) /\ Len(l) \in Nat
    BY <1>1, EntradasSin
  <1>3. k # 1
    BY NadaEs DEF Raiz
  <1>4. ASSUME NEW j \in 1 .. n, j # 1
        PROVE  m[j].pid # Global /\ m[j].base >= 1
    <2>1. PICK i \in 1 .. Len(l) : i = (IF j < k THEN j ELSE j + 1) /\ m[j] = l[i]
      BY <1>1, EntradasSin
    <2>2. i # 1
      BY <1>2, <1>4, <2>1
    <2> QED BY <1>2, <2>1, <2>2 DEF Raiz
  <1>5. 1 \in 1 .. n /\ 1 < k
    BY <1>1, <1>2, <1>3
  <1>6. m[1] = l[1]
    BY <1>1, <1>5 DEF Sin
  <1> QED BY <1>1, <1>2, <1>4, <1>5, <1>6 DEF Raiz

LEMMA RaizRebasada ==
  ASSUME NEW l \in Seq(EsSegmento), Raiz(l), NEW m \in EnOrdenDeBase(l)
  PROVE  Raiz(Rebasados(m)) /\ <<HuecoNuevo(1, m)>> \in Seq(HuecoAlto)
  <1>1. PICK n, d, a : n = Len(l) /\ d = Desplazamiento(m) /\ a = Rebasados(m)
    OBVIOUS
  <1>2. /\ m \in Seq(EsSegmento) /\ Len(m) = n /\ n \in Nat /\ DOMAIN l = 1 .. n
        /\ \A j \in 1 .. n : m[1].base <= l[j].base
    BY <1>1, OrdenadaEs
  <1>3. PICK o : Reordena(m, l, o)
    BY OrdenadaEs
  <1>4. /\ \A i \in 1 .. n : m[i] = l[o[i]] /\ o[i] \in 1 .. n
        /\ \A i, j \in 1 .. n : i # j => o[i] # o[j]
    BY <1>1, <1>3 DEF Reordena
  <1>5. 1 \in 1 .. n /\ l[1] = segmento_0 /\ n >= 1
    BY <1>2 DEF Raiz
  <1>6. o[1] = 1
    <2>1. m[1].base <= 0
      BY <1>2, <1>5, NadaEs
    <2>2. \A i \in 1 .. n : i # 1 => l[i].base >= 1
      BY <1>2 DEF Raiz
    <2>3. PICK j \in 1 .. n : j = o[1] /\ m[1] = l[j]
      BY <1>4, <1>5
    <2>4. ~(m[1].base >= 1)
      <3>1. m[1].base \in Nat
        BY <1>2, <1>5, SegmentoEs
      <3> QED BY <2>1, <3>1
    <2> QED BY <2>2, <2>3, <2>4
  <1>7. m[1] = segmento_0 /\ \A i \in 1 .. n : i # 1 => m[i].pid # Global
    BY <1>2, <1>4, <1>5, <1>6 DEF Raiz
  <1>8. \A i \in 1 .. n : m[i].tamanio \in Nat
    BY <1>2, SegmentoEs
  <1>9. /\ d \in [0 .. n -> Nat] /\ d[0] = 0
        /\ \A i \in 1 .. n : d[i] = d[i - 1] + m[i].tamanio
    BY <1>1, <1>2, <1>8, DesplazamientoEs
  <1>10. d[1] >= 1
    <2>1. d[1] = d[0] + m[1].tamanio
      BY <1>5, <1>9
    <2>2. m[1].tamanio \in Nat /\ m[1].tamanio >= 1
      BY <1>7, NadaEs, MemoriaAssumption
    <2> QED BY <1>9, <2>1, <2>2
  <1>11. \A j \in 1 .. n : d[j] \in Nat /\ d[j] >= 1
    <2>1. \A i \in 1 .. n : d[i - 1] <= d[i]
      <3>1. ASSUME NEW i \in 1 .. n
            PROVE  d[i - 1] <= d[i]
        <4>1. i - 1 \in 0 .. n /\ i \in 0 .. n
          BY <1>2
        <4>2. d[i - 1] \in Nat /\ d[i] \in Nat /\ m[i].tamanio \in Nat
          BY <1>8, <1>9, <4>1
        <4> QED BY <1>9, <4>2
      <3> QED BY <3>1
    <2>2. Sube(d, n)
      BY <1>2, <1>9, <2>1, DesplazamientoSube
    <2>3. ASSUME NEW j \in 1 .. n
          PROVE  d[j] \in Nat /\ d[j] >= 1
      <3>1. 1 \in 0 .. n /\ j \in 0 .. n /\ 1 <= j
        BY <1>5
      <3>2. d[1] <= d[j] /\ d[j] \in Nat /\ d[1] \in Nat
        BY <1>9, <2>2, <3>1 DEF Sube
      <3> QED BY <1>10, <3>2
    <2> QED BY <2>3
  <1>12. Seguidos(a, m, d, n)
    <2>1. Seguidos(Rebasados(m), m, Desplazamiento(m), Len(m))
      BY <1>2, RebasadosEs
    <2> QED BY <1>1, <1>2, <2>1
  <1>13. a \in Seq(EsSegmento) /\ DOMAIN a = 1 .. n
    BY <1>12 DEF Seguidos
  <1>14. a[1] = segmento_0
    <2>1. \A x \in EsSegmento : x = segmentoCrear(x.pid, x.id, x.base, x.tamanio)
      BY DEF EsSegmento, segmentoCrear
    <2>2. a[1] \in EsSegmento
      <3>1. Len(a) = n
        BY <1>12 DEF Seguidos
      <3>2. a \in Seq(EsSegmento)
        BY <1>13
      <3>3. \A i \in 1 .. Len(a) : a[i] \in EsSegmento
        BY <3>2
      <3> QED BY <1>5, <3>1, <3>3
    <2>3. /\ a[1].pid = segmento_0.pid /\ a[1].id = segmento_0.id
          /\ a[1].tamanio = segmento_0.tamanio /\ a[1].base = d[1 - 1]
      BY <1>5, <1>7, <1>12 DEF Seguidos
    <2>4. a[1].base = segmento_0.base
      BY <1>9, <2>3, NadaEs
    <2> QED BY <2>1, <2>2, <2>3, <2>4, NadaEs
  <1>15. ASSUME NEW i \in 1 .. n, i # 1
         PROVE  a[i].pid # Global /\ a[i].base >= 1
    <2>1. PICK j : j = i - 1 /\ j \in 1 .. n
      BY <1>2, <1>15
    <2>2. a[i].pid = m[i].pid /\ a[i].base = d[j]
      BY <1>12, <2>1 DEF Seguidos
    <2> QED BY <1>7, <1>11, <1>15, <2>1, <2>2
  <1>16. Raiz(a)
    BY <1>5, <1>13, <1>14, <1>15 DEF Raiz
  <1>17. HuecoNuevo(1, m) \in HuecoAlto
    <2>1. HuecoNuevo(1, m) \in EsHueco
      BY <1>2, HuecoNuevoEs
    <2>2. PICK x : x = (TamMemoria - d[n]) % Modulo
      OBVIOUS
    <2>3. HuecoNuevo(1, m) = Hueco(1, d[n], x)
      BY <1>1, <1>2, <2>2 DEF HuecoNuevo
    <2>4. HuecoNuevo(1, m).base = d[n]
      BY <2>3 DEF Hueco
    <2>5. d[n] >= 1
      <3>1. n \in 1 .. n
        BY <1>2, <1>5
      <3> QED BY <1>11, <3>1
    <2> QED BY <2>1, <2>4, <2>5 DEF HuecoAlto
  <1>18. <<HuecoNuevo(1, m)>> \in Seq(HuecoAlto)
    BY <1>17
  <1> QED BY <1>1, <1>16, <1>18

IRaiz == Raiz(listaSegmentos) /\ (BasuraAlta => listaHuecos \in Seq(HuecoAlto))

\* A segment created is above segmento_0: no hole has that base, or the segments
\* in use do not overlap.
LEMMA RaizCrear ==
  ASSUME MaxSegmentos <= 2 \/ BasuraAlta, IMemoria, IMemoria', IRaiz, NEW p \in Procesos,
         NEW id, NEW t \in Tamanios, CREATE_SEGMENT(p, id, t), p \in vivos
  PROVE  IRaiz'
  <1>1. PICK l, h : l = listaSegmentos /\ h = listaHuecos
    OBVIOUS
  <1>2. /\ l \in Seq(EsSegmento) /\ h \in Seq(EsHueco) /\ Raiz(l)
        /\ BasuraAlta => h \in Seq(HuecoAlto)
    BY <1>1 DEF IMemoria, InvDe, TipoDe, IRaiz
  <1>3. t \in Nat /\ t > 0 /\ p # Global
    BY MemoriaAssumption
  <1>4. CASE CrearSinLugar(p, id, t)
    BY <1>1, <1>2, <1>4 DEF CrearSinLugar, IRaiz
  <1>5. CASE CrearConLugar(p, id, t)
    <2>1. PICK i \in DOMAIN h :
            /\ Elegible(i, t) /\ listaHuecos' \in Ocupar(i, t)
            /\ listaSegmentos' = Append(l, segmentoCrear(p, id, h[i].base, t))
      BY <1>1, <1>5 DEF CrearConLugar
    <2>2. PICK s, m, n : /\ s = segmentoCrear(p, id, h[i].base, t) /\ n = Len(l) + 1
                         /\ m = Append(l, s)
      OBVIOUS
    <2>3. /\ s.pid = p /\ s.base = h[i].base /\ s.tamanio = t
          /\ listaSegmentos' = m
      BY <2>1, <2>2 DEF segmentoCrear
    <2>4. m \in Seq(EsSegmento)
      BY <2>3 DEF IMemoria, InvDe, TipoDe
    <2>5. /\ DOMAIN m = 1 .. n /\ DOMAIN l = 1 .. Len(l) /\ m[n] = s /\ Len(l) \in Nat
          /\ \A j \in 1 .. Len(l) : m[j] = l[j]
      BY <1>2, <2>2
    <2>6. s \in EsSegmento
      <3>1. n \in 1 .. n
        BY <2>2, <2>5
      <3>2. \A j \in 1 .. Len(m) : m[j] \in EsSegmento
        BY <2>4
      <3> QED BY <2>4, <2>5, <3>1, <3>2
    <2>7. h[i].tamanio >= t
      BY <1>1, <2>1 DEF Elegible, Cabe
    <2>8. CASE BasuraAlta
      <3>1. listaHuecos' \in Seq(HuecoAlto) /\ h[i].base >= 1
        BY <1>1, <1>2, <1>3, <2>1, <2>7, <2>8, OcuparAlto
      <3> QED BY <1>2, <1>3, <2>2, <2>3, <2>6, <3>1, RaizConOtro DEF IRaiz
    <2>9. CASE ~BasuraAlta
      <3>1. MaxSegmentos <= 2
        BY <2>9
      <3>2. SegmentosBien(m, vivos')
        BY <2>3, <3>1 DEF IMemoria, InvDe, Sana, ApartadosDe
      <3>3. 1 \in 1 .. Len(l) /\ 1 # n /\ n \in 1 .. n /\ 1 \in 1 .. n
        BY <1>2, <2>2, <2>5 DEF Raiz
      <3>4. m[1] = segmento_0
        BY <1>2, <2>5, <3>3 DEF Raiz
      <3>5. p \in vivos'
        BY DEF CREATE_SEGMENT
      <3>6. 1 \in De(m, vivos') /\ n \in De(m, vivos')
        BY <2>3, <2>5, <3>3, <3>4, <3>5, NadaEs DEF De
      <3>7. Disjuntos(segmento_0, s)
        BY <2>5, <3>2, <3>3, <3>4, <3>6 DEF SegmentosBien
      <3>8. 0 \in Bytes(segmento_0)
        <4>1. Bytes(segmento_0) = 0 .. 0 + TamSegmento0 - 1
          BY NadaEs DEF Bytes
        <4>2. TamSegmento0 \in Nat /\ TamSegmento0 >= 1
          BY MemoriaAssumption
        <4> QED BY <4>1, <4>2
      <3>9. 0 \notin Bytes(s)
        BY <3>7, <3>8 DEF Disjuntos
      <3>10. s.base >= 1
        <4>1. PICK b : b = s.base /\ b \in Nat /\ Bytes(s) = b .. b + t - 1
          BY <2>3, <2>6, SegmentoEs
        <4> QED BY <1>3, <3>9, <4>1
      <3> QED BY <1>2, <1>3, <2>2, <2>3, <2>6, <2>9, <3>10, RaizConOtro DEF IRaiz
    <2> QED BY <2>8, <2>9
  <1> QED BY <1>4, <1>5 DEF CREATE_SEGMENT

LEMMA PasoRaiz ==
  ASSUME MaxSegmentos <= 2 \/ BasuraAlta, IMemoria, IMemoria', IRaiz, NextM
  PROVE  IRaiz'
  <1>1. PICK l, h : l = listaSegmentos /\ h = listaHuecos
    OBVIOUS
  <1>2. /\ l \in Seq(EsSegmento) /\ h \in Seq(EsHueco) /\ Raiz(l)
        /\ BasuraAlta => h \in Seq(HuecoAlto)
    BY <1>1 DEF IMemoria, InvDe, TipoDe, IRaiz
  <1>3. ASSUME NEW p \in Procesos, NEW s, s \in Range(Hallados(l, p))
        PROVE  \E i \in 1 .. Len(l) : l[i] = s /\ l[i].pid = p
    <2>1. PICK b : b = Hallados(l, p)
      OBVIOUS
    <2>2. Halla(b, Len(l), l, p)
      BY <1>2, <2>1, HalladosEs
    <2>3. b \in Seq(EsSegmento)
      BY <2>2 DEF Halla
    <2>4. PICK j \in 1 .. Len(b) : b[j] = s
      BY <1>3, <2>1, <2>3 DEF Range
    <2> QED BY <2>2, <2>4 DEF Halla
  <1>4. ASSUME NEW i \in 1 .. Len(l), l[i].pid \in Procesos
        PROVE  l[i] \in EsSegmento /\ l[i].pid # Global /\ l[i].base >= 1
    <2>1. l[i] \in EsSegmento /\ l[i].pid # Global
      BY <1>2, <1>4, MemoriaAssumption
    <2>2. i # 1 /\ i \in DOMAIN l
      BY <1>2, <2>1, NadaEs DEF Raiz
    <2> QED BY <1>2, <2>1, <2>2 DEF Raiz
  <1>5. ASSUME NEW p \in Procesos, IniciarProceso(p)
        PROVE  IRaiz'
    BY <1>5 DEF IniciarProceso, IRaiz
  <1>6. ASSUME NEW p \in Procesos, FinalizarProceso(p)
        PROVE  IRaiz'
    <2>1. listaSegmentos' = l
      BY <1>1, <1>6 DEF FinalizarProceso
    <2>2. ASSUME BasuraAlta
          PROVE  listaHuecos' \in Seq(HuecoAlto)
      <3>1. PICK b : b = Hallados(l, p)
        OBVIOUS
      <3>2. listaHuecos' \in buddySystem(eliminarProceso(b))
        BY <1>1, <1>6, <3>1 DEF FinalizarProceso, buscarSegmentoPorPID
      <3>3. Halla(b, Len(l), l, p)
        BY <1>2, <3>1, HalladosEs
      <3>4. b \in Seq(EsSegmento)
        BY <3>3 DEF Halla
      <3>5. \A i \in 1 .. Len(b) : b[i].base >= 1
        BY <1>4, <3>3 DEF Halla
      <3>6. eliminarProceso(b) \in Seq(HuecoAlto)
        BY <1>1, <1>2, <2>2, <3>4, <3>5, EliminarAlto
      <3> QED BY <3>2, <3>6, BuddyAlto
    <2> QED BY <1>2, <2>1, <2>2 DEF IRaiz
  <1>7. ASSUME NEW p \in Procesos, NEW s, DELETE_SEGMENT(p, s)
        PROVE  IRaiz'
    <2>1. /\ s \in Range(Hallados(l, p)) /\ listaSegmentos' = RemoveFirst(l, s)
          /\ listaHuecos' \in buddySystem(Append(h, Hueco(ObjetoNuevo(h), s.base, s.tamanio)))
      BY <1>1, <1>7 DEF DELETE_SEGMENT, buscarSegmentoPorPID
    <2>2. \E i \in 1 .. Len(l) : l[i] = s /\ l[i].pid = p
      BY <1>3, <2>1
    <2>3. PICK k \in 1 .. Len(l) : l[k] = s /\ listaSegmentos' = Sin(l, k)
      BY <1>2, <2>1, <2>2, QuitarPrimero
    <2>4. s \in EsSegmento /\ l[k].pid # Global /\ s.base >= 1
      BY <1>4, <2>2, <2>3
    <2>5. Raiz(listaSegmentos')
      BY <1>2, <2>3, <2>4, RaizSinUno
    <2>6. ASSUME BasuraAlta
          PROVE  listaHuecos' \in Seq(HuecoAlto)
      <3>1. Append(h, Hueco(ObjetoNuevo(h), s.base, s.tamanio)) \in Seq(HuecoAlto)
        BY <1>2, <2>4, <2>6, OtroAlto
      <3> QED BY <2>1, <3>1, BuddyAlto
    <2> QED BY <2>5, <2>6 DEF IRaiz
  <1>8. ASSUME NEW p \in Procesos, PedirSegmento(p)
        PROVE  IRaiz'
    <2>1. PICK id : \E t \in Tamanios : CREATE_SEGMENT(p, id, t)
      BY <1>8 DEF PedirSegmento
    <2>2. p \in vivos
      BY <1>8 DEF PedirSegmento
    <2> QED BY <2>1, <2>2, RaizCrear
  <1>9. CASE PedirDeNuevo
    <2>1. PICK p, id, t : p = pendiente.pid /\ id = pendiente.id /\ t = pendiente.tamanio
      OBVIOUS
    <2>2. CREATE_SEGMENT(p, id, t) /\ pendiente # Nada
      BY <1>9, <2>1 DEF PedirDeNuevo
    <2>3. p \in vivos /\ t \in Tamanios /\ p \in Procesos
      BY <2>1, <2>2 DEF IMemoria, InvDe, PedidoDe, TipoDe
    <2> QED BY <2>2, <2>3, RaizCrear
  <1>10. CASE EMPEZA_A_COMPACTAR
    <2>1. PICK m \in EnOrdenDeBase(l) :
            listaSegmentos' = Rebasados(m) /\ listaHuecos' = <<HuecoNuevo(1, m)>>
      BY <1>1, <1>10 DEF EMPEZA_A_COMPACTAR, compactar
    <2> QED BY <1>2, <2>1, RaizRebasada DEF IRaiz
  <1> QED BY <1>5, <1>6, <1>7, <1>8, <1>9, <1>10 DEF NextM

-----------------------------------------------------------------------------
(* TablasAlDia.                                                            *)

Iguales(q) ==
  Range(ContextoDe(q).tabla) = Entradas(listaSegmentos, q) \union {segmento_0}

\* A compaction has moved the segments of q, and its table is still to be rewritten.
Falta(q) ==
  \/ pc_general = "copia_ready"
  \/ pc_general = "copia_blocked" /\ (estado[q] = "exec" \/ q \in LISTA_PCBS_EN_RAM)
  \/ pc_general = "actualiza" /\ q \in LISTA_PCBS_EN_RAM

Activo == {"ready", "exec", "blocked", "ninguna", "espera"}

TablaBien(q) ==
  /\ estado[q] \in {"sin_conexion", "new", "exit"} \union Activo
  /\ estado[q] = "new" => Numeros(listaSegmentos, q) = {} /\ Iguales(q)
  /\ estado[q] \in Activo /\ q \notin omitidos => Iguales(q) \/ Falta(q)

IAlDia == \A q \in Procesos : TablaBien(q)

LEMMA SinFalta ==
  ASSUME pc_general \notin {"copia_ready", "copia_blocked", "actualiza"}
  PROVE  \A q : ~Falta(q)
  BY DEF Falta

LEMMA IgualesQuedan ==
  ASSUME NEW q, Iguales(q), Conservado(q), Mismos(listaSegmentos', listaSegmentos, q)
  PROVE  Iguales(q)'
  BY DEF Iguales, Conservado, Conserva, Mismos

\* How the table of a process that does not ask for segments may change.
LEMMA BienQueda ==
  ASSUME NEW q, TablaBien(q), Conservado(q), Mismos(listaSegmentos', listaSegmentos, q),
         q \in omitidos => q \in omitidos',
         \/ estado'[q] = estado[q] /\ (estado[q] \in Activo /\ Falta(q) => Falta(q)')
         \/ estado'[q] = "exit"
         \/ estado[q] = "new" /\ estado'[q] \in Activo
         \/ estado[q] \in Activo /\ estado'[q] \in Activo /\ (Falta(q) => Falta(q)')
  PROVE  TablaBien(q)'
  <1>1. Iguales(q) => Iguales(q)'
    BY IgualesQuedan
  <1>2. Numeros(listaSegmentos', q) = Numeros(listaSegmentos, q)
    BY DEF Mismos
  <1> QED BY <1>1, <1>2 DEF TablaBien, Activo

\* Without segments nothing moves.
LEMMA SinEntradas ==
  ASSUME NEW l, NEW q, Numeros(l, q) = {}
  PROVE  Entradas(l, q) = {}
  BY DEF Numeros, Entradas

LEMMA BienCrear ==
  ASSUME IContexto, IMemoria, ITablas, IAlDia, NEW p \in Procesos, crear_pcb(p)
  PROVE  IAlDia'
  <1>1. /\ estado[p] = "sin_conexion" /\ estado' = [estado EXCEPT ![p] = "new"]
        /\ pcb' = [pcb EXCEPT ![p] = ContextoNuevo]
        /\ UNCHANGED <<cpu, pc_general, LISTA_PCBS_EN_RAM, omitidos, listaSegmentos>>
    BY DEF crear_pcb, IniciarProceso, copiados
  <1>2. /\ estado'[p] = "new" /\ \A q \in Procesos : q # p => estado'[q] = estado[q]
        /\ pcb'[p] = ContextoNuevo /\ \A q \in Procesos : q # p => pcb'[q] = pcb[q]
    BY <1>1 DEF IContexto, Formas
  <1>3. cpu'.proc # p
    BY <1>1 DEF IContexto, EnUnLugar
  <1>4. ContextoDe(p)' = ContextoNuevo
    BY <1>2, <1>3 DEF ContextoDe
  <1>5. Numeros(listaSegmentos', p) = {}
    BY <1>1, TablaNueva
  <1>6. Iguales(p)'
    <2>1. Range(<<segmento_0>>) = {segmento_0}
      BY DEF Range
    <2>2. ContextoNuevo.tabla = <<segmento_0>>
      BY DEF ContextoNuevo
    <2>3. Entradas(listaSegmentos', p) = {}
      BY <1>5, SinEntradas
    <2> QED BY <1>4, <2>1, <2>2, <2>3 DEF Iguales
  <1>7. TablaBien(p)'
    BY <1>2, <1>5, <1>6 DEF TablaBien, Activo
  <1>8. ASSUME NEW q \in Procesos, q # p
        PROVE  TablaBien(q)'
    <2>1. Conservado(q)
      BY <1>1, <1>2, <1>8, LosDemas DEF ITablas
    <2>2. Mismos(listaSegmentos', listaSegmentos, q)
      BY <1>1 DEF Mismos
    <2>3. estado'[q] = estado[q] /\ (Falta(q) => Falta(q)')
      BY <1>1, <1>2, <1>8 DEF Falta
    <2> QED BY <1>1, <2>1, <2>2, <2>3, BienQueda DEF IAlDia
  <1> QED BY <1>7, <1>8 DEF IAlDia

LEMMA BienRespuesta ==
  ASSUME IContexto, IMemoria, ITablas, IAlDia, NEW p \in Procesos, estado[p] = "exec",
         pc_general \in {"espera_cym", "pide_de_nuevo"},
         cpu.proc = p \/ cpu.proc \notin Procesos, NEW c, Conserva(ContextoDe(p), c),
         PedirSegmento(p) \/ (PedirDeNuevo /\ pendiente.pid = p), RespuestaCreate(p, c),
         omitidos' = omitidos
  PROVE  IAlDia'
  <1>1. \A q \in Procesos : FormaDe(q) /\ ~Falta(q)
    BY SinFalta DEF ITablas
  <1>2. estado' = estado \/ estado' = [estado EXCEPT ![p] = "exit"]
    BY DEF RespuestaCreate
  <1>3. /\ \A q \in Procesos : q # p => estado'[q] = estado[q]
        /\ estado'[p] = "exec" \/ estado'[p] = "exit"
    BY <1>2 DEF IContexto, Formas
  <1>4. CASE /\ \A q \in Procesos : Conservado(q)
             /\ listaSegmentos' = listaSegmentos
    <2>1. \A q \in Procesos : Mismos(listaSegmentos', listaSegmentos, q)
      BY <1>4 DEF Mismos
    <2> QED BY <1>1, <1>3, <1>4, <2>1, BienQueda DEF IAlDia
  <1>5. CASE /\ \A q \in Procesos : q # p => Conservado(q)
             /\ \E s : /\ Creado(p, s)
                       /\ ContextoDe(p)'.tabla = Append(ContextoDe(p).tabla, s)
    <2>1. PICK l, s : /\ l = listaSegmentos /\ Creado(p, s)
                      /\ ContextoDe(p)'.tabla = Append(ContextoDe(p).tabla, s)
      BY <1>5
    <2>2. l \in Seq(EsSegmento) /\ s \in EsSegmento
      BY <2>1 DEF IMemoria, InvDe, TipoDe, Creado
    <2>3. s.pid = p /\ listaSegmentos' = Append(l, s) /\ respuesta' = "BASE"
      BY <2>1 DEF Creado
    <2>4. estado' = estado
      BY <2>3 DEF RespuestaCreate
    <2>5. \A q : q # p => Mismos(listaSegmentos', l, q)
      BY <2>2, <2>3, NumerosConOtro
    <2>6. \A q \in Procesos : q # p => TablaBien(q)'
      BY <1>1, <1>5, <2>1, <2>4, <2>5, BienQueda DEF IAlDia
    <2>7. ASSUME p \notin omitidos
          PROVE  Iguales(p)'
      <3>1. PICK t : t = ContextoDe(p).tabla
        OBVIOUS
      <3>2. t \in Seq(EsSegmento)
        BY <1>1, <3>1 DEF FormaDe, Forma
      <3>3. Range(Append(t, s)) = Range(t) \union {s}
        BY <2>2, <3>2, RangoConOtro
      <3>4. Range(t) = Entradas(l, p) \union {segmento_0}
        BY <1>1, <2>1, <2>7, <3>1 DEF IAlDia, TablaBien, Activo, Iguales
      <3>5. Entradas(Append(l, s), p) = Entradas(l, p) \union {s}
        BY <2>2, <2>3, NumerosConOtro
      <3>6. Range(ContextoDe(p)'.tabla) = Entradas(listaSegmentos', p) \union {segmento_0}
        BY <2>1, <2>3, <3>1, <3>3, <3>4, <3>5
      <3> QED BY <3>6 DEF Iguales
    <2>8. TablaBien(p)'
      BY <2>4, <2>7 DEF TablaBien, Activo
    <2> QED BY <2>6, <2>8 DEF IAlDia
  <1> QED BY <1>1, <1>4, <1>5, TablaRespuesta

LEMMA BienBorrar ==
  ASSUME IContexto, IMemoria, IMemoria', ITablas, IAlDia, NEW p \in Procesos, NEW s,
         BorrarSegmento(p, s)
  PROVE  IAlDia'
  <1>1. \A q \in Procesos : FormaDe(q)
    BY DEF ITablas
  <1>2. /\ Busca(p, "DELETE_SEGMENT") /\ estado' = estado
        /\ omitidos' = omitidos \ {p}
    BY DEF BorrarSegmento, devolver_ce_a_cpu
  <1>3. estado[p] = "exec" /\ pc_general = "espera_cym"
    BY <1>2, BuscaEs
  <1>4. /\ \A q \in Procesos : q # p => Conservado(q)
        /\ \A q : q # p => Mismos(listaSegmentos', listaSegmentos, q)
        /\ Range(ContextoDe(p)'.tabla) = Entradas(listaSegmentos', p) \union {segmento_0}
    BY <1>1, TablaBorrada
  <1>5. \A q \in Procesos : q # p => TablaBien(q)'
    BY <1>2, <1>3, <1>4, SinFalta, BienQueda DEF IAlDia
  <1>6. TablaBien(p)'
    BY <1>2, <1>3, <1>4 DEF TablaBien, Iguales, Activo
  <1> QED BY <1>5, <1>6 DEF IAlDia

\* Compactar, and the rewriting of the tables.
LEMMA BienCompactar ==
  ASSUME IMemoria, IAlDia, \A q \in Procesos : Conservado(q), Compactar
  PROVE  IAlDia'
  <1>1. PICK l : l = listaSegmentos
    OBVIOUS
  <1>2. PICK m \in EnOrdenDeBase(l) : listaSegmentos' = Rebasados(m)
    BY <1>1 DEF Compactar, EMPEZA_A_COMPACTAR, compactar
  <1>3. l \in Seq(EsSegmento)
    BY <1>1 DEF IMemoria, InvDe, TipoDe
  <1>4. estado' = estado /\ pc_general' = "copia_ready" /\ omitidos' = omitidos
    BY DEF Compactar, copiados
  <1>5. ASSUME NEW q \in Procesos
        PROVE  TablaBien(q)'
    <2>1. Numeros(listaSegmentos', q) = Numeros(l, q)
      BY <1>2, <1>3, NumerosRebasados
    <2>2. CASE estado[q] = "new"
      <3>1. Numeros(l, q) = {} /\ Iguales(q)
        BY <1>1, <2>2 DEF IAlDia, TablaBien
      <3>2. Mismos(listaSegmentos', listaSegmentos, q)
        BY <1>1, <2>1, <3>1, SinEntradas DEF Mismos
      <3>3. Iguales(q)'
        BY <3>1, <3>2, IgualesQuedan
      <3> QED BY <1>4, <2>1, <2>2, <3>1, <3>3 DEF TablaBien, Activo
    <2>3. CASE estado[q] # "new"
      <3>1. Falta(q)'
        BY <1>4 DEF Falta
      <3>2. estado[q] \in {"sin_conexion", "new", "exit"} \union Activo
        BY DEF IAlDia, TablaBien
      <3> QED BY <1>4, <2>3, <3>1, <3>2 DEF TablaBien
    <2> QED BY <2>2, <2>3
  <1> QED BY <1>5 DEF IAlDia

LEMMA BienActualizar ==
  ASSUME IContexto, IMemoria, ITablas, IRaiz, IAlDia, ActualizarTablas
  PROVE  IAlDia'
  <1>1. /\ \A q \in Procesos \ LISTA_PCBS_EN_RAM : Conservado(q)
        /\ \A q \in Procesos \intersect LISTA_PCBS_EN_RAM :
              Range(ContextoDe(q)'.tabla)
                = Entradas(listaSegmentos, q) \union {Head(listaSegmentos)}
    BY TablasActualizadas
  <1>2. /\ pc_general = "actualiza" /\ listaSegmentos' = listaSegmentos /\ estado' = estado
        /\ omitidos' = omitidos \ LISTA_PCBS_EN_RAM
    BY DEF ActualizarTablas, varsM
  <1>3. Head(listaSegmentos) = segmento_0
    BY DEF IRaiz, Raiz
  <1>4. ASSUME NEW q \in Procesos
        PROVE  TablaBien(q)'
    <2>1. CASE q \in LISTA_PCBS_EN_RAM
      <3>1. Iguales(q)'
        BY <1>1, <1>2, <1>3, <2>1 DEF Iguales
      <3> QED BY <1>2, <3>1 DEF IAlDia, TablaBien
    <2>2. CASE q \notin LISTA_PCBS_EN_RAM
      <3>1. ~Falta(q)
        BY <1>2, <2>2 DEF Falta
      <3>2. Mismos(listaSegmentos', listaSegmentos, q)
        BY <1>2 DEF Mismos
      <3> QED BY <1>1, <1>2, <2>2, <3>1, <3>2, BienQueda DEF IAlDia
    <2> QED BY <2>1, <2>2
  <1> QED BY <1>4 DEF IAlDia

\* A step of p outside the compaction.
LEMMA BienCorriente ==
  ASSUME IContexto, IAlDia, \A q \in Procesos : Conservado(q), \A q \in Procesos : ~Falta(q),
         listaSegmentos' = listaSegmentos, omitidos' = omitidos, NEW p \in Procesos,
         \/ estado' = estado
         \/ \E x \in Activo \union {"exit"} :
              estado' = [estado EXCEPT ![p] = x] /\ (x = "exit" \/ estado[p] \in Activo)
  PROVE  IAlDia'
  <1>1. estado = [q \in Procesos |-> estado[q]]
    BY DEF IContexto, Formas
  <1>2. \A q \in Procesos : \/ estado'[q] = estado[q]
                            \/ estado'[q] = "exit"
                            \/ estado[q] \in Activo /\ estado'[q] \in Activo
    <2>1. CASE estado' = estado
      BY <2>1
    <2>2. ASSUME NEW x \in Activo \union {"exit"}, estado' = [estado EXCEPT ![p] = x],
                 x = "exit" \/ estado[p] \in Activo
          PROVE  \A q \in Procesos : \/ estado'[q] = estado[q]
                                     \/ estado'[q] = "exit"
                                     \/ estado[q] \in Activo /\ estado'[q] \in Activo
      <3>1. estado'[p] = x /\ \A q \in Procesos : q # p => estado'[q] = estado[q]
        BY <1>1, <2>2
      <3> QED BY <2>2, <3>1 DEF Activo
    <2> QED BY <2>1, <2>2
  <1>3. \A q \in Procesos : Mismos(listaSegmentos', listaSegmentos, q)
    BY DEF Mismos
  <1>4. \A q \in Procesos : TablaBien(q)
    BY DEF IAlDia
  <1>5. \A q \in Procesos : TablaBien(q)'
    BY <1>2, <1>3, <1>4, BienQueda
  <1> QED BY <1>5 DEF IAlDia

LEMMA BienInstruccion ==
  ASSUME IContexto, IMemoria, IMemoria', ITablas, IAlDia, NEW p \in Procesos,
         InstruccionDeCPU(p) \/ InstruccionDeKernel(p)
  PROVE  IAlDia'
  <1>1. \A q \in Procesos : FormaDe(q)
    BY DEF ITablas
  <1>2. /\ estado[p] = "exec" /\ pc_general = "espera_cym"
        /\ \A q \in Procesos : ~Falta(q)
    <2>1. \E i : Busca(p, i)
      BY DEF InstruccionDeCPU, InstruccionDeKernel, SET, MOV_IN, MOV_OUT, SEG_FAULT, YIELD,
             IO, WAIT, SIGNAL, CrearSegmento, BorrarSegmento, EXIT, Recibe
    <2> QED BY <2>1, BuscaEs, SinFalta
  <1>3. CASE InstruccionDeCPU(p)
    <2>1. \A q \in Procesos : Conservado(q)
      BY <1>1, <1>3, PasosQueConservan
    <2>2. listaSegmentos' = listaSegmentos /\ omitidos' = omitidos
      BY <1>3 DEF InstruccionDeCPU, SET, MOV_IN, MOV_OUT, SEG_FAULT, terminar_consola, varsM,
                  kernelC, copiados
    <2>3. estado' = estado \/ estado' = [estado EXCEPT ![p] = "exit"]
      BY <1>3 DEF InstruccionDeCPU, SET, MOV_IN, MOV_OUT, SEG_FAULT, terminar_consola, kernelC
    <2> QED BY <1>2, <2>1, <2>2, <2>3, BienCorriente
  <1>4. CASE YIELD(p) \/ WAIT(p) \/ SIGNAL(p) \/ EXIT(p) \/ (\E t \in Tiempos : IO(p, t))
    <2>1. \A q \in Procesos : Conservado(q)
      BY <1>1, <1>4, PasosQueConservan
    <2>2. listaSegmentos' = listaSegmentos /\ omitidos' = omitidos
      BY <1>4 DEF YIELD, WAIT, IO, SIGNAL, EXIT, terminar_consola, Deja, varsM, copiados
    <2>3. \/ estado' = estado
          \/ \E x \in Activo \union {"exit"} : estado' = [estado EXCEPT ![p] = x]
      BY <1>4 DEF YIELD, WAIT, IO, SIGNAL, EXIT, terminar_consola, Deja, devolver_ce_a_cpu,
                  Activo
    <2> QED BY <1>2, <2>1, <2>2, <2>3, BienCorriente DEF Activo
  <1>5. CASE CrearSegmento(p)
    <2>1. /\ Busca(p, "CREATE_SEGMENT") /\ PedirSegmento(p)
          /\ RespuestaCreate(p, ContextoAvanzado) /\ omitidos' = omitidos
      BY <1>5 DEF CrearSegmento, Recibe, copiados
    <2>2. cpu.proc = p /\ Conserva(ContextoDe(p), ContextoAvanzado)
      BY <1>1, <2>1, TablaAvanza
    <2> QED BY <1>2, <2>1, <2>2, BienRespuesta
  <1>6. ASSUME NEW s, BorrarSegmento(p, s)
        PROVE  IAlDia'
    BY <1>6, BienBorrar
  <1> QED BY <1>3, <1>4, <1>5, <1>6 DEF InstruccionDeKernel

\* The copy of the lists takes every process whose table is still to be rewritten,
\* or it is omitted.
LEMMA BienCopiar ==
  ASSUME IContexto, ITablas, IAlDia, CopiarReady \/ CopiarBlocked
  PROVE  IAlDia'
  <1>1. /\ UNCHANGED <<pcb, cpu, listaSegmentos, estado>>
        /\ \/ /\ pc_general' = "copia_blocked"
              /\ LISTA_PCBS_EN_RAM' = EnLista({"ready"})
              /\ omitidos' = omitidos \union EnLista({"blocked", "ninguna", "espera"})
           \/ /\ pc_general = "copia_blocked" /\ pc_general' = "actualiza"
              /\ LISTA_PCBS_EN_RAM' = LISTA_PCBS_EN_RAM \union EnLista({"exec", "blocked"})
              /\ omitidos' = omitidos \ EnLista({"exec", "blocked"})
    BY DEF CopiarReady, CopiarBlocked, varsM
  <1>2. ASSUME NEW q \in Procesos
        PROVE  TablaBien(q)'
    <2>1. Conservado(q)
      BY <1>1, LosDemas DEF ITablas
    <2>2. Mismos(listaSegmentos', listaSegmentos, q)
      BY <1>1 DEF Mismos
    <2>3. Iguales(q) => Iguales(q)'
      BY <2>1, <2>2, IgualesQuedan
    <2>4. Numeros(listaSegmentos', q) = Numeros(listaSegmentos, q)
      BY <1>1
    <2>5. estado[q] \in Activo /\ q \notin omitidos' => Iguales(q)' \/ Falta(q)'
      <3>1. CASE pc_general' = "copia_blocked"
        BY <1>1, <2>3, <3>1 DEF IAlDia, TablaBien, Falta, EnLista, Activo
      <3>2. CASE pc_general' = "actualiza"
        BY <1>1, <2>3, <3>2 DEF IAlDia, TablaBien, Falta, EnLista, Activo
      <3> QED BY <1>1, <3>1, <3>2
    <2> QED BY <1>1, <2>3, <2>4, <2>5 DEF IAlDia, TablaBien
  <1> QED BY <1>2 DEF IAlDia

LEMMA PasoAlDia ==
  ASSUME IContexto, IMemoria, IMemoria', UnoEnExec, ITablas, IRaiz, IAlDia, [NextC]_varsC
  PROVE  IAlDia'
  <1>1. \A q \in Procesos : FormaDe(q)
    BY DEF ITablas
  <1>2. ASSUME NEW p \in Procesos, pasar_a_ready(p) \/ SalirDeBlocked(p) \/ FinDeSleep(p)
        PROVE  IAlDia'
    <2>1. PICK x \in Activo :
            /\ estado' = [estado EXCEPT ![p] = x]
            /\ estado[p] = "new" \/ (estado[p] \in Activo /\ estado[p] # "exec")
            /\ UNCHANGED <<pcb, cpu, listaSegmentos, pc_general, LISTA_PCBS_EN_RAM, omitidos>>
      BY <1>2 DEF pasar_a_ready, SalirDeBlocked, FinDeSleep, varsM, copiados, Activo
    <2>2. estado'[p] = x /\ \A q \in Procesos : q # p => estado'[q] = estado[q]
      BY <2>1 DEF IContexto, Formas
    <2>3. ASSUME NEW q \in Procesos
          PROVE  TablaBien(q)'
      <3>1. Conservado(q)
        BY <1>1, <2>1, LosDemas
      <3>2. Mismos(listaSegmentos', listaSegmentos, q)
        BY <2>1 DEF Mismos
      <3>3. q # p \/ estado[p] # "exec" => (Falta(q) => Falta(q)')
        BY <2>1, <2>2 DEF Falta
      <3>4. CASE q = p
        BY <2>1, <2>2, <3>1, <3>2, <3>3, <3>4, BienQueda DEF IAlDia, Activo
      <3>5. CASE q # p
        BY <2>1, <2>2, <3>1, <3>2, <3>3, <3>5, BienQueda DEF IAlDia
      <3> QED BY <3>4, <3>5
    <2> QED BY <2>3 DEF IAlDia
  <1>3. ASSUME UNCHANGED <<estado, pcb, cpu, listaSegmentos, pc_general, LISTA_PCBS_EN_RAM,
                           omitidos>>
        PROVE  IAlDia'
    BY <1>3 DEF IAlDia, TablaBien, Iguales, ContextoDe, Falta
  <1>4. ASSUME NEW p \in Procesos, Ejecutar(p)
        PROVE  IAlDia'
    <2>1. \A q \in Procesos : Conservado(q)
      BY <1>1, <1>4, PasosQueConservan
    <2>2. /\ pc_general = "espera_pcb" /\ estado[p] = "ready"
          /\ estado' = [estado EXCEPT ![p] = "exec"] /\ listaSegmentos' = listaSegmentos
          /\ omitidos' = omitidos
      BY <1>4 DEF Ejecutar, varsM, copiados
    <2> QED BY <2>1, <2>2, SinFalta, BienCorriente DEF Activo
  <1>5. ASSUME NEW p \in Procesos, Finalizar(p)
        PROVE  IAlDia'
    <2>1. \A q \in Procesos : Conservado(q)
      BY <1>1, <1>5, PasosQueConservan
    <2>2. /\ pc_general = "finaliza" /\ estado' = estado
          /\ listaSegmentos' = listaSegmentos /\ omitidos' = omitidos
      BY <1>5 DEF Finalizar, FinalizarProceso, copiados
    <2> QED BY <2>1, <2>2, SinFalta, BienCorriente
  <1>6. CASE Compactar
    <2>1. pendiente # Nada
      BY <1>6 DEF Compactar, EMPEZA_A_COMPACTAR
    <2>2. pendiente.pid \in Procesos
      BY <2>1 DEF UnoEnExec
    <2>3. \A q \in Procesos : Conservado(q)
      BY <1>1, <1>6, <2>2, PasosQueConservan
    <2> QED BY <1>6, <2>3, BienCompactar
  <1>7. ASSUME NEW p \in Procesos, PedirOtraVez(p)
        PROVE  IAlDia'
    <2>1. /\ pc_general = "pide_de_nuevo" /\ estado[p] = "exec" /\ PedirDeNuevo
          /\ RespuestaCreate(p, pcb[p]) /\ omitidos' = omitidos
      BY <1>7 DEF PedirOtraVez, copiados
    <2>2. cpu.proc \notin Procesos /\ pendiente.pid = p
      BY <2>1 DEF IContexto, EnUnLugar, UnoEnExec, PedirDeNuevo
    <2>3. Conserva(ContextoDe(p), pcb[p])
      BY <1>1, <2>2 DEF ContextoDe, FormaDe, Forma, Conserva
    <2> QED BY <2>1, <2>2, <2>3, BienRespuesta
  <1>8. CASE UNCHANGED varsC
    <2>1. UNCHANGED <<estado, pcb, cpu, listaSegmentos, pc_general, LISTA_PCBS_EN_RAM,
                      omitidos>>
      BY <1>8 DEF varsC, kernelC, varsM, copiados
    <2> QED BY <1>3, <2>1
  <1>9. ASSUME NEW p \in Procesos, LeerTiempo(p)
         PROVE  IAlDia'
    <2>1. UNCHANGED <<estado, pcb, cpu, listaSegmentos, pc_general, LISTA_PCBS_EN_RAM,
                      omitidos>>
      BY <1>9 DEF LeerTiempo, varsM, copiados
    <2> QED BY <1>3, <2>1
  <1>10. ASSUME NEW p \in Procesos, crear_pcb(p)
         PROVE  IAlDia'
    BY <1>10, BienCrear
  <1>11. ASSUME NEW p \in Procesos, InstruccionDeCPU(p) \/ InstruccionDeKernel(p)
         PROVE  IAlDia'
    BY <1>11, BienInstruccion
  <1>12. CASE CopiarReady \/ CopiarBlocked
    BY <1>12, BienCopiar
  <1>13. CASE ActualizarTablas
    BY <1>13, BienActualizar
  <1> QED BY <1>2, <1>4, <1>5, <1>6, <1>7, <1>8, <1>9, <1>10, <1>11, <1>12, <1>13
          DEF NextC, Compactacion

LEMMA InicioAlDia == InitC => IRaiz /\ IAlDia
  <1> SUFFICES ASSUME InitC
               PROVE  IRaiz /\ IAlDia
    OBVIOUS
  <1>1. /\ listaSegmentos = <<segmento_0>>
        /\ listaHuecos = <<Hueco(1, TamSegmento0, TamMemoria - TamSegmento0)>>
        /\ \A q \in Procesos : estado[q] = "sin_conexion"
    BY DEF InitC, InitM
  <1>2. Raiz(<<segmento_0>>)
    BY DEF Raiz
  <1>3. Hueco(1, TamSegmento0, TamMemoria - TamSegmento0) \in HuecoAlto
    <2>1. /\ TamSegmento0 \in Nat /\ TamSegmento0 >= 1
          /\ TamMemoria - TamSegmento0 \in Nat /\ 1 \in Nat
      BY MemoriaAssumption
    <2> QED BY <2>1, AltoEs
  <1>4. listaHuecos \in Seq(HuecoAlto)
    BY <1>1, <1>3
  <1>5. IAlDia
    BY <1>1 DEF IAlDia, TablaBien, Activo
  <1> QED BY <1>1, <1>2, <1>4, <1>5 DEF IRaiz

\* While no segment instruction is under way, the table of an admitted process has
\* the segments memory keeps for it, and segmento_0, compactions included, whatever
\* the scripts do (actualizar_lista_segmentos, agregar_pcbs_a_lista_global), unless
\* the copy of the lists left it out and nothing has made its table again since.
\* And segmento_0 is the first of the list that memory sends: no segment is put below
\* it, because the segments in use do not overlap or because no freed memory that
\* is read as a hole has its base.
THEOREM LasTablasEstanAlDia ==
  ASSUME MaxSegmentos <= 2 \/ BasuraAlta
  PROVE  SpecC => []TablasAlDia
  <1> DEFINE I == IContexto /\ IMemoria /\ UnoEnExec /\ ITablas /\ IRaiz /\ IAlDia
  <1>1. InitC => I
    BY InicioIContexto, InicioIMemoria, InicioTablas, InicioAlDia
  <1>2. I /\ [NextC]_varsC => I'
    <2> SUFFICES ASSUME I, [NextC]_varsC
                 PROVE  I'
      OBVIOUS
    <2>1. IContexto' /\ IMemoria'
      BY PasoIContexto, PasoIMemoria
    <2>2. UnoEnExec' /\ ITablas'
      BY <2>1, PasoUno, PasoTablas
    <2>3. IRaiz'
      <3>1. NextM \/ UNCHANGED varsM
        BY PasoDeMemoria DEF varsC
      <3>2. CASE NextM
        BY <2>1, <3>2, PasoRaiz
      <3>3. CASE UNCHANGED varsM
        BY <3>3 DEF IRaiz, varsM
      <3> QED BY <3>1, <3>2, <3>3
    <2>4. IAlDia'
      BY <2>1, PasoAlDia
    <2> QED BY <2>1, <2>2, <2>3, <2>4
  <1>3. I => TablasAlDia
    <2> SUFFICES ASSUME I, Corriente, NEW p \in Admitidos \ omitidos
                 PROVE  TablaAlDia(p)
      BY DEF TablasAlDia
    <2>1. p \in Procesos /\ p \notin omitidos /\ estado[p] \in Activo /\ ~Falta(p)
      BY SinFalta DEF IAlDia, TablaBien, Corriente, EnLista, Admitidos
    <2>2. Iguales(p)
      BY <2>1 DEF IAlDia, TablaBien
    <2>3. PICK l : l = listaSegmentos
      OBVIOUS
    <2>4. PICK V, M : l \in Seq(EsSegmento) /\ IdsDe(l, V, M)
      BY <2>3 DEF IMemoria, InvDe, TipoDe
    <2>5. Range(Hallados(l, p)) = Entradas(l, p)
      BY <2>4, HalladosSon
    <2> QED BY <2>2, <2>3, <2>5 DEF Iguales, TablaAlDia, buscarSegmentoPorPID
  <1> QED BY <1>1, <1>2, <1>3, PTL DEF SpecC
=============================================================================

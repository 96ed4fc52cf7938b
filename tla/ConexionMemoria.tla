--------------------------- MODULE ConexionMemoria ---------------------------
(***************************************************************************)
(* The one socket between the kernel and memory, from the handshake on.    *)
(* hilo_general asks over it for segments, deletions, compactions and ends *)
(* of processes; every crear_pcb thread, one per console, asks over the    *)
(* same socket for the segment 0 of its process.  No mutex orders them.    *)
(*                                                                         *)
(* A request is sent with one call; an answer is received with up to three *)
(* (shared/src/stream.c): its header, its size and, when it has one, its   *)
(* payload.  A thread that expects a header and finds the middle of an     *)
(* answer takes other bytes for it: the stream is lost for good.           *)
(***************************************************************************)
EXTENDS Naturals, Sequences, FiniteSets

CONSTANTS
  Consolas,        \* the crear_pcb threads, one per console
  General,         \* hilo_general
  EsperanAlKernel, \* the consoles are started once the kernel is connected
  MaxSegmentos     \* bound: CREATE_SEGMENT and DELETE_SEGMENT instructions

ASSUME ConexionMemoriaAssumption ==
  /\ General \notin Consolas
  /\ IsFiniteSet(Consolas)
  /\ EsperanAlKernel \in BOOLEAN
  /\ MaxSegmentos \in Nat

VARIABLES
  conexion_con_memoria,  \* the kernel's global holds the socket
  kernel_aceptado,       \* memory has taken the handshake
  compactada,            \* memory has compacted since the last creation
  a_memoria,             \* requests sent and not yet served
  de_memoria,            \* answers sent and not yet read to the end
  leido,                 \* what has been read of the first answer
  pc,                    \* where each thread stands
  pide,                  \* the request each thread has under way
  recibio,               \* the header each thread has read for it
  en_ram,                \* processes created and not yet ended
  ejecuta,               \* the process whose instruction hilo_general attends
  razon,                 \* what each console has been told of the end
  segmentos,             \* segment instructions executed (bound)
  estado,                \* whether the two programs go on
  perdidos,              \* history: threads whose request went nowhere
  temprano,              \* history: a crear_pcb thread asked before the
                         \* handshake was over
  solapado               \* history: an exchange began during another

procesos == <<en_ram, ejecuta, razon, segmentos>>
kernel == <<conexion_con_memoria, pc, pide, recibio, procesos>>
memoria == <<kernel_aceptado, compactada>>
socket == <<a_memoria, de_memoria, leido>>
historia == <<perdidos, temprano, solapado>>
vars == <<kernel, memoria, socket, estado, historia>>

Hilos == Consolas \cup {General}

Pedidos == {"HANDSHAKE_kernel", "INICIAR_PROCESO", "CREATE_SEGMENT",
            "DELETE_SEGMENT", "EMPEZA_A_COMPACTAR", "FINALIZAR_PROCESO"}

ConDatos == {"TAMANIO", "BASE", "LISTA"}

Vacias == {"HANDSHAKE_ok_continue", "SIN_MEMORIA", "NECESITO_COMPACTAR",
           "PROCESO_BORRADO"}

Nada == "nada"

\* How the connection ends: a thread took other bytes for a header, the kernel
\* exited on an answer it did not expect, or memory on a request.  (The kernel
\* also exits, "sin_guion", over a console: see module Consolas.)
Fallas == {"desincronizado", "kernel_caido", "memoria_caida"}

\* hilo_general before the end of its handshake with memory.
Arrancando ==
  pc[General] \in {"sin_conexion", "conectado"} \/ pide[General] = "HANDSHAKE_kernel"

\* Where a thread is between its request and the end of its answer.
EnIntercambio == {"header", "tam", "datos", "vacio", "lleno"}

\* The headers that answer each request.
RespuestasA(pedido) ==
  CASE pedido = "HANDSHAKE_kernel"  -> {"HANDSHAKE_ok_continue"}
    [] pedido = "INICIAR_PROCESO"   -> {"TAMANIO"}
    [] pedido = "CREATE_SEGMENT"    -> {"BASE", "SIN_MEMORIA", "NECESITO_COMPACTAR"}
    [] pedido = "DELETE_SEGMENT"    -> {"LISTA"}
    [] pedido = "EMPEZA_A_COMPACTAR" -> {"LISTA"}
    [] pedido = "FINALIZAR_PROCESO" -> {"PROCESO_BORRADO"}

Init ==
  /\ conexion_con_memoria = FALSE
  /\ kernel_aceptado = FALSE
  /\ compactada = FALSE
  /\ a_memoria = <<>>
  /\ de_memoria = <<>>
  /\ leido = Nada
  /\ pc = [t \in Hilos |-> IF t = General THEN "sin_conexion" ELSE "sin_consola"]
  /\ pide = [t \in Hilos |-> Nada]
  /\ recibio = [t \in Hilos |-> Nada]
  /\ en_ram = {}
  /\ ejecuta = Nada
  /\ razon = [t \in Consolas |-> Nada]
  /\ segmentos = 0
  /\ estado = "bien"
  /\ perdidos = {}
  /\ temprano = FALSE
  /\ solapado = FALSE

Esperan == {t \in Hilos : pc[t] \in EnIntercambio}

\* stream_send_buffer: one send.  While conexion_con_memoria is 0 it fails and
\* nobody looks at the result.
Enviar(t, pedido) ==
  /\ pide' = [pide EXCEPT ![t] = pedido]
  /\ pc' = [pc EXCEPT ![t] = "header"]
  /\ solapado' = (solapado \/ Esperan \ {t} # {})
  /\ temprano' = (temprano \/ (t # General /\ Arrancando))
  /\ IF conexion_con_memoria
       THEN a_memoria' = Append(a_memoria, pedido) /\ UNCHANGED perdidos
       ELSE perdidos' = perdidos \cup {t} /\ UNCHANGED a_memoria

\* The exchange of t is over and t goes to pc donde.
Terminar(t, donde) ==
  /\ pc' = [pc EXCEPT ![t] = donde]
  /\ pide' = [pide EXCEPT ![t] = Nada]
  /\ recibio' = [recibio EXCEPT ![t] = Nada]

-----------------------------------------------------------------------------
(* Memory: recibir_conexion and hilo_kernel_m.                             *)

\* An answer is sent with one call.
Responder(codigo) == de_memoria' = Append(de_memoria, codigo)

\* The first message has to be the handshake: any other ends memory.
AceptarKernel ==
  /\ ~kernel_aceptado
  /\ a_memoria # <<>>
  /\ a_memoria' = Tail(a_memoria)
  /\ IF Head(a_memoria) = "HANDSHAKE_kernel"
       THEN /\ kernel_aceptado' = TRUE
            /\ Responder("HANDSHAKE_ok_continue")
            /\ UNCHANGED estado
       ELSE /\ estado' = "memoria_caida"
            /\ UNCHANGED <<kernel_aceptado, de_memoria>>
  /\ UNCHANGED <<kernel, compactada, leido, historia>>

\* mandarPrBr with both of its sends commented out.
Atender_SinBorrado ==
  /\ kernel_aceptado
  /\ a_memoria # <<>>
  /\ a_memoria' = Tail(a_memoria)
  /\ LET pedido == Head(a_memoria) IN
       /\ compactada' = ((compactada \/ pedido = "EMPEZA_A_COMPACTAR")
                       /\ pedido # "CREATE_SEGMENT")
       /\ IF pedido = "FINALIZAR_PROCESO"
            THEN UNCHANGED de_memoria
            ELSE \E codigo \in RespuestasA(pedido) :
                    /\ compactada => codigo # "NECESITO_COMPACTAR"
                    /\ Responder(codigo)
  /\ UNCHANGED <<kernel, kernel_aceptado, leido, estado, historia>>

\* One turn of the loop.  The creation asked again after a compaction finds one
\* hole at most: it never asks for another compaction, but what processes that
\* ended left behind may leave it without room.
Atender ==
  /\ kernel_aceptado
  /\ a_memoria # <<>>
  /\ a_memoria' = Tail(a_memoria)
  /\ LET pedido == Head(a_memoria) IN
       /\ compactada' = ((compactada \/ pedido = "EMPEZA_A_COMPACTAR")
                       /\ pedido # "CREATE_SEGMENT")
       /\ \E codigo \in RespuestasA(pedido) :
             /\ compactada => codigo # "NECESITO_COMPACTAR"
             /\ Responder(codigo)
  /\ UNCHANGED <<kernel, kernel_aceptado, leido, estado, historia>>

-----------------------------------------------------------------------------
(* Receiving (shared/src/stream.c), for every thread of the kernel.        *)

\* What has been read of an answer when it is the turn of each call.
LeidoAntes == [header |-> Nada, tam |-> "header", datos |-> "tam"]

\* The call takes the last bytes of an answer.
AlFinal(llamada, codigo) ==
  llamada = "datos" \/ (llamada = "tam" /\ codigo \in Vacias)

\* The size of an empty answer that is not received.
Sigue_SoloElHeader(llamada, codigo) ==
  CASE llamada = "header" -> IF codigo \in Vacias THEN "vacio" ELSE "tam"
    [] llamada = "tam"    -> "datos"
    [] llamada = "datos"  -> "lleno"

\* The next call: a payload is received only when the size is not 0.
Sigue(llamada, codigo) ==
  CASE llamada = "header" -> "tam"
    [] llamada = "tam"    -> IF codigo \in Vacias THEN "vacio" ELSE "datos"
    [] llamada = "datos"  -> "lleno"

\* recv takes the bytes that come next, whoever they are for.
Recibir(t) ==
  /\ pc[t] \in DOMAIN LeidoAntes
  /\ conexion_con_memoria
  /\ de_memoria # <<>>
  /\ LET codigo == Head(de_memoria) IN
        IF leido # LeidoAntes[pc[t]]
          THEN /\ estado' = "desincronizado"
               /\ UNCHANGED <<pc, recibio, leido, de_memoria>>
          ELSE /\ pc' = [pc EXCEPT ![t] = Sigue(@, codigo)]
               /\ recibio' = IF pc[t] = "header"
                               THEN [recibio EXCEPT ![t] = codigo] ELSE recibio
               /\ IF AlFinal(pc[t], codigo)
                    THEN leido' = Nada /\ de_memoria' = Tail(de_memoria)
                    ELSE leido' = pc[t] /\ UNCHANGED de_memoria
               /\ UNCHANGED estado
  /\ UNCHANGED <<conexion_con_memoria, pide, procesos, memoria,
                 a_memoria, historia>>

\* While conexion_con_memoria is 0, recv fails: the header is whatever the
\* stack held, and the size stays 0.
RecibirSinSocket(t) ==
  /\ pc[t] \in {"header", "tam"}
  /\ ~conexion_con_memoria
  /\ pc' = [pc EXCEPT ![t] = IF @ = "header" THEN "tam" ELSE "vacio"]
  /\ recibio' = [recibio EXCEPT ![t] = "basura"]
  /\ perdidos' = perdidos \ {t}
  /\ UNCHANGED <<conexion_con_memoria, pide, procesos, memoria, socket,
                 estado, temprano, solapado>>

-----------------------------------------------------------------------------
(* hilo_consola.c: crear_pcb.                                              *)

\* A console has sent its script: pedir_a_memoria_el_segmento0.  The thread that
\* listens to consoles starts with the kernel and waits for no connection.
PedirSegmento0(t) ==
  /\ t \in Consolas
  /\ pc[t] = "sin_consola"
  /\ ~(EsperanAlKernel /\ Arrancando)
  /\ Enviar(t, "INICIAR_PROCESO")
  /\ UNCHANGED <<conexion_con_memoria, recibio, procesos, memoria, de_memoria,
                 leido, estado>>

\* recibir_el_segmento0_de_memoria: another header is only logged, and
\* unpacking an empty buffer ends the whole kernel.
RecibirSegmento0(t) ==
  /\ t \in Consolas
  /\ \/ /\ pc[t] = "lleno"
        /\ Terminar(t, "creado")
        /\ en_ram' = en_ram \cup {t}
        /\ UNCHANGED estado
     \/ /\ pc[t] = "vacio"
        /\ estado' = "kernel_caido"
        /\ UNCHANGED <<pc, pide, recibio, en_ram>>
  /\ UNCHANGED <<conexion_con_memoria, ejecuta, razon, segmentos, memoria,
                 socket, historia>>

-----------------------------------------------------------------------------
(* hilo_general.c.                                                         *)

\* conectarse_con_memoria: crear_conexion.
Conectar ==
  /\ pc[General] = "sin_conexion"
  /\ conexion_con_memoria' = TRUE
  /\ pc' = [pc EXCEPT ![General] = "conectado"]
  /\ UNCHANGED <<pide, recibio, procesos, memoria, socket, estado, historia>>

\* conectarse_con_memoria: the handshake is sent.
Saludar ==
  /\ pc[General] = "conectado"
  /\ Enviar(General, "HANDSHAKE_kernel")
  /\ UNCHANGED <<conexion_con_memoria, recibio, procesos, memoria, de_memoria,
                 leido, estado>>

\* CREATE_SEGMENT or DELETE_SEGMENT of a process.
PedirSegmento(p) ==
  /\ pc[General] = "libre"
  /\ p \in en_ram
  /\ segmentos < MaxSegmentos
  /\ segmentos' = segmentos + 1
  /\ ejecuta' = p
  /\ \E pedido \in {"CREATE_SEGMENT", "DELETE_SEGMENT"} : Enviar(General, pedido)
  /\ UNCHANGED <<conexion_con_memoria, recibio, en_ram, razon, memoria,
                 de_memoria, leido, estado>>

\* terminar_consola: the console is told the reason, and memory to forget the
\* process.
terminar_consola(p, motivo) ==
  /\ razon' = [razon EXCEPT ![p] = motivo]
  /\ Enviar(General, "FINALIZAR_PROCESO")

\* EXIT, or a process that ends for another reason of its own.
EXIT(p) ==
  /\ pc[General] = "libre"
  /\ p \in en_ram
  /\ ejecuta' = p
  /\ terminar_consola(p, "SUCCESS")
  /\ UNCHANGED <<conexion_con_memoria, recibio, en_ram, segmentos, memoria,
                 de_memoria, leido, estado>>

\* What recibir_respuesta_create_segment asks for next.
Siguiente(pedido, codigo) ==
  CASE pedido = "CREATE_SEGMENT" /\ codigo = "NECESITO_COMPACTAR"
         -> "EMPEZA_A_COMPACTAR"
    [] pedido = "EMPEZA_A_COMPACTAR" /\ codigo = "LISTA" -> "CREATE_SEGMENT"
    [] OTHER -> Nada

\* A creation that has to compact is asked again once memory has compacted.
SeguirPidiendo ==
  /\ pc[General] \in {"vacio", "lleno"}
  /\ Siguiente(pide[General], recibio[General]) # Nada
  /\ Enviar(General, Siguiente(pide[General], recibio[General]))
  /\ recibio' = [recibio EXCEPT ![General] = Nada]
  /\ UNCHANGED <<conexion_con_memoria, procesos, memoria, de_memoria, leido,
                 estado>>

\* SIN_MEMORIA that answers the console and leaves memory with the process.
SinMemoria_SinFinalizar ==
  /\ pc[General] \in {"vacio", "lleno"}
  /\ pide[General] = "CREATE_SEGMENT"
  /\ recibio[General] = "SIN_MEMORIA"
  /\ razon' = [razon EXCEPT ![ejecuta] = "OUT_OF_MEMORY"]
  /\ Terminar(General, "libre")
  /\ ejecuta' = Nada
  /\ UNCHANGED <<conexion_con_memoria, en_ram, segmentos, memoria, socket,
                 estado, historia>>

\* SIN_MEMORIA ends the process.
SinMemoria ==
  /\ pc[General] \in {"vacio", "lleno"}
  /\ pide[General] = "CREATE_SEGMENT"
  /\ recibio[General] = "SIN_MEMORIA"
  /\ terminar_consola(ejecuta, "OUT_OF_MEMORY")
  /\ recibio' = [recibio EXCEPT ![General] = Nada]
  /\ UNCHANGED <<conexion_con_memoria, en_ram, ejecuta, segmentos, memoria,
                 de_memoria, leido, estado>>

\* An answer that ends the instruction.  recibir_respuesta_finalizar_proceso
\* looks at no header; a creation with any other header returns with no context
\* sent, and hilo_general waits for a CPU that has nothing to do; a list read
\* from anything but a LISTA runs past the buffer, and a handshake that is not
\* HANDSHAKE_ok_continue exits.
FinDeInstruccion ==
  /\ pc[General] \in {"vacio", "lleno"}
  /\ Siguiente(pide[General], recibio[General]) = Nada
  /\ recibio[General] # "SIN_MEMORIA"
  /\ \/ /\ recibio[General] \in RespuestasA(pide[General])
           \/ pide[General] = "FINALIZAR_PROCESO"
        /\ Terminar(General, "libre")
        /\ en_ram' = IF pide[General] = "FINALIZAR_PROCESO"
                       THEN en_ram \ {ejecuta} ELSE en_ram
        /\ ejecuta' = Nada
        /\ UNCHANGED estado
     \/ /\ pide[General] = "CREATE_SEGMENT"
        /\ recibio[General] \notin RespuestasA("CREATE_SEGMENT")
        /\ Terminar(General, "colgado")
        /\ UNCHANGED <<en_ram, ejecuta, estado>>
     \/ /\ pide[General] \in {"DELETE_SEGMENT", "EMPEZA_A_COMPACTAR",
                              "HANDSHAKE_kernel"}
        /\ recibio[General] \notin RespuestasA(pide[General])
        /\ estado' = "kernel_caido"
        /\ UNCHANGED <<pc, pide, recibio, en_ram, ejecuta>>
  /\ UNCHANGED <<conexion_con_memoria, razon, segmentos, memoria, socket,
                 historia>>

-----------------------------------------------------------------------------
Memoria == AceptarKernel \/ Atender

CrearPCB(t) ==
  \/ PedirSegmento0(t) \/ RecibirSegmento0(t)
  \/ t \in Consolas /\ (Recibir(t) \/ RecibirSinSocket(t))

HiloGeneral ==
  \/ Conectar \/ Saludar \/ Recibir(General)
  \/ \E p \in Consolas : PedirSegmento(p) \/ EXIT(p)
  \/ SeguirPidiendo \/ SinMemoria \/ FinDeInstruccion

Next ==
  /\ estado = "bien"
  /\ \/ Memoria
     \/ \E t \in Consolas : CrearPCB(t)
     \/ HiloGeneral

Spec == Init /\ [][Next]_vars

\* Memory and the threads that have an exchange under way are scheduled; no
\* console ever has to arrive and no process has to ask for anything.
Equidad ==
  /\ WF_vars(estado = "bien" /\ Memoria)
  /\ WF_vars(estado = "bien" /\ (Conectar \/ Saludar))
  /\ \A t \in Hilos : WF_vars(estado = "bien" /\ (Recibir(t) \/ RecibirSinSocket(t)))
  /\ \A t \in Consolas : WF_vars(estado = "bien" /\ RecibirSegmento0(t))
  /\ WF_vars(estado = "bien" /\ (SeguirPidiendo \/ SinMemoria \/ FinDeInstruccion))

FairSpec == Spec /\ Equidad

-----------------------------------------------------------------------------
(* Properties.                                                             *)

Tipos ==
  /\ conexion_con_memoria \in BOOLEAN
  /\ kernel_aceptado \in BOOLEAN
  /\ compactada \in BOOLEAN
  /\ a_memoria \in Seq(Pedidos)
  /\ de_memoria \in Seq(ConDatos \cup Vacias)
  /\ leido \in {Nada, "header", "tam"}
  /\ leido # Nada => de_memoria # <<>>
  /\ leido = "tam" => Head(de_memoria) \in ConDatos
  /\ pc \in [Hilos -> {"sin_consola", "sin_conexion", "conectado", "libre",
                       "creado", "colgado"} \cup EnIntercambio]
  /\ pide \in [Hilos -> Pedidos \cup {Nada}]
  /\ \A t \in Hilos : pide[t] # Nada <=> pc[t] \in EnIntercambio
  /\ recibio \in [Hilos -> ConDatos \cup Vacias \cup {"basura", Nada}]
  /\ en_ram \subseteq Consolas
  /\ ejecuta \in en_ram \cup {Nada}
  /\ razon \in [Consolas -> {"SUCCESS", "OUT_OF_MEMORY", Nada}]
  /\ segmentos \in 0..MaxSegmentos
  /\ estado \in {"bien", "sin_guion"} \cup Fallas
  /\ perdidos \subseteq Hilos
  /\ temprano \in BOOLEAN
  /\ solapado \in BOOLEAN

\* The types, and no more messages in the socket than threads that use it.
TypeOK ==
  /\ Tipos
  /\ Len(a_memoria) + Len(de_memoria) <= Cardinality(Hilos)

\* Every thread that has read a header read one that answers what it asked
\* (crear_pcb, hilo_consola.c:234, takes the next answer for its own; so do the
\* receivers of hilo_general).
RespuestaPropia ==
  \A t \in Hilos : recibio[t] # Nada => recibio[t] \in RespuestasA(pide[t])

\* As long as the exchanges come one at a time, and after the handshake, every
\* thread reads its own answer to the end, nobody takes the middle of an answer
\* for a header, and neither program goes down over this connection.
SinSolaparCadaUnoLaSuya ==
  ~solapado /\ ~temprano => RespuestaPropia /\ estado \notin Fallas

\* Even with exchanges that overlap, memory owes exactly one answer to each thread
\* that waits for a header, less the requests that were sent before the connection
\* existed, until some thread reads bytes that are not a header.
UnaRespuestaPorPedido ==
  estado = "bien" =>
    Cardinality({t \in Hilos : pc[t] = "header"}) =
      Len(a_memoria) + Len(de_memoria) - (IF leido = Nada THEN 0 ELSE 1)
        + Cardinality(perdidos)

\* hilo_general finishes each instruction (a creation that compacts takes three
\* exchanges) and takes the next one, unless exchanges overlapped or a console
\* brought the kernel down.
GeneralVuelve ==
  pc[General] = "header" ~>
    pc[General] = "libre" \/ solapado \/ temprano \/ estado = "sin_guion"

\* hilo_general.c:271: the answer to a creation is one of three, "OK (base del
\* segmento), OUT_OF_MEMORY, COMPACTACION".
TresRespuestas ==
  pide[General] = "CREATE_SEGMENT" =>
    recibio[General] \in RespuestasA("CREATE_SEGMENT") \cup {Nada}

\* The kernel starts in order: memory is never brought down by a request that
\* comes before the handshake, nor the kernel by an answer it could not receive.
ArranqueEnOrden == Arrancando => estado = "bien"
=============================================================================

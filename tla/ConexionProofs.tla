--------------------------- MODULE ConexionProofs ---------------------------
(* Proofs about ConexionMemoria for any number of consoles, any number of  *)
(* segment instructions, and consoles that wait for the kernel or not; and *)
(* about Consolas, which adds the consoles and the thread that accepts     *)
(* them: its steps leave the exchanges as they are or are steps of theirs. *)
EXTENDS Consolas, FiniteSetTheorems, TLAPS

Lugares == {"sin_consola", "sin_conexion", "conectado", "libre", "creado",
            "colgado"} \cup EnIntercambio

\* The threads: who asks what, and that the start is over when a console asks.
Orden ==
  /\ pc \in [Hilos -> Lugares]
  /\ pide \in [Hilos -> Pedidos \cup {Nada}]
  /\ recibio \in [Hilos -> ConDatos \cup Vacias \cup {Nada}]
  /\ estado \notin Fallas
  /\ \A t \in Hilos : pide[t] # Nada <=> pc[t] \in EnIntercambio
  /\ \A t \in Consolas :
       pc[t] \in EnIntercambio => pide[t] = "INICIAR_PROCESO" /\ ~Arrancando
  /\ conexion_con_memoria \/ pc[General] = "sin_conexion"
  /\ ~kernel_aceptado =>
       /\ de_memoria = <<>>
       /\ pc[General] \in {"sin_conexion", "conectado", "header"}
       /\ Arrancando

\* The turns: one exchange at a time, and an idle socket between two.
UnoPorVez ==
  /\ \A t, u \in Hilos :
       pc[t] \in EnIntercambio /\ pc[u] \in EnIntercambio => t = u
  /\ (\A t \in Hilos : pc[t] \notin EnIntercambio) =>
       a_memoria = <<>> /\ de_memoria = <<>> /\ leido = Nada
  /\ \A t \in Hilos : pc[t] \notin EnIntercambio => recibio[t] = Nada

\* The socket: what is in it at each stage of the exchange under way.
Etapas ==
  \A t \in Hilos :
    /\ pc[t] = "header" =>
         /\ leido = Nada
         /\ recibio[t] = Nada
         /\ \/ a_memoria = <<pide[t]>> /\ de_memoria = <<>>
            \/ a_memoria = <<>> /\ \E r \in RespuestasA(pide[t]) : de_memoria = <<r>>
    /\ pc[t] \in EnIntercambio \ {"header"} =>
         a_memoria = <<>> /\ recibio[t] \in RespuestasA(pide[t])
    /\ pc[t] = "tam" => leido = "header" /\ de_memoria = <<recibio[t]>>
    /\ pc[t] = "datos" =>
         leido = "tam" /\ de_memoria = <<recibio[t]>> /\ recibio[t] \notin Vacias
    /\ pc[t] \in {"vacio", "lleno"} => leido = Nada /\ de_memoria = <<>>
    /\ pc[t] = "vacio" => recibio[t] \in Vacias
    /\ pc[t] = "lleno" => recibio[t] \notin Vacias

EnTurno == Orden /\ UnoPorVez /\ Etapas

\* Nothing is promised once exchanges have overlapped or come too early.
IInv == ~solapado /\ ~temprano => EnTurno

-----------------------------------------------------------------------------
(* What the actions have in common.                                        *)

\* An answer is one of the headers memory sends.
LEMMA RespuestasConocidas ==
  ASSUME NEW pedido \in Pedidos
  PROVE  RespuestasA(pedido) \subseteq ConDatos \cup Vacias
  BY DEF RespuestasA, Pedidos, ConDatos, Vacias

\* stream_send_buffer, by a thread whose last exchange is over, keeps the turns.
LEMMA EnviarEnTurno ==
  ASSUME EnTurno, ~solapado', ~temprano',
         NEW t \in Hilos, NEW pedido \in Pedidos, Enviar(t, pedido),
         pc[t] \notin {"header", "tam", "datos"},
         conexion_con_memoria,
         t \in Consolas => pedido = "INICIAR_PROCESO",
         kernel_aceptado \/ pedido = "HANDSHAKE_kernel",
         pedido = "HANDSHAKE_kernel" => pc[t] = "conectado",
         recibio' \in [Hilos -> ConDatos \cup Vacias \cup {Nada}],
         \A u \in Hilos : recibio'[u] = IF u = t THEN Nada ELSE recibio[u],
         UNCHANGED <<conexion_con_memoria, kernel_aceptado, de_memoria, leido, estado>>
  PROVE  EnTurno'
  <1> USE DEF EnTurno
  <1>1. \A u \in Hilos : u # t => pc[u] \notin EnIntercambio
    BY DEF Enviar, Esperan
  <1>2. a_memoria = <<>> /\ de_memoria = <<>> /\ leido = Nada
    <2>1. CASE pc[t] \in EnIntercambio
      <3>1. pc[t] \in {"vacio", "lleno"}
        BY <2>1 DEF EnIntercambio
      <3> QED BY <3>1, <2>1 DEF Etapas, EnIntercambio
    <2>2. CASE pc[t] \notin EnIntercambio
      BY <2>2, <1>1 DEF UnoPorVez
    <2> QED BY <2>1, <2>2
  <1>3. /\ pc' = [pc EXCEPT ![t] = "header"]
        /\ pide' = [pide EXCEPT ![t] = pedido]
        /\ a_memoria' = <<pedido>>
        /\ t # General => ~Arrancando
    <2>1. a_memoria' = Append(<<>>, pedido)
      BY <1>2 DEF Enviar
    <2>2. Append(<<>>, pedido) = <<pedido>>
      OBVIOUS
    <2>3. t # General => ~Arrancando
      BY Zenon DEF Enviar
    <2> QED BY <2>1, <2>2, <2>3 DEF Enviar
  <1>4. Orden'
    BY <1>1, <1>2, <1>3, ConexionMemoriaAssumption
    DEF Orden, Arrancando, Hilos, Lugares, EnIntercambio, Pedidos, Nada
  <1>5. UnoPorVez'
    BY <1>1, <1>3 DEF UnoPorVez, Orden, EnIntercambio
  <1>6. Etapas'
    BY <1>1, <1>2, <1>3 DEF Etapas, Orden, EnIntercambio
  <1> QED BY <1>4, <1>5, <1>6

\* A thread that has read its answer to the end leaves the socket idle.
LEMMA TerminarEnTurno ==
  ASSUME EnTurno, NEW t \in Hilos, pc[t] \in {"vacio", "lleno"},
         NEW donde \in {"creado", "libre", "colgado"}, Terminar(t, donde),
         UNCHANGED <<conexion_con_memoria, kernel_aceptado, socket, estado>>
  PROVE  EnTurno'
  <1> USE DEF EnTurno
  <1>1. \A u \in Hilos : u # t => pc[u] \notin EnIntercambio
    BY DEF UnoPorVez, EnIntercambio
  <1>2. a_memoria = <<>> /\ de_memoria = <<>> /\ leido = Nada
    BY DEF Etapas, EnIntercambio
  <1>3. kernel_aceptado \/ t # General
    BY DEF Orden
  <1>4. Orden'
    BY <1>1, <1>2, <1>3, ConexionMemoriaAssumption
    DEF Orden, Terminar, Arrancando, Hilos, Lugares, EnIntercambio, Pedidos, Nada, socket
  <1>5. UnoPorVez'
    BY <1>1, <1>2 DEF UnoPorVez, Orden, Terminar, EnIntercambio, socket
  <1>6. Etapas'
    BY <1>1 DEF Etapas, Orden, Terminar, EnIntercambio
  <1> QED BY <1>4, <1>5, <1>6

\* A thread receives only what is its own, and in its order.
LEMMA RecibirEnTurno ==
  ASSUME EnTurno, NEW t \in Hilos, Recibir(t)
  PROVE  EnTurno'
  <1> USE DEF EnTurno
  <1> DEFINE r == Head(de_memoria)
  <1>1. pc[t] \in {"header", "tam", "datos"} /\ pc[t] \in EnIntercambio
    BY DEF Recibir, LeidoAntes, EnIntercambio
  <1>2. \A u \in Hilos : u # t => pc[u] \notin EnIntercambio
    BY <1>1 DEF UnoPorVez
  <1>3. pide[t] \in Pedidos /\ kernel_aceptado
    BY <1>1 DEF Orden, Nada, Recibir
  <1>4. /\ a_memoria = <<>>
        /\ de_memoria = <<r>>
        /\ r \in RespuestasA(pide[t])
        /\ leido = LeidoAntes[pc[t]]
        /\ pc[t] # "header" => recibio[t] = r
        /\ pc[t] = "datos" => r \notin Vacias
    BY <1>1 DEF Etapas, EnIntercambio, Recibir, LeidoAntes, Nada
  <1>5. r \in ConDatos \cup Vacias
    BY <1>3, <1>4, RespuestasConocidas
  <1>6. /\ pc' = [pc EXCEPT ![t] = Sigue(pc[t], r)]
        /\ recibio' = IF pc[t] = "header"
                        THEN [recibio EXCEPT ![t] = r] ELSE recibio
        /\ IF AlFinal(pc[t], r)
             THEN leido' = Nada /\ de_memoria' = <<>>
             ELSE leido' = pc[t] /\ de_memoria' = de_memoria
        /\ UNCHANGED <<conexion_con_memoria, kernel_aceptado, a_memoria, pide, estado>>
    <2>1. Tail(de_memoria) = <<>>
      <3> HIDE DEF r
      <3> QED BY <1>4
    <2>2. UNCHANGED <<conexion_con_memoria, kernel_aceptado, a_memoria, pide>>
      BY DEF Recibir, memoria
    <2>3. IF leido # LeidoAntes[pc[t]]
            THEN estado' = "desincronizado"
            ELSE /\ pc' = [pc EXCEPT ![t] = Sigue(pc[t], r)]
                 /\ recibio' = IF pc[t] = "header"
                                 THEN [recibio EXCEPT ![t] = r] ELSE recibio
                 /\ IF AlFinal(pc[t], r)
                      THEN leido' = Nada /\ de_memoria' = Tail(de_memoria)
                      ELSE leido' = pc[t] /\ UNCHANGED de_memoria
                 /\ UNCHANGED estado
      BY Zenon DEF Recibir
    <2> HIDE DEF r
    <2> QED BY <2>1, <2>2, <2>3, <1>4
  <1>7. Sigue(pc[t], r) \in EnIntercambio \ {"header"}
    BY <1>1 DEF Sigue, EnIntercambio
  <1>8. Orden'
    <2>1. pc' \in [Hilos -> Lugares] /\ pide' \in [Hilos -> Pedidos \cup {Nada}]
      BY <1>6, <1>7 DEF Orden, Lugares
    <2>2. recibio' \in [Hilos -> ConDatos \cup Vacias \cup {Nada}]
      BY <1>5, <1>6 DEF Orden
    <2> QED BY <1>1, <1>2, <1>3, <1>6, <1>7, <2>1, <2>2
            DEF Orden, Arrancando, EnIntercambio, Hilos
  <1>9. UnoPorVez'
    BY <1>1, <1>2, <1>6, <1>7 DEF UnoPorVez, Orden
  <1>10. Etapas'
    <2>1. \A u \in Hilos : u # t => pc'[u] \notin EnIntercambio
      BY <1>2, <1>6 DEF Orden
    <2>2. pc'[t] = Sigue(pc[t], r) /\ recibio'[t] = r
      BY <1>4, <1>6 DEF Orden
    <2> QED BY <1>1, <1>4, <1>6, <2>1, <2>2 DEF Etapas, Sigue, AlFinal, EnIntercambio
  <1> QED BY <1>8, <1>9, <1>10

\* Memory owes one answer: whoever waits for it gets one to its own request.
LEMMA AtenderEnTurno ==
  ASSUME EnTurno, Memoria
  PROVE  EnTurno'
  <1> USE DEF EnTurno
  <1>1. a_memoria # <<>>
    BY DEF Memoria, AceptarKernel, Atender
  <1>2. PICK t \in Hilos : pc[t] \in EnIntercambio
    BY <1>1 DEF UnoPorVez
  <1>3. /\ pc[t] = "header"
        /\ leido = Nada
        /\ recibio[t] = Nada
        /\ a_memoria = <<pide[t]>>
        /\ de_memoria = <<>>
    BY <1>1, <1>2 DEF Etapas
  <1>4. pide[t] \in Pedidos
    BY <1>2 DEF Orden
  <1>5. Head(a_memoria) = pide[t] /\ Tail(a_memoria) = <<>>
    BY <1>3, <1>4
  <1>6. \A u \in Hilos : u # t => pc[u] \notin EnIntercambio
    BY <1>2 DEF UnoPorVez
  <1>7. ~kernel_aceptado => pide[t] = "HANDSHAKE_kernel"
    BY <1>2, <1>3, ConexionMemoriaAssumption DEF Orden, Arrancando, Hilos
  <1>8. /\ a_memoria' = <<>>
        /\ kernel_aceptado'
        /\ \E r \in RespuestasA(pide[t]) : de_memoria' = <<r>>
        /\ UNCHANGED <<kernel, leido, estado>>
    <2>1. CASE AceptarKernel
      <3>1. de_memoria' = Append(<<>>, "HANDSHAKE_ok_continue")
        BY <2>1, <1>3, <1>5, <1>7 DEF AceptarKernel, Responder
      <3>2. de_memoria' = <<"HANDSHAKE_ok_continue">>
        BY <3>1
      <3> QED BY <2>1, <3>2, <1>5, <1>7 DEF AceptarKernel, RespuestasA
    <2>2. CASE Atender
      <3>1. PICK r \in RespuestasA(pide[t]) : de_memoria' = Append(<<>>, r)
        BY <2>2, <1>3, <1>5 DEF Atender, Responder
      <3>2. de_memoria' = <<r>>
        BY <3>1
      <3> QED BY <2>2, <3>2, <1>5 DEF Atender
    <2> QED BY <2>1, <2>2 DEF Memoria
  <1>9. Orden' /\ UnoPorVez'
    BY <1>2, <1>8 DEF Orden, UnoPorVez, Arrancando, kernel
  <1>10. Etapas'
    BY <1>3, <1>6, <1>8 DEF Etapas, EnIntercambio, kernel
  <1> QED BY <1>9, <1>10

-----------------------------------------------------------------------------
(* The invariant.                                                          *)

LEMMA InicioIInv == Init => IInv
  <1> SUFFICES ASSUME Init PROVE EnTurno
    BY DEF IInv
  <1> USE DEF Init
  <1>1. Orden
    BY DEF Orden, Lugares, Fallas, Arrancando, EnIntercambio, Hilos
  <1>2. UnoPorVez /\ Etapas
    BY DEF UnoPorVez, Etapas, EnIntercambio
  <1> QED BY <1>1, <1>2 DEF EnTurno

LEMMA PasoIInv == IInv /\ [Next]_vars => IInv'
  <1> SUFFICES ASSUME IInv, [Next]_vars, ~solapado', ~temprano'
               PROVE  EnTurno'
    BY DEF IInv
  <1>1. ~solapado /\ ~temprano
    <2>1. CASE UNCHANGED vars
      BY <2>1 DEF vars, historia
    <2>2. CASE Memoria
      BY <2>2 DEF Memoria, AceptarKernel, Atender, historia
    <2>3. CASE \E t \in Consolas : CrearPCB(t)
      <3> PICK t \in Consolas : CrearPCB(t)
        BY <2>3
      <3>1. CASE PedirSegmento0(t)
        BY <3>1, Zenon DEF PedirSegmento0, Enviar
      <3>2. CASE RecibirSegmento0(t) \/ Recibir(t) \/ RecibirSinSocket(t)
        BY <3>2 DEF RecibirSegmento0, Recibir, RecibirSinSocket, historia
      <3> QED BY <3>1, <3>2 DEF CrearPCB
    <2>4. CASE HiloGeneral
      <3>1. CASE Conectar \/ Recibir(General) \/ FinDeInstruccion
        BY <3>1 DEF Conectar, Recibir, FinDeInstruccion, historia
      <3>2. ASSUME NEW pedido, Enviar(General, pedido)
            PROVE  ~solapado /\ ~temprano
        BY <3>2, Zenon DEF Enviar
      <3> QED BY <2>4, <3>1, <3>2
              DEF HiloGeneral, Saludar, PedirSegmento, EXIT, terminar_consola,
                  SeguirPidiendo, SinMemoria
    <2> QED BY <2>1, <2>2, <2>3, <2>4 DEF Next
  <1>2. EnTurno
    BY <1>1 DEF IInv
  <1>3. CASE UNCHANGED vars
    BY <1>2, <1>3
    DEF EnTurno, Orden, UnoPorVez, Etapas, Arrancando, vars, kernel, memoria,
        socket, historia, procesos
  <1>4. CASE Memoria
    BY <1>2, <1>4, AtenderEnTurno
  <1>5. ASSUME NEW t \in Consolas, PedirSegmento0(t)
        PROVE  EnTurno'
    <2>1. t \in Hilos /\ t # General /\ "INICIAR_PROCESO" \in Pedidos
      BY ConexionMemoriaAssumption DEF Hilos, Pedidos
    <2>2. ~Arrancando
      BY <1>5, <2>1, Zenon DEF PedirSegmento0, Enviar
    <2>3. conexion_con_memoria /\ kernel_aceptado
      BY <1>2, <2>2 DEF EnTurno, Orden, Arrancando
    <2>4. recibio[t] = Nada /\ recibio' = recibio
      BY <1>2, <1>5, <2>1 DEF EnTurno, UnoPorVez, EnIntercambio, PedirSegmento0
    <2>5. recibio' \in [Hilos -> ConDatos \cup Vacias \cup {Nada}]
      BY <1>2, <2>4 DEF EnTurno, Orden
    <2> QED BY <1>2, <1>5, <2>1, <2>3, <2>4, <2>5, EnviarEnTurno
            DEF PedirSegmento0, memoria
  <1>6. ASSUME NEW t \in Consolas, RecibirSegmento0(t)
        PROVE  EnTurno'
    <2>1. t \in Hilos
      BY DEF Hilos
    <2>2. pc[t] # "vacio"
      BY <1>2, <2>1 DEF EnTurno, Orden, Etapas, EnIntercambio, RespuestasA, Vacias
    <2> QED BY <1>2, <1>6, <2>1, <2>2, TerminarEnTurno DEF RecibirSegmento0, memoria
  <1>7. ASSUME NEW t \in Hilos, Recibir(t)
        PROVE  EnTurno'
    BY <1>2, <1>7, RecibirEnTurno
  <1>8. ASSUME NEW t \in Consolas, RecibirSinSocket(t)
        PROVE  EnTurno'
    <2>1. pc[t] \in EnIntercambio /\ pc[General] = "sin_conexion"
      BY <1>2, <1>8 DEF EnTurno, Orden, RecibirSinSocket, EnIntercambio
    <2> QED BY <1>2, <2>1 DEF EnTurno, Orden, Arrancando
  <1>9. CASE Conectar
    <2>1. General \in Hilos
      BY DEF Hilos
    <2> QED BY <1>2, <1>9, <2>1, ConexionMemoriaAssumption
            DEF Conectar, EnTurno, Orden, UnoPorVez, Etapas, Arrancando, Hilos,
                Lugares, EnIntercambio, memoria, socket
  <1>10. ASSUME NEW pedido \in Pedidos, Enviar(General, pedido),
                pc[General] \notin {"sin_conexion", "header", "tam", "datos"},
                kernel_aceptado \/ pedido = "HANDSHAKE_kernel",
                pedido = "HANDSHAKE_kernel" => pc[General] = "conectado",
                \/ recibio' = [recibio EXCEPT ![General] = Nada]
                \/ pc[General] \notin EnIntercambio /\ recibio' = recibio,
                UNCHANGED <<conexion_con_memoria, memoria, de_memoria, leido, estado>>
         PROVE  EnTurno'
    <2>1. General \in Hilos
      BY DEF Hilos
    <2>2. conexion_con_memoria
      BY <1>2, <1>10 DEF EnTurno, Orden
    <2>3. /\ recibio' \in [Hilos -> ConDatos \cup Vacias \cup {Nada}]
          /\ \A u \in Hilos : recibio'[u] = IF u = General THEN Nada ELSE recibio[u]
      BY <1>2, <1>10, <2>1 DEF EnTurno, Orden, UnoPorVez
    <2>4. General \notin Consolas
      BY ConexionMemoriaAssumption
    <2> QED BY <1>2, <1>10, <2>1, <2>2, <2>3, <2>4, EnviarEnTurno DEF memoria
  <1>11. CASE Saludar
    BY <1>10, <1>11 DEF Saludar, Pedidos, EnIntercambio, memoria
  <1>12. kernel_aceptado \/ pc[General] \in {"sin_conexion", "conectado", "header"}
    BY <1>2 DEF EnTurno, Orden
  <1>13. ASSUME NEW p \in Consolas, PedirSegmento(p)
         PROVE  EnTurno'
    BY <1>10, <1>12, <1>13 DEF PedirSegmento, Pedidos, EnIntercambio
  <1>14. ASSUME NEW p \in Consolas, EXIT(p)
         PROVE  EnTurno'
    BY <1>10, <1>12, <1>14 DEF EXIT, terminar_consola, Pedidos, EnIntercambio
  <1>15. CASE SeguirPidiendo
    BY <1>10, <1>12, <1>15 DEF SeguirPidiendo, Siguiente, Pedidos, EnIntercambio, Nada
  <1>16. CASE SinMemoria
    BY <1>10, <1>12, <1>16 DEF SinMemoria, terminar_consola, Pedidos, EnIntercambio
  <1>17. CASE FinDeInstruccion
    <2>1. General \in Hilos
      BY DEF Hilos
    <2>2. pc[General] \in {"vacio", "lleno"}
      BY <1>17 DEF FinDeInstruccion
    <2>3. recibio[General] \in RespuestasA(pide[General])
      BY <1>2, <2>1, <2>2 DEF EnTurno, Etapas, EnIntercambio
    <2>4. Terminar(General, "libre") /\ UNCHANGED estado
      BY <1>17, <2>3 DEF FinDeInstruccion
    <2> QED BY <1>2, <1>17, <2>1, <2>2, <2>4, TerminarEnTurno DEF FinDeInstruccion, memoria
  <1> QED BY <1>3, <1>4, <1>5, <1>6, <1>7, <1>8, <1>9, <1>11, <1>13, <1>14, <1>15,
             <1>16, <1>17 DEF Next, CrearPCB, HiloGeneral, Hilos

-----------------------------------------------------------------------------
(* As long as no exchange begins during another, nor before the handshake  *)
(* is over, every thread of the kernel that reads from the socket with     *)
(* memory reads the answer to its own request, whole, and neither program  *)
(* goes down over it (hilo_consola.c:234, hilo_general.c:271).             *)
THEOREM CadaUnoLaSuya == Spec => []SinSolaparCadaUnoLaSuya
  <1>1. IInv => SinSolaparCadaUnoLaSuya
    BY DEF IInv, EnTurno, Orden, UnoPorVez, Etapas, SinSolaparCadaUnoLaSuya,
           RespuestaPropia, EnIntercambio
  <1> QED BY <1>1, InicioIInv, PasoIInv, PTL DEF Spec

-----------------------------------------------------------------------------
(* The count of answers, whatever the threads do.                          *)

EnHeader == {t \in Hilos : pc[t] = "header"}

\* 1 while an answer is being read: its header has been taken.
Empezada == IF leido = Nada THEN 0 ELSE 1

Cuenta ==
  Cardinality(EnHeader) =
    Len(a_memoria) + Len(de_memoria) - Empezada + Cardinality(perdidos)

\* Who has taken a part of an answer waits for the next.
Lector ==
  /\ leido = "header" => \E t \in Hilos : pc[t] = "tam"
  /\ leido = "tam" => \E t \in Hilos : pc[t] = "datos"

\* Only crear_pcb threads ask before there is a socket, and each asks once.
SinSocket ==
  /\ perdidos \subseteq {t \in Consolas : pc[t] # "sin_consola"}
  /\ ~conexion_con_memoria =>
       /\ pc[General] = "sin_conexion"
       /\ a_memoria = <<>> /\ de_memoria = <<>> /\ leido = Nada
       /\ perdidos = EnHeader

Contado == TypeOK /\ SinSocket /\ (estado = "bien" => Cuenta /\ Lector)

LEMMA ConjuntosFinitos ==
  ASSUME Tipos
  PROVE  /\ IsFiniteSet(Hilos) /\ Cardinality(Hilos) \in Nat
         /\ IsFiniteSet(EnHeader) /\ Cardinality(EnHeader) \in Nat
         /\ IsFiniteSet(perdidos) /\ Cardinality(perdidos) \in Nat
  <1>1. IsFiniteSet(Hilos)
    BY FS_AddElement, ConexionMemoriaAssumption DEF Hilos
  <1>2. EnHeader \subseteq Hilos /\ perdidos \subseteq Hilos
    BY DEF EnHeader, Tipos
  <1> QED BY <1>1, <1>2, FS_Subset, FS_CardinalityType

\* The bound of the socket follows from the count: a thread that reads is not one
\* that waits for a header.
LEMMA CuentaAcota ==
  ASSUME Tipos, Cuenta, Lector
  PROVE  Len(a_memoria) + Len(de_memoria) <= Cardinality(Hilos)
  <1>1. EnHeader \subseteq Hilos
    BY DEF EnHeader
  <1>2. Cardinality(EnHeader) <= Cardinality(Hilos)
    BY <1>1, ConjuntosFinitos, FS_Subset
  <1>3. leido # Nada => Cardinality(EnHeader) + 1 <= Cardinality(Hilos)
    <2> SUFFICES ASSUME leido # Nada
                 PROVE  Cardinality(EnHeader) + 1 <= Cardinality(Hilos)
      OBVIOUS
    <2>1. EnHeader # Hilos
      BY DEF Lector, Tipos, EnHeader
    <2>2. Cardinality(EnHeader) # Cardinality(Hilos)
      BY <1>1, <2>1, ConjuntosFinitos, FS_Subset
    <2> QED BY <1>2, <2>2, ConjuntosFinitos
  <1>4. Len(a_memoria) \in Nat /\ Len(de_memoria) \in Nat
    BY DEF Tipos
  <1> QED BY <1>2, <1>3, <1>4, ConjuntosFinitos DEF Cuenta, Empezada

\* stream_send_buffer adds one thread that waits and one request, or one lost.
LEMMA EnviarCuenta ==
  ASSUME Tipos, Tipos', Cuenta, Lector, SinSocket,
         NEW t \in Hilos, NEW pedido \in Pedidos, Enviar(t, pedido),
         pc[t] \notin {"header", "tam", "datos"},
         conexion_con_memoria \/ (t \in Consolas /\ pc[t] = "sin_consola"),
         UNCHANGED <<conexion_con_memoria, de_memoria, leido>>
  PROVE  Cuenta' /\ Lector' /\ SinSocket'
  <1>1. pc' = [pc EXCEPT ![t] = "header"]
    BY DEF Enviar
  <1>2. EnHeader' = EnHeader \cup {t} /\ t \notin EnHeader
    BY <1>1 DEF EnHeader, Tipos
  <1>3. Cardinality(EnHeader') = Cardinality(EnHeader) + 1
    BY <1>2, ConjuntosFinitos, FS_AddElement
  <1>4. Lector'
    BY <1>1 DEF Lector, Tipos
  <1>5. CASE conexion_con_memoria
    <2>1. a_memoria' = Append(a_memoria, pedido) /\ perdidos' = perdidos
      BY <1>5 DEF Enviar
    <2>2. Len(a_memoria') = Len(a_memoria) + 1 /\ Len(a_memoria) \in Nat
      BY <2>1 DEF Tipos
    <2>3. SinSocket'
      BY <1>1, <1>5, <2>1 DEF SinSocket, Tipos
    <2> QED BY <1>3, <1>4, <2>1, <2>2, <2>3, ConjuntosFinitos
            DEF Cuenta, Empezada, Tipos
  <1>6. CASE ~conexion_con_memoria
    <2>1. a_memoria' = a_memoria /\ perdidos' = perdidos \cup {t}
      BY <1>6 DEF Enviar
    <2>2. t \notin perdidos /\ t # General
      BY <1>6, ConexionMemoriaAssumption DEF SinSocket
    <2>3. Cardinality(perdidos') = Cardinality(perdidos) + 1
      BY <2>1, <2>2, ConjuntosFinitos, FS_AddElement
    <2>4. SinSocket'
      BY <1>1, <1>2, <1>6, <2>1, <2>2 DEF SinSocket, Tipos
    <2> QED BY <1>3, <1>4, <2>1, <2>3, <2>4, ConjuntosFinitos
            DEF Cuenta, Empezada, Tipos
  <1> QED BY <1>5, <1>6

\* What a send and the end of an exchange do to the types.
LEMMA EnviarTipos ==
  ASSUME Tipos, NEW t \in Hilos, NEW pedido \in Pedidos, Enviar(t, pedido),
         recibio' \in [Hilos -> ConDatos \cup Vacias \cup {"basura", Nada}],
         razon' \in [Consolas -> {"SUCCESS", "OUT_OF_MEMORY", Nada}],
         ejecuta' \in en_ram \cup {Nada}, segmentos' \in 0..MaxSegmentos,
         UNCHANGED <<conexion_con_memoria, memoria, de_memoria, leido, estado, en_ram>>
  PROVE  Tipos'
  <1>1. /\ pc' = [pc EXCEPT ![t] = "header"]
        /\ pide' = [pide EXCEPT ![t] = pedido]
        /\ a_memoria' \in Seq(Pedidos)
        /\ perdidos' \subseteq Hilos
    <2>1. a_memoria \in Seq(Pedidos) /\ Append(a_memoria, pedido) \in Seq(Pedidos)
      BY DEF Tipos
    <2>2. perdidos \cup {t} \subseteq Hilos /\ perdidos \subseteq Hilos
      BY DEF Tipos
    <2>3. \/ a_memoria' = Append(a_memoria, pedido) /\ perdidos' = perdidos
          \/ a_memoria' = a_memoria /\ perdidos' = perdidos \cup {t}
      BY Zenon DEF Enviar
    <2> QED BY <2>1, <2>2, <2>3 DEF Enviar
  <1>2. solapado' \in BOOLEAN /\ temprano' \in BOOLEAN
    BY Zenon DEF Enviar
  <1>3. \A u \in Hilos : pide'[u] # Nada <=> pc'[u] \in EnIntercambio
    BY <1>1 DEF Tipos, EnIntercambio, Pedidos, Nada
  <1>4. /\ pc' \in [Hilos -> {"sin_consola", "sin_conexion", "conectado", "libre",
                             "creado", "colgado"} \cup EnIntercambio]
        /\ pide' \in [Hilos -> Pedidos \cup {Nada}]
    BY <1>1 DEF Tipos, EnIntercambio
  <1> QED BY <1>1, <1>2, <1>3, <1>4 DEF Tipos, memoria

LEMMA TerminarTipos ==
  ASSUME Tipos, NEW t \in Hilos, NEW donde \in {"creado", "libre", "colgado"},
         Terminar(t, donde),
         razon' \in [Consolas -> {"SUCCESS", "OUT_OF_MEMORY", Nada}],
         en_ram' \subseteq Consolas, ejecuta' \in en_ram' \cup {Nada},
         UNCHANGED <<conexion_con_memoria, memoria, socket, estado, historia, segmentos>>
  PROVE  Tipos'
  <1>1. \A u \in Hilos : pide'[u] # Nada <=> pc'[u] \in EnIntercambio
    BY DEF Tipos, Terminar, EnIntercambio
  <1>2. /\ pc' \in [Hilos -> {"sin_consola", "sin_conexion", "conectado", "libre",
                             "creado", "colgado"} \cup EnIntercambio]
        /\ pide' \in [Hilos -> Pedidos \cup {Nada}]
        /\ recibio' \in [Hilos -> ConDatos \cup Vacias \cup {"basura", Nada}]
    BY DEF Tipos, Terminar
  <1> QED BY <1>1, <1>2 DEF Tipos, memoria, socket, historia

\* Memory takes one request and answers it, or goes down.
LEMMA AtenderContado ==
  ASSUME Tipos, SinSocket, Memoria
  PROVE  /\ Tipos'
         /\ SinSocket'
         /\ Cuenta /\ Lector /\ estado' = "bien" => Cuenta' /\ Lector'
         /\ estado' # "bien" =>
              Len(a_memoria') + Len(de_memoria') <= Len(a_memoria) + Len(de_memoria)
  <1>1. /\ a_memoria # <<>> /\ a_memoria \in Seq(Pedidos)
        /\ de_memoria \in Seq(ConDatos \cup Vacias)
    BY DEF Tipos, Memoria, AceptarKernel, Atender
  <1>2. /\ a_memoria' = Tail(a_memoria) /\ a_memoria' \in Seq(Pedidos)
        /\ Head(a_memoria) \in Pedidos
        /\ Len(a_memoria') = Len(a_memoria) - 1
        /\ UNCHANGED <<kernel, leido, historia>>
    <2>1. a_memoria' = Tail(a_memoria) /\ UNCHANGED <<kernel, leido, historia>>
      BY Zenon DEF Memoria, AceptarKernel, Atender
    <2>2. /\ Tail(a_memoria) \in Seq(Pedidos)
          /\ Head(a_memoria) \in Pedidos
          /\ Len(Tail(a_memoria)) = Len(a_memoria) - 1
      BY <1>1
    <2> QED BY <2>1, <2>2
  <1>3. \/ \E r \in ConDatos \cup Vacias : de_memoria' = Append(de_memoria, r)
        \/ UNCHANGED de_memoria /\ estado' = "memoria_caida"
    <2>1. CASE AceptarKernel
      BY <2>1 DEF AceptarKernel, Responder, Vacias
    <2>2. CASE Atender
      <3>1. RespuestasA(Head(a_memoria)) \subseteq ConDatos \cup Vacias
        BY <1>2, RespuestasConocidas
      <3> QED BY <2>2, <3>1 DEF Atender, Responder
    <2> QED BY <2>1, <2>2 DEF Memoria
  <1>4. /\ kernel_aceptado' \in BOOLEAN /\ compactada' \in BOOLEAN
        /\ estado' \in {"bien", "sin_guion"} \cup Fallas
    BY DEF Memoria, AceptarKernel, Atender, Tipos, Fallas
  <1>5. /\ de_memoria' \in Seq(ConDatos \cup Vacias)
        /\ de_memoria # <<>> => de_memoria' # <<>> /\ Head(de_memoria') = Head(de_memoria)
        /\ \/ Len(de_memoria') = Len(de_memoria) + 1
           \/ Len(de_memoria') = Len(de_memoria) /\ estado' = "memoria_caida"
    BY <1>1, <1>3
  <1>6. Tipos'
    <2>1. UNCHANGED <<conexion_con_memoria, pc, pide, recibio, en_ram, ejecuta, razon,
                      segmentos, leido, perdidos, temprano, solapado>>
      BY <1>2 DEF kernel, procesos, historia
    <2>2. /\ leido' # Nada => de_memoria' # <<>>
          /\ leido' = "tam" => Head(de_memoria') \in ConDatos
      BY <1>5, <2>1 DEF Tipos, Nada
    <2> QED BY <1>2, <1>4, <1>5, <2>1, <2>2 DEF Tipos
  <1>7. SinSocket'
    BY <1>1, <1>2 DEF SinSocket, kernel, historia, EnHeader
  <1>8. Cuenta /\ estado' = "bien" => Cuenta'
    BY <1>1, <1>2, <1>5 DEF Cuenta, Empezada, kernel, historia, EnHeader
  <1>9. Lector => Lector'
    BY <1>2 DEF Lector, kernel
  <1>10. Len(a_memoria) \in Nat /\ Len(de_memoria) \in Nat
    BY <1>1
  <1> QED BY <1>2, <1>5, <1>6, <1>7, <1>8, <1>9, <1>10

\* Whoever receives, a header read is one waiting thread less and one answer begun.
LEMMA RecibirContado ==
  ASSUME Tipos, SinSocket, NEW t \in Hilos, Recibir(t)
  PROVE  /\ Tipos'
         /\ SinSocket'
         /\ Cuenta /\ Lector => Cuenta' /\ Lector'
         /\ Len(a_memoria') + Len(de_memoria') <= Len(a_memoria) + Len(de_memoria)
  <1> DEFINE r == Head(de_memoria)
  <1>1. /\ de_memoria # <<>> /\ de_memoria \in Seq(ConDatos \cup Vacias)
        /\ r \in ConDatos \cup Vacias
        /\ Tail(de_memoria) \in Seq(ConDatos \cup Vacias)
        /\ Len(Tail(de_memoria)) = Len(de_memoria) - 1
        /\ Len(de_memoria) \in Nat /\ Len(a_memoria) \in Nat
    BY DEF Recibir, Tipos
  <1>2. /\ conexion_con_memoria /\ pc[t] \in {"header", "tam", "datos"}
        /\ UNCHANGED <<conexion_con_memoria, pide, procesos, memoria, a_memoria, historia>>
    BY DEF Recibir, LeidoAntes
  <1>3. CASE leido # LeidoAntes[pc[t]]
    <2>1. /\ UNCHANGED <<pc, recibio, leido, de_memoria>>
          /\ estado' = "desincronizado"
      BY <1>3 DEF Recibir
    <2> QED BY <1>1, <1>2, <2>1
            DEF Tipos, SinSocket, Cuenta, Empezada, EnHeader, Lector, procesos,
                memoria, historia, Fallas
  <1>4. CASE leido = LeidoAntes[pc[t]]
    <2>1. /\ pc' = [pc EXCEPT ![t] = Sigue(pc[t], r)]
          /\ recibio' = IF pc[t] = "header"
                          THEN [recibio EXCEPT ![t] = r] ELSE recibio
          /\ IF AlFinal(pc[t], r)
               THEN leido' = Nada /\ de_memoria' = Tail(de_memoria)
               ELSE leido' = pc[t] /\ UNCHANGED de_memoria
          /\ UNCHANGED estado
      BY <1>4, Zenon DEF Recibir
    <2>2. /\ Sigue(pc[t], r) \in EnIntercambio \ {"header"}
          /\ pc[t] \in EnIntercambio
      BY <1>2 DEF Sigue, EnIntercambio
    <2>3. \A u \in Hilos : pc'[u] = IF u = t THEN Sigue(pc[t], r) ELSE pc[u]
      BY <2>1 DEF Tipos
    <2>4. /\ de_memoria' \in Seq(ConDatos \cup Vacias)
          /\ leido' \in {Nada, "header", "tam"}
          /\ leido' # Nada => de_memoria' # <<>>
          /\ leido' = "tam" => Head(de_memoria') \in ConDatos
      BY <1>1, <1>2, <2>1 DEF AlFinal, Nada
    <2>5. Tipos'
      <3>1. /\ pc' \in [Hilos -> {"sin_consola", "sin_conexion", "conectado",
                             "libre", "creado", "colgado"} \cup EnIntercambio]
            /\ recibio' \in [Hilos -> ConDatos \cup Vacias \cup {"basura", Nada}]
        BY <1>1, <2>1, <2>2 DEF Tipos
      <3>2. \A u \in Hilos : pide'[u] # Nada <=> pc'[u] \in EnIntercambio
        BY <1>2, <2>2, <2>3 DEF Tipos
      <3> QED BY <1>2, <2>1, <2>4, <3>1, <3>2 DEF Tipos, procesos, memoria, historia
    <2>6. SinSocket'
      BY <1>2, <2>2, <2>3 DEF SinSocket, historia, EnIntercambio, Hilos
    <2>7. Cuenta => Cuenta'
      <3>1. CASE pc[t] = "header"
        <4>1. EnHeader' = EnHeader \ {t} /\ t \in EnHeader
          BY <2>2, <2>3, <3>1 DEF EnHeader
        <4>2. Cardinality(EnHeader') = Cardinality(EnHeader) - 1
          BY <4>1, ConjuntosFinitos, FS_RemoveElement
        <4>3. leido = Nada /\ leido' = "header" /\ de_memoria' = de_memoria
          BY <1>4, <2>1, <3>1 DEF LeidoAntes, AlFinal
        <4> QED BY <1>1, <1>2, <4>2, <4>3, ConjuntosFinitos
                DEF Cuenta, Empezada, Nada, historia
      <3>2. CASE pc[t] # "header"
        <4>1. EnHeader' = EnHeader
          BY <2>2, <2>3, <3>2 DEF EnHeader
        <4>2. leido # Nada
          BY <1>2, <1>4, <3>2 DEF LeidoAntes, Nada
        <4>3. \/ leido' = Nada /\ de_memoria' = Tail(de_memoria)
              \/ leido' # Nada /\ de_memoria' = de_memoria
          BY <1>2, <2>1 DEF Nada
        <4> QED BY <1>1, <1>2, <4>1, <4>2, <4>3, ConjuntosFinitos
                DEF Cuenta, Empezada, historia
      <3> QED BY <3>1, <3>2
    <2>8. Lector'
      BY <1>2, <2>1, <2>3 DEF Lector, Sigue, AlFinal, Nada
    <2>9. Len(a_memoria') + Len(de_memoria') <= Len(a_memoria) + Len(de_memoria)
      BY <1>1, <1>2, <2>1
    <2> QED BY <2>5, <2>6, <2>7, <2>8, <2>9
  <1> QED BY <1>3, <1>4

LEMMA InicioContado == Init => Contado
  <1> SUFFICES ASSUME Init PROVE Contado
    OBVIOUS
  <1> USE DEF Init
  <1>1. Tipos
    <2>1. /\ a_memoria \in Seq(Pedidos)
          /\ de_memoria \in Seq(ConDatos \cup Vacias)
      OBVIOUS
    <2>2. \A t \in Hilos : pide[t] # Nada <=> pc[t] \in EnIntercambio
      BY DEF EnIntercambio
    <2>3. segmentos \in 0..MaxSegmentos
      BY ConexionMemoriaAssumption
    <2> QED BY <2>1, <2>2, <2>3 DEF Tipos, Nada
  <1>2. EnHeader = {}
    BY DEF EnHeader
  <1>3. Cardinality(EnHeader) = 0 /\ Cardinality(perdidos) = 0
    BY <1>2, FS_EmptySet
  <1>4. Cuenta /\ Lector /\ SinSocket
    BY <1>2, <1>3 DEF Cuenta, Empezada, Lector, SinSocket, Nada, Hilos
  <1> QED BY <1>1, <1>4, CuentaAcota DEF Contado, TypeOK

LEMMA PasoContado == Contado /\ [Next]_vars => Contado'
  <1> SUFFICES ASSUME Contado, Next PROVE Contado'
    <2>1. Contado /\ UNCHANGED vars => Contado'
      BY DEF Contado, TypeOK, Tipos, SinSocket, Cuenta, Empezada, EnHeader, Lector,
             vars, kernel, memoria, socket, historia, procesos
    <2> QED BY <2>1
  <1>1. Tipos /\ SinSocket /\ Cuenta /\ Lector
    BY DEF Contado, TypeOK, Next
  <1>2. Len(a_memoria) + Len(de_memoria) <= Cardinality(Hilos)
    BY DEF Contado, TypeOK
  <1>3. /\ Len(a_memoria) \in Nat /\ Len(de_memoria) \in Nat
        /\ Cardinality(Hilos) \in Nat
    BY <1>1, ConjuntosFinitos DEF Tipos
  <1>4. General \in Hilos /\ Consolas \subseteq Hilos /\ General \notin Consolas
    BY ConexionMemoriaAssumption DEF Hilos
  <1>5. ASSUME Tipos', SinSocket', Cuenta', Lector'
        PROVE  Contado'
    <2>1. (Len(a_memoria) + Len(de_memoria) <= Cardinality(Hilos))'
      BY <1>5, CuentaAcota, PTL
    <2> QED BY <1>5, <2>1 DEF Contado, TypeOK
  \* A step that leaves the socket and the threads that wait as they were.
  <1>6. ASSUME Tipos', SinSocket', Lector', EnHeader' = EnHeader,
               UNCHANGED <<socket, perdidos>>
        PROVE  Contado'
    BY <1>1, <1>5, <1>6 DEF Cuenta, Empezada, socket
  <1>7. CASE Memoria
    <2>1. /\ Tipos' /\ SinSocket'
          /\ estado' = "bien" => Cuenta' /\ Lector'
          /\ estado' # "bien" =>
               Len(a_memoria') + Len(de_memoria') <= Len(a_memoria) + Len(de_memoria)
      BY <1>1, <1>7, AtenderContado
    <2>2. CASE estado' = "bien"
      BY <1>5, <2>1, <2>2
    <2>3. CASE estado' # "bien"
      <3>1. Len(a_memoria') \in Nat /\ Len(de_memoria') \in Nat
        BY <2>1 DEF Tipos
      <3> QED BY <1>2, <1>3, <2>1, <2>3, <3>1 DEF Contado, TypeOK, Hilos
    <2> QED BY <2>2, <2>3
  <1>8. ASSUME NEW t \in Hilos, Recibir(t)
        PROVE  Contado'
    BY <1>1, <1>5, <1>8, RecibirContado
  <1>9. ASSUME NEW t \in Consolas, PedirSegmento0(t)
        PROVE  Contado'
    <2>1. /\ "INICIAR_PROCESO" \in Pedidos /\ pc[t] = "sin_consola"
          /\ Enviar(t, "INICIAR_PROCESO")
          /\ UNCHANGED <<conexion_con_memoria, recibio, procesos, memoria,
                         de_memoria, leido, estado>>
      BY <1>9 DEF PedirSegmento0, Pedidos
    <2>2. Tipos'
      BY <1>1, <1>4, <2>1, EnviarTipos DEF Tipos, procesos
    <2> QED BY <1>1, <1>4, <1>5, <1>9, <2>1, <2>2, EnviarCuenta
  <1>10. ASSUME NEW t \in Consolas, RecibirSegmento0(t)
         PROVE  Contado'
    <2>1. pc[t] \in {"vacio", "lleno"}
          /\ UNCHANGED <<conexion_con_memoria, ejecuta, razon, segmentos, memoria,
                         socket, historia>>
      BY <1>10 DEF RecibirSegmento0
    <2>2. CASE Terminar(t, "creado") /\ en_ram' = en_ram \cup {t} /\ UNCHANGED estado
      <3>1. Tipos'
        <4>1. /\ razon' \in [Consolas -> {"SUCCESS", "OUT_OF_MEMORY", Nada}]
              /\ en_ram' \subseteq Consolas /\ ejecuta' \in en_ram' \cup {Nada}
          BY <1>1, <2>1, <2>2 DEF Tipos
        <4> QED BY <1>1, <1>4, <2>1, <2>2, <4>1, TerminarTipos
      <3>2. EnHeader' = EnHeader /\ Lector' /\ SinSocket'
        BY <1>1, <1>4, <2>1, <2>2
        DEF Terminar, Tipos, EnHeader, Lector, SinSocket, socket, historia
      <3> QED BY <1>6, <2>1, <3>1, <3>2 DEF historia
    <2>3. CASE estado' = "kernel_caido" /\ UNCHANGED <<pc, pide, recibio, en_ram>>
      <3>1. Tipos'
        BY <1>1, <2>1, <2>3 DEF Tipos, memoria, socket, historia, Fallas
      <3>2. EnHeader' = EnHeader /\ Lector' /\ SinSocket'
        BY <1>1, <2>1, <2>3 DEF EnHeader, Lector, SinSocket, socket, historia
      <3> QED BY <1>6, <2>1, <3>1, <3>2 DEF historia
    <2> QED BY <1>10, <2>2, <2>3 DEF RecibirSegmento0
  <1>11. ASSUME NEW t \in Consolas, RecibirSinSocket(t)
         PROVE  Contado'
    <2>1. /\ pc[t] \in {"header", "tam"} /\ ~conexion_con_memoria
          /\ pc' = [pc EXCEPT ![t] = IF pc[t] = "header" THEN "tam" ELSE "vacio"]
          /\ recibio' = [recibio EXCEPT ![t] = "basura"]
          /\ perdidos' = perdidos \ {t}
          /\ UNCHANGED <<conexion_con_memoria, pide, procesos, memoria, socket,
                         estado, temprano, solapado>>
      BY <1>11 DEF RecibirSinSocket
    <2>2. leido = Nada
      BY <1>1, <2>1 DEF SinSocket
    <2>3. /\ pc'[t] \in {"tam", "vacio"}
          /\ \A u \in Hilos : u # t => pc'[u] = pc[u]
      BY <1>1, <1>4, <2>1 DEF Tipos
    <2>4. Tipos'
      <3>1. \A u \in Hilos : pide'[u] # Nada <=> pc'[u] \in EnIntercambio
        BY <1>1, <2>1, <2>3 DEF Tipos, EnIntercambio
      <3>2. /\ pc' \in [Hilos -> {"sin_consola", "sin_conexion", "conectado",
                             "libre", "creado", "colgado"} \cup EnIntercambio]
            /\ recibio' \in [Hilos -> ConDatos \cup Vacias \cup {"basura", Nada}]
            /\ perdidos' \subseteq Hilos
        BY <1>1, <2>1 DEF Tipos, EnIntercambio
      <3> QED BY <1>1, <2>1, <3>1, <3>2 DEF Tipos, procesos, memoria, socket
    <2>5. EnHeader' = EnHeader \ {t} /\ t \in Hilos
      BY <1>4, <2>3 DEF EnHeader
    <2>6. SinSocket'
      BY <1>1, <1>4, <2>1, <2>3, <2>5 DEF SinSocket, socket
    <2>7. Cardinality(EnHeader') = Cardinality(perdidos')
      BY <2>1, <2>5, <1>1 DEF SinSocket
    <2>8. Cuenta'
      <3>1. a_memoria' = <<>> /\ de_memoria' = <<>> /\ leido' = Nada
        BY <1>1, <2>1 DEF SinSocket, socket
      <3>2. Cardinality(perdidos') \in Nat
        BY <1>1, <2>1, ConjuntosFinitos, FS_RemoveElement, FS_CardinalityType
      <3> QED BY <2>7, <3>1, <3>2 DEF Cuenta, Empezada
    <2>9. Lector'
      BY <2>1, <2>2 DEF Lector, socket, Nada
    <2> QED BY <1>5, <2>4, <2>6, <2>8, <2>9
  <1>12. CASE Conectar
    <2>1. /\ pc[General] = "sin_conexion" /\ conexion_con_memoria'
          /\ pc' = [pc EXCEPT ![General] = "conectado"]
          /\ UNCHANGED <<pide, recibio, procesos, memoria, socket, estado, historia>>
      BY <1>12 DEF Conectar
    <2>2. EnHeader' = EnHeader /\ Lector' /\ SinSocket'
      BY <1>1, <1>4, <2>1 DEF Tipos, EnHeader, Lector, SinSocket, socket, historia
    <2>3. Tipos'
      BY <1>1, <1>4, <2>1, <1>12
      DEF Conectar, Tipos, EnIntercambio, procesos, memoria, socket, historia
    <2> QED BY <1>6, <2>1, <2>2, <2>3 DEF historia
  <1>13. ASSUME NEW pedido \in Pedidos, Enviar(General, pedido),
                pc[General] \notin {"sin_conexion", "header", "tam", "datos"},
                recibio' \in [Hilos -> ConDatos \cup Vacias \cup {"basura", Nada}],
                razon' \in [Consolas -> {"SUCCESS", "OUT_OF_MEMORY", Nada}],
                ejecuta' \in en_ram \cup {Nada}, segmentos' \in 0..MaxSegmentos,
                UNCHANGED <<conexion_con_memoria, memoria, de_memoria, leido,
                            estado, en_ram>>
         PROVE  Contado'
    <2>1. Tipos'
      BY <1>1, <1>4, <1>13, EnviarTipos
    <2>2. conexion_con_memoria
      BY <1>1, <1>13 DEF SinSocket
    <2> QED BY <1>1, <1>4, <1>5, <1>13, <2>1, <2>2, EnviarCuenta
  <1>14. /\ recibio \in [Hilos -> ConDatos \cup Vacias \cup {"basura", Nada}]
         /\ [recibio EXCEPT ![General] = Nada]
              \in [Hilos -> ConDatos \cup Vacias \cup {"basura", Nada}]
         /\ razon \in [Consolas -> {"SUCCESS", "OUT_OF_MEMORY", Nada}]
         /\ \A p, motivo : motivo \in {"SUCCESS", "OUT_OF_MEMORY"} =>
              [razon EXCEPT ![p] = motivo]
                \in [Consolas -> {"SUCCESS", "OUT_OF_MEMORY", Nada}]
         /\ ejecuta \in en_ram \cup {Nada} /\ segmentos \in 0..MaxSegmentos
    BY <1>1 DEF Tipos
  <1>15. CASE Saludar
    BY <1>13, <1>14, <1>15 DEF Saludar, Pedidos, procesos
  <1>16. ASSUME NEW p \in Consolas, PedirSegmento(p)
         PROVE  Contado'
    <2>1. segmentos' \in 0..MaxSegmentos
      BY <1>14, <1>16, ConexionMemoriaAssumption DEF PedirSegmento
    <2> QED BY <1>13, <1>14, <1>16, <2>1 DEF PedirSegmento, Pedidos
  <1>17. ASSUME NEW p \in Consolas, EXIT(p)
         PROVE  Contado'
    BY <1>13, <1>14, <1>17 DEF EXIT, terminar_consola, Pedidos
  <1>18. CASE SeguirPidiendo
    BY <1>13, <1>14, <1>18 DEF SeguirPidiendo, Siguiente, Pedidos, Nada, procesos
  <1>19. CASE SinMemoria
    BY <1>13, <1>14, <1>19 DEF SinMemoria, terminar_consola, Pedidos
  <1>20. CASE FinDeInstruccion
    <2>1. /\ pc[General] \in {"vacio", "lleno"}
          /\ UNCHANGED <<conexion_con_memoria, razon, segmentos, memoria, socket, historia>>
      BY <1>20 DEF FinDeInstruccion
    <2>2. ASSUME NEW donde \in {"libre", "colgado"}, Terminar(General, donde),
                 en_ram' \subseteq Consolas, ejecuta' \in en_ram' \cup {Nada},
                 UNCHANGED estado
          PROVE  Contado'
      <3>1. Tipos'
        BY <1>1, <1>4, <1>14, <2>1, <2>2, TerminarTipos
      <3>2. EnHeader' = EnHeader /\ Lector' /\ SinSocket'
        BY <1>1, <1>4, <2>1, <2>2
        DEF Terminar, Tipos, EnHeader, Lector, SinSocket, socket, historia
      <3> QED BY <1>6, <2>1, <3>1, <3>2 DEF historia
    <2>3. CASE estado' = "kernel_caido" /\ UNCHANGED <<pc, pide, recibio, en_ram, ejecuta>>
      <3>1. Tipos'
        BY <1>1, <2>1, <2>3 DEF Tipos, memoria, socket, historia, Fallas
      <3>2. EnHeader' = EnHeader /\ Lector' /\ SinSocket'
        BY <1>1, <2>1, <2>3 DEF EnHeader, Lector, SinSocket, socket, historia
      <3> QED BY <1>6, <2>1, <3>1, <3>2 DEF historia
    <2>4. CASE /\ Terminar(General, "libre")
               /\ en_ram' = IF pide[General] = "FINALIZAR_PROCESO"
                              THEN en_ram \ {ejecuta} ELSE en_ram
               /\ ejecuta' = Nada /\ UNCHANGED estado
      BY <1>1, <2>2, <2>4 DEF Tipos
    <2>5. CASE Terminar(General, "colgado") /\ UNCHANGED <<en_ram, ejecuta, estado>>
      BY <1>1, <2>2, <2>5 DEF Tipos
    <2> QED BY <1>20, <2>3, <2>4, <2>5 DEF FinDeInstruccion
  <1> QED BY <1>4, <1>7, <1>8, <1>9, <1>10, <1>11, <1>12, <1>15, <1>16, <1>17, <1>18,
             <1>19, <1>20 DEF Next, CrearPCB, HiloGeneral

-----------------------------------------------------------------------------
(* Every variable keeps its type and the socket never holds more messages  *)
(* than there are threads that use it, so no thread is ever two requests   *)
(* ahead of memory (stream.c, hilo_consola.c, hilo_general.c).             *)
THEOREM TiposDeConexion == Spec => []TypeOK
  BY InicioContado, PasoContado, PTL DEF Spec, Contado

(* Even when exchanges overlap, the answers memory owes are exactly those  *)
(* that are waited for, less the requests sent before the connection was   *)
(* there: an answer may go to the wrong thread, none is lost or repeated.  *)
THEOREM UnaRespuesta == Spec => []UnaRespuestaPorPedido
  <1>1. Contado => UnaRespuestaPorPedido
    <2>1. EnHeader = {t \in Hilos : pc[t] = "header"}
      BY DEF EnHeader
    <2> QED BY <2>1 DEF Contado, Cuenta, Empezada, UnaRespuestaPorPedido
  <1> QED BY <1>1, InicioContado, PasoContado, PTL DEF Spec

-----------------------------------------------------------------------------
(* The consoles.  The connection that Consolas composes is this one, whose *)
(* steps it only restricts; a console the kernel cannot read ends it.      *)

LEMMA PasoSConexion ==
  ASSUME [NextS]_varsS
  PROVE  \/ [Next]_vars
         \/ /\ estado = "bien" /\ estado' = "sin_guion"
            /\ UNCHANGED <<kernel, memoria, socket, historia>>
  <1>1. CASE PasoConexion /\ estado = "bien"
    BY <1>1 DEF PasoConexion, CrearPCBDe, Next
  <1>2. CASE RecibirInstrucciones /\ estado = "bien"
    BY <1>2 DEF RecibirInstrucciones, vars
  <1>3. CASE Aceptar \/ ResponderHandshake
    BY <1>3 DEF Aceptar, ResponderHandshake
  <1>4. ASSUME NEW t \in Consolas, Consola(t)
        PROVE  UNCHANGED vars
    BY <1>4 DEF Consola, ConectarConsola, EnviarHandshake, RecibirHandshake,
                EnviarInstrucciones, Abortar, RecibirFin
  <1>5. CASE UNCHANGED varsS
    BY <1>5 DEF varsS
  <1> QED BY <1>1, <1>2, <1>3, <1>4, <1>5 DEF NextS, HiloConsola

\* With the consoles there, the turns and the count of answers still hold.
LEMMA PasoSIInv == IInv /\ [NextS]_varsS => IInv'
  <1>1. ASSUME IInv, estado' = "sin_guion",
               UNCHANGED <<kernel, memoria, socket, historia>>
        PROVE  IInv'
    BY <1>1 DEF IInv, EnTurno, Orden, UnoPorVez, Etapas, Arrancando, kernel, memoria,
                socket, historia, procesos, Fallas
  <1> QED BY <1>1, PasoSConexion, PasoIInv

LEMMA PasoSContado == Contado /\ [NextS]_varsS => Contado'
  <1>1. ASSUME Contado, estado' = "sin_guion",
               UNCHANGED <<kernel, memoria, socket, historia>>
        PROVE  Contado'
    BY <1>1 DEF Contado, TypeOK, Tipos, SinSocket, EnHeader, kernel, memoria, socket, historia,
                procesos
  <1> QED BY <1>1, PasoSConexion, PasoContado

\* Nothing is told to a console, nor kept in memory, before its process is
\* created; hilo_general asks memory for a process that is there, and the only
\* process still there whose console knows its end is the one it is finishing.
Procesos ==
  /\ \A t \in Consolas : t \notin crear_pcbs => pc[t] = "sin_consola"
  /\ \A t \in Consolas : razon[t] # Nada \/ t \in en_ram => pc[t] = "creado"
  /\ pide[General] \in Pedidos \ {"HANDSHAKE_kernel"} => ejecuta \in en_ram
  /\ \A t \in en_ram :
       razon[t] # Nada => pide[General] = "FINALIZAR_PROCESO" /\ ejecuta = t

\* Where a console is, and what the thread that listens to it may find: before the
\* script there is at most the handshake, which is taken before it is answered, so
\* crear_hilo_consola never takes the handshake of a console for its script.
Saludado(t) == atiende = t /\ pc_acepta = "instrucciones"

Charla ==
  /\ por_aceptar \in Seq(Consolas)
  /\ atiende \in Consolas \cup {Nada}
  /\ pc_acepta # "acepta" => atiende \in Consolas
  /\ consola \in [Consolas -> {"sin_lanzar", "saluda", "espera_saludo", "lee_guion",
                               "espera_fin", "termino", "aborto"}]
  /\ a_kernel = [t \in Consolas |-> a_kernel[t]]
  /\ a_consola \in [Consolas -> Seq({"HANDSHAKE_ok_continue"})]
  /\ crear_pcbs \subseteq Consolas
  /\ \A t \in Consolas :
       /\ consola[t] \in {"sin_lanzar", "saluda"} =>
            a_kernel[t] = <<>> /\ a_consola[t] = <<>> /\ ~Saludado(t)
       /\ consola[t] = "espera_saludo" =>
            \/ /\ a_kernel[t] = <<[header |-> "HANDSHAKE_consola", buffer |-> <<>>]>>
               /\ a_consola[t] = <<>> /\ ~Saludado(t)
            \/ a_kernel[t] = <<>> /\ a_consola[t] # <<>>
       /\ consola[t] = "lee_guion" => a_kernel[t] = <<>>
       /\ consola[t] = "aborto" =>
            a_kernel[t] \in {<<>>, <<[header |-> "cierre", buffer |-> <<>>]>>}
       /\ t \in crear_pcbs => consola[t] \in {"espera_fin", "termino"}
       /\ consola[t] = "termino" => razon[t] # Nada

\* Unpacking an empty buffer runs out at once: a console that exits before it
\* sends its script gets no process.
LEMMA BufferVacio == Desempaquetar(<<>>) = <<Agotado>>
  <1> DEFINE cuerpo(f) ==
        [i \in 1 .. Len(<<>>) + 1 |->
           IF i > Len(<<>>) THEN <<Agotado>>
           ELSE LET leido_ == LeerCampos(<<>>, i + 1, CamposKernel[<<>>[i]])
                    instruccion == [tipo |-> <<>>[i], args |-> leido_.args]
                IN IF <<>>[i] = "EXIT" THEN <<instruccion>>
                   ELSE <<instruccion>> \o f[leido_.sigue]]
  <1>1. 1 .. Len(<<>>) + 1 = {1} /\ \A i \in {1} : i > Len(<<>>)
    OBVIOUS
  <1>2. \A f : cuerpo(f) = [i \in {1} |-> <<Agotado>>]
    BY <1>1
  <1> HIDE DEF cuerpo
  <1>3. (CHOOSE f : f = cuerpo(f)) = [i \in {1} |-> <<Agotado>>]
    BY <1>2
  <1>4. Desempaquetar(<<>>) = (CHOOSE f : f = cuerpo(f))[1]
    BY DEF Desempaquetar, cuerpo
  <1> QED BY <1>3, <1>4

\* A request of hilo_general touches no console's thread.
LEMMA PedirProcesos ==
  ASSUME Tipos, Procesos, NEW pedido \in Pedidos, Enviar(General, pedido),
         pedido # "HANDSHAKE_kernel" => ejecuta' \in en_ram,
         \A t \in en_ram :
           razon'[t] # Nada => pedido = "FINALIZAR_PROCESO" /\ ejecuta' = t,
         \A t \in Consolas : razon'[t] # Nada => razon[t] # Nada \/ t \in en_ram,
         UNCHANGED <<en_ram, crear_pcbs>>
  PROVE  Procesos'
  <1>1. General \in Hilos /\ Consolas \subseteq Hilos /\ General \notin Consolas
    BY ConexionMemoriaAssumption DEF Hilos
  <1>2. /\ pide'[General] = pedido
        /\ \A t \in Consolas : pc'[t] = pc[t]
    BY <1>1 DEF Enviar, Tipos
  <1> QED BY <1>2 DEF Procesos

LEMMA PasoProcesos ==
  ASSUME Tipos, Procesos, NextS
  PROVE  Procesos'
  <1>1. General \in Hilos /\ Consolas \subseteq Hilos /\ General \notin Consolas
    BY ConexionMemoriaAssumption DEF Hilos
  \* A step that leaves the processes as they are.
  <1>2. ASSUME UNCHANGED procesos, crear_pcbs \subseteq crear_pcbs',
               UNCHANGED <<pide, pc>>
        PROVE  Procesos'
    BY <1>2 DEF Procesos, procesos
  <1>3. ASSUME NEW t \in Consolas, pc[t] # "creado", t \in crear_pcbs,
               UNCHANGED <<procesos, crear_pcbs>>,
               pide'[General] = pide[General],
               \A u \in Hilos : u # t => pc'[u] = pc[u]
        PROVE  Procesos'
    BY <1>1, <1>3 DEF Procesos, procesos
  <1>4. CASE HiloConsola
    BY <1>2, <1>4 DEF HiloConsola, Aceptar, ResponderHandshake, RecibirInstrucciones,
                      vars, kernel
  <1>5. ASSUME NEW t \in Consolas, Consola(t)
        PROVE  Procesos'
    BY <1>2, <1>5 DEF Consola, ConectarConsola, EnviarHandshake, RecibirHandshake,
         EnviarInstrucciones, Abortar, RecibirFin, vars, kernel, hiloConsola
  <1>6. CASE Memoria /\ UNCHANGED varsDeConsola
    BY <1>2, <1>6 DEF Memoria, AceptarKernel, Atender, kernel, varsDeConsola, hiloConsola
  <1>7. ASSUME NEW t \in Consolas, CrearPCBDe(t), UNCHANGED varsDeConsola
        PROVE  Procesos'
    <2>1. t \in crear_pcbs /\ CrearPCB(t) /\ UNCHANGED crear_pcbs
      BY <1>7 DEF CrearPCBDe, varsDeConsola, hiloConsola
    <2>2. CASE PedirSegmento0(t)
      <3>1. /\ pc[t] # "creado" /\ UNCHANGED procesos
            /\ pide' = [pide EXCEPT ![t] = "INICIAR_PROCESO"]
            /\ pc' = [pc EXCEPT ![t] = "header"]
        BY <2>2 DEF PedirSegmento0, Enviar
      <3> QED BY <1>1, <1>3, <2>1, <3>1 DEF Tipos
    <2>3. CASE Recibir(t)
      <3>1. /\ pc[t] # "creado" /\ UNCHANGED <<procesos, pide>>
            /\ pc' = pc \/ \E x : pc' = [pc EXCEPT ![t] = x]
        BY <2>3 DEF Recibir, LeidoAntes
      <3> QED BY <1>1, <1>3, <2>1, <3>1 DEF Tipos
    <2>4. CASE RecibirSinSocket(t)
      <3>1. /\ pc[t] # "creado" /\ UNCHANGED <<procesos, pide>>
            /\ \E x : pc' = [pc EXCEPT ![t] = x]
        BY <2>4 DEF RecibirSinSocket
      <3> QED BY <1>1, <1>3, <2>1, <3>1 DEF Tipos
    <2>5. CASE RecibirSegmento0(t) /\ pc[t] = "lleno"
      <3>1. /\ pc' = [pc EXCEPT ![t] = "creado"]
            /\ pide' = [pide EXCEPT ![t] = Nada]
            /\ en_ram' = en_ram \cup {t}
            /\ UNCHANGED <<ejecuta, razon>>
        BY <2>5 DEF RecibirSegmento0, Terminar
      <3>2. razon[t] = Nada
        BY <2>5 DEF Procesos
      <3>3. /\ pide'[General] = pide[General] /\ pc'[t] = "creado"
            /\ \A u \in Consolas : u # t => pc'[u] = pc[u]
        BY <1>1, <3>1 DEF Tipos
      <3> QED BY <1>1, <2>1, <3>1, <3>2, <3>3 DEF Procesos
    <2>6. CASE RecibirSegmento0(t) /\ pc[t] # "lleno"
      BY <1>2, <2>1, <2>6 DEF RecibirSegmento0, procesos
    <2> QED BY <2>1, <2>2, <2>3, <2>4, <2>5, <2>6 DEF CrearPCB
  <1>8. CASE HiloGeneral /\ UNCHANGED varsDeConsola
    <2>1. UNCHANGED crear_pcbs
      BY <1>8 DEF varsDeConsola, hiloConsola
    <2>2. pc[General] = "libre" => \A t \in en_ram : razon[t] = Nada
      BY <1>1 DEF Procesos, Tipos, EnIntercambio, Nada
    <2>3. CASE Conectar
      <3>1. pide' = pide /\ UNCHANGED procesos /\ \A t \in Consolas : pc'[t] = pc[t]
        BY <1>1, <2>3 DEF Conectar, Tipos
      <3> QED BY <2>1, <3>1 DEF Procesos, procesos
    <2>4. CASE Saludar
      <3>1. Enviar(General, "HANDSHAKE_kernel") /\ UNCHANGED procesos
            /\ pc[General] = "conectado"
        BY <2>4 DEF Saludar
      <3>2. pide[General] = Nada
        BY <1>1, <3>1 DEF Tipos, EnIntercambio
      <3> QED BY <2>1, <3>1, <3>2, PedirProcesos DEF Procesos, procesos, Pedidos, Nada
    <2>5. CASE Recibir(General)
      <3>1. /\ UNCHANGED <<procesos, pide>>
            /\ pc' = pc \/ \E x : pc' = [pc EXCEPT ![General] = x]
        BY <2>5 DEF Recibir
      <3>2. \A t \in Consolas : pc'[t] = pc[t]
        BY <1>1, <3>1 DEF Tipos
      <3> QED BY <2>1, <3>1, <3>2 DEF Procesos, procesos
    <2>6. ASSUME NEW p \in Consolas, PedirSegmento(p)
          PROVE  Procesos'
      <3>1. /\ pc[General] = "libre" /\ p \in en_ram /\ ejecuta' = p
            /\ \E pedido \in {"CREATE_SEGMENT", "DELETE_SEGMENT"} : Enviar(General, pedido)
            /\ UNCHANGED <<en_ram, razon>>
        BY <2>6 DEF PedirSegmento
      <3> QED BY <2>1, <2>2, <3>1, PedirProcesos DEF Pedidos
    <2>7. ASSUME NEW p \in Consolas, EXIT(p)
          PROVE  Procesos'
      <3>1. /\ pc[General] = "libre" /\ p \in en_ram /\ ejecuta' = p
            /\ razon' = [razon EXCEPT ![p] = "SUCCESS"]
            /\ Enviar(General, "FINALIZAR_PROCESO")
            /\ UNCHANGED en_ram
        BY <2>7 DEF EXIT, terminar_consola
      <3>2. \A t \in Consolas : t # p => razon'[t] = razon[t]
        BY <3>1 DEF Tipos
      <3>3. en_ram \subseteq Consolas
        BY DEF Tipos
      <3> QED BY <2>1, <2>2, <3>1, <3>2, <3>3, PedirProcesos DEF Pedidos
    <2>8. CASE SeguirPidiendo
      <3>1. PICK pedido : /\ pedido = Siguiente(pide[General], recibio[General])
                          /\ pedido # Nada /\ Enviar(General, pedido)
        BY <2>8 DEF SeguirPidiendo
      <3>2. /\ pedido \in {"CREATE_SEGMENT", "EMPEZA_A_COMPACTAR"}
            /\ pide[General] \in {"CREATE_SEGMENT", "EMPEZA_A_COMPACTAR"}
        BY <3>1 DEF Siguiente
      <3>3. /\ ejecuta \in en_ram /\ \A t \in en_ram : razon[t] = Nada
        BY <3>2 DEF Procesos, Pedidos
      <3>4. UNCHANGED procesos
        BY <2>8 DEF SeguirPidiendo
      <3> QED BY <2>1, <3>1, <3>2, <3>3, <3>4, PedirProcesos DEF Pedidos, procesos
    <2>9. CASE SinMemoria
      <3>1. /\ pide[General] = "CREATE_SEGMENT"
            /\ razon' = [razon EXCEPT ![ejecuta] = "OUT_OF_MEMORY"]
            /\ Enviar(General, "FINALIZAR_PROCESO")
            /\ UNCHANGED <<en_ram, ejecuta>>
        BY <2>9 DEF SinMemoria, terminar_consola
      <3>2. /\ ejecuta \in en_ram /\ \A t \in en_ram : razon[t] = Nada
        BY <3>1 DEF Procesos, Pedidos
      <3>3. \A t \in Consolas : t # ejecuta => razon'[t] = razon[t]
        BY <3>1 DEF Tipos
      <3>4. en_ram \subseteq Consolas
        BY DEF Tipos
      <3> QED BY <2>1, <3>1, <3>2, <3>3, <3>4, PedirProcesos DEF Pedidos
    <2>10. CASE FinDeInstruccion
      <3>1. UNCHANGED razon
        BY <2>10 DEF FinDeInstruccion
      <3>2. ASSUME NEW donde, Terminar(General, donde),
                   en_ram' \subseteq en_ram,
                   \A t \in en_ram' : razon[t] = Nada
            PROVE  Procesos'
        <4>1. pide'[General] = Nada /\ \A t \in Consolas : pc'[t] = pc[t]
          BY <1>1, <3>2 DEF Terminar, Tipos
        <4>2. Nada \notin Pedidos \ {"HANDSHAKE_kernel"}
          BY DEF Nada, Pedidos
        <4> QED BY <2>1, <3>1, <3>2, <4>1, <4>2 DEF Procesos
      <3>3. CASE /\ Terminar(General, "libre")
                 /\ en_ram' = IF pide[General] = "FINALIZAR_PROCESO"
                                THEN en_ram \ {ejecuta} ELSE en_ram
        BY <3>2, <3>3 DEF Procesos
      <3>4. CASE /\ pide[General] = "CREATE_SEGMENT"
                 /\ Terminar(General, "colgado")
                 /\ UNCHANGED <<en_ram, ejecuta>>
        BY <3>2, <3>4 DEF Procesos
      <3>5. CASE UNCHANGED <<pc, pide, en_ram, ejecuta>>
        BY <2>1, <3>1, <3>5 DEF Procesos
      <3> QED BY <2>10, <3>3, <3>4, <3>5 DEF FinDeInstruccion
    <2> QED BY <1>8, <2>3, <2>4, <2>5, <2>6, <2>7, <2>8, <2>9, <2>10 DEF HiloGeneral
  <1> QED BY <1>4, <1>5, <1>6, <1>7, <1>8 DEF NextS, PasoConexion

\* The conversation of one console moves: what the others had to say stays.
LEMMA PasoCharla ==
  ASSUME Tipos, Tipos', Procesos, Charla, NextS
  PROVE  Charla'
  <1> DEFINE DeUna(t) ==
        /\ consola[t] \in {"sin_lanzar", "saluda"} =>
             a_kernel[t] = <<>> /\ a_consola[t] = <<>> /\ ~Saludado(t)
        /\ consola[t] = "espera_saludo" =>
             \/ /\ a_kernel[t] = <<[header |-> "HANDSHAKE_consola", buffer |-> <<>>]>>
                /\ a_consola[t] = <<>> /\ ~Saludado(t)
             \/ a_kernel[t] = <<>> /\ a_consola[t] # <<>>
        /\ consola[t] = "lee_guion" => a_kernel[t] = <<>>
        /\ consola[t] = "aborto" =>
             a_kernel[t] \in {<<>>, <<[header |-> "cierre", buffer |-> <<>>]>>}
        /\ t \in crear_pcbs => consola[t] \in {"espera_fin", "termino"}
        /\ consola[t] = "termino" => razon[t] # Nada
  <1>1. \A t \in Consolas : DeUna(t)
    BY DEF Charla
  <1>2. \A t \in Consolas : razon[t] # Nada => t \in crear_pcbs
    BY DEF Procesos
  \* A console moves; the kernel's side of its conversation does not.
  <1>3. ASSUME NEW t \in Consolas, Consola(t)
        PROVE  Charla'
    <2>1. UNCHANGED <<vars, hiloConsola, archivo>>
      BY <1>3 DEF Consola, ConectarConsola, EnviarHandshake, RecibirHandshake,
                  EnviarInstrucciones, Abortar, RecibirFin
    <2>2. UNCHANGED <<atiende, pc_acepta, crear_pcbs, razon>>
      BY <2>1 DEF vars, kernel, procesos, hiloConsola
    <2>3. ASSUME \A u \in Consolas \ {t} :
                   UNCHANGED <<consola[u], a_kernel[u], a_consola[u]>>,
                 DeUna(t)',
                 por_aceptar' \in Seq(Consolas),
                 consola' \in [Consolas -> {"sin_lanzar", "saluda", "espera_saludo",
                                 "lee_guion", "espera_fin", "termino", "aborto"}],
                 a_kernel' = [u \in Consolas |-> a_kernel'[u]],
                 a_consola' \in [Consolas -> Seq({"HANDSHAKE_ok_continue"})]
          PROVE  Charla'
      <3>1. \A u \in Consolas \ {t} : DeUna(u)'
        BY <1>1, <2>2, <2>3 DEF Saludado
      <3>2. \A u \in Consolas : DeUna(u)'
        BY <2>3, <3>1
      <3> QED BY <2>2, <2>3, <3>2 DEF Charla
    <2>4. CASE ConectarConsola(t)
      <3>1. /\ consola[t] = "sin_lanzar"
            /\ consola' = [consola EXCEPT ![t] = "saluda"]
            /\ por_aceptar' = Append(por_aceptar, t)
            /\ UNCHANGED <<a_kernel, a_consola>>
        BY <2>4 DEF ConectarConsola
      <3>2. DeUna(t)'
        BY <1>1, <2>2, <3>1 DEF Charla, Saludado
      <3> QED BY <2>3, <3>1, <3>2 DEF Charla
    <2>5. CASE EnviarHandshake(t)
      <3>1. /\ consola[t] = "saluda"
            /\ consola' = [consola EXCEPT ![t] = "espera_saludo"]
            /\ a_kernel' = [a_kernel EXCEPT ![t] =
                 Append(a_kernel[t], [header |-> "HANDSHAKE_consola", buffer |-> <<>>])]
            /\ UNCHANGED <<por_aceptar, a_consola>>
        BY <2>5 DEF EnviarHandshake, Enviando
      <3>2. /\ a_kernel[t] = <<>> /\ a_consola[t] = <<>> /\ ~Saludado(t)
            /\ t \notin crear_pcbs
        BY <1>1, <3>1
      <3>3. DeUna(t)'
        BY <2>2, <3>1, <3>2 DEF Charla, Saludado
      <3> QED BY <2>3, <3>1, <3>3 DEF Charla
    <2>6. CASE RecibirHandshake(t)
      <3>1. /\ consola[t] = "espera_saludo" /\ a_consola[t] # <<>>
            /\ a_consola' = [a_consola EXCEPT ![t] = Tail(a_consola[t])]
            /\ consola' = [consola EXCEPT ![t] = "lee_guion"]
            /\ UNCHANGED <<por_aceptar, a_kernel>>
        BY <2>6 DEF RecibirHandshake
      <3>2. a_kernel[t] = <<>> /\ t \notin crear_pcbs
        BY <1>1, <3>1
      <3>3. DeUna(t)'
        BY <2>2, <3>1, <3>2 DEF Charla
      <3>4. Tail(a_consola[t]) \in Seq({"HANDSHAKE_ok_continue"})
        BY <3>1 DEF Charla
      <3> QED BY <2>3, <3>1, <3>3, <3>4 DEF Charla
    <2>7. CASE EnviarInstrucciones(t)
      <3>1. /\ consola[t] = "lee_guion"
            /\ consola' = [consola EXCEPT ![t] = "espera_fin"]
            /\ \E m : a_kernel' = [a_kernel EXCEPT ![t] = m]
            /\ UNCHANGED <<por_aceptar, a_consola>>
        BY <2>7 DEF EnviarInstrucciones, Enviando
      <3>2. DeUna(t)'
        BY <2>2, <3>1 DEF Charla
      <3> QED BY <2>3, <3>1, <3>2 DEF Charla
    <2>8. CASE Abortar(t)
      <3>1. /\ consola[t] = "lee_guion"
            /\ consola' = [consola EXCEPT ![t] = "aborto"]
            /\ a_kernel' = [a_kernel EXCEPT ![t] =
                 Append(a_kernel[t], [header |-> "cierre", buffer |-> <<>>])]
            /\ UNCHANGED <<por_aceptar, a_consola>>
        BY <2>8 DEF Abortar, Enviando
      <3>2. a_kernel[t] = <<>> /\ t \notin crear_pcbs
        BY <1>1, <3>1
      <3>3. DeUna(t)'
        BY <2>2, <3>1, <3>2 DEF Charla
      <3> QED BY <2>3, <3>1, <3>3 DEF Charla
    <2>9. CASE RecibirFin(t)
      <3>1. /\ consola[t] = "espera_fin" /\ razon[t] # Nada
            /\ consola' = [consola EXCEPT ![t] = "termino"]
            /\ UNCHANGED <<por_aceptar, a_kernel, a_consola>>
        BY <2>9 DEF RecibirFin
      <3>2. DeUna(t)'
        BY <2>2, <3>1 DEF Charla
      <3> QED BY <2>3, <3>1, <3>2 DEF Charla
    <2> QED BY <1>3, <2>4, <2>5, <2>6, <2>7, <2>8, <2>9 DEF Consola
  <1>4. CASE Aceptar
    <2>1. /\ por_aceptar # <<>> /\ atiende' = Head(por_aceptar)
          /\ por_aceptar' = Tail(por_aceptar) /\ pc_acepta' = "handshake"
          /\ UNCHANGED <<consola, a_consola, a_kernel, crear_pcbs, razon>>
      BY <1>4 DEF Aceptar, vars, kernel, procesos, consolas
    <2>2. atiende' \in Consolas /\ por_aceptar' \in Seq(Consolas)
      BY <2>1 DEF Charla
    <2>3. \A t \in Consolas : ~Saludado(t)'
      BY <2>1 DEF Saludado
    <2>4. \A t \in Consolas : DeUna(t)'
      BY <1>1, <2>1, <2>3
    <2> QED BY <2>1, <2>2, <2>4 DEF Charla
  <1>5. \A x : Tail(<<x>>) = <<>>
    OBVIOUS
  <1>6. CASE ResponderHandshake
    <2>1. /\ pc_acepta = "handshake" /\ a_kernel[atiende] # <<>>
          /\ a_kernel' = [a_kernel EXCEPT ![atiende] = Tail(a_kernel[atiende])]
          /\ a_consola' = [a_consola EXCEPT ![atiende] =
                             Append(a_consola[atiende], "HANDSHAKE_ok_continue")]
          /\ pc_acepta' = "instrucciones"
          /\ UNCHANGED <<consola, por_aceptar, atiende, crear_pcbs, razon>>
      BY <1>6 DEF ResponderHandshake, vars, kernel, procesos
    <2>2. PICK c \in Consolas : c = atiende
      BY <2>1 DEF Charla
    <2>3. /\ Append(a_consola[c], "HANDSHAKE_ok_continue")
               \in Seq({"HANDSHAKE_ok_continue"})
          /\ Append(a_consola[c], "HANDSHAKE_ok_continue") # <<>>
      <3> DEFINE S == {"HANDSHAKE_ok_continue"}
      <3>1. a_consola[c] \in Seq(S) /\ "HANDSHAKE_ok_continue" \in S
        BY DEF Charla
      <3> HIDE DEF S
      <3>2. /\ Append(a_consola[c], "HANDSHAKE_ok_continue") \in Seq(S)
            /\ Append(a_consola[c], "HANDSHAKE_ok_continue") # <<>>
        BY <3>1
      <3> QED BY <3>2 DEF S
    <2>4. \A t \in Consolas \ {c} :
            DeUna(t)' /\ a_kernel'[t] = a_kernel[t] /\ a_consola'[t] = a_consola[t]
      BY <1>1, <2>1, <2>2 DEF Charla, Saludado
    <2>5. a_kernel'[c] = Tail(a_kernel[c]) /\ a_consola'[c] # <<>>
      BY <2>1, <2>2, <2>3 DEF Charla
    <2>6. DeUna(c)'
      BY <1>1, <1>5, <2>1, <2>2, <2>5 DEF Saludado
    <2>7. \A t \in Consolas : DeUna(t)'
      BY <2>4, <2>6
    <2>8. /\ a_kernel' = [t \in Consolas |-> a_kernel'[t]]
          /\ a_consola' \in [Consolas -> Seq({"HANDSHAKE_ok_continue"})]
      BY <2>1, <2>2, <2>3 DEF Charla
    <2> QED BY <2>1, <2>2, <2>7, <2>8 DEF Charla
  <1>7. CASE RecibirInstrucciones
    <2>1. /\ pc_acepta = "instrucciones" /\ a_kernel[atiende] # <<>>
          /\ a_kernel' = [a_kernel EXCEPT ![atiende] = Tail(a_kernel[atiende])]
          /\ UNCHANGED <<consola, a_consola, por_aceptar, razon>>
          /\ \/ UNCHANGED <<crear_pcbs, pc_acepta, atiende>>
             \/ /\ crear_pcbs' = crear_pcbs \cup {atiende}
                /\ pc_acepta' = "acepta" /\ atiende' = Nada
      BY <1>7 DEF RecibirInstrucciones, consolas, kernel, procesos
    <2>2. PICK c \in Consolas : c = atiende /\ Saludado(c)
      BY <2>1 DEF Charla, Saludado
    <2>3. consola[c] \in {"espera_fin", "termino", "aborto"}
      BY <1>1, <2>1, <2>2 DEF Charla
    <2>4. consola[c] = "aborto" => UNCHANGED <<crear_pcbs, pc_acepta, atiende>>
      <3>1. SUFFICES ASSUME consola[c] = "aborto"
                     PROVE  UNCHANGED <<crear_pcbs, pc_acepta, atiende>>
        OBVIOUS
      <3>2. Head(a_kernel[atiende]).buffer = <<>>
        BY <1>1, <2>1, <2>2, <3>1
      <3>3. <<Agotado>>[Len(<<Agotado>>)] = Agotado
        OBVIOUS
      <3> QED BY <1>7, <3>2, <3>3, BufferVacio DEF RecibirInstrucciones
    <2>5. /\ a_kernel'[c] = Tail(a_kernel[c])
          /\ \A t \in Consolas \ {c} : a_kernel'[t] = a_kernel[t]
          /\ a_kernel' = [t \in Consolas |-> a_kernel'[t]]
      BY <2>1, <2>2 DEF Charla
    <2>6. \A t \in Consolas : Saludado(t)' => Saludado(t)
      BY <2>1 DEF Saludado
    <2>7. \A t \in Consolas \ {c} : DeUna(t)'
      BY <1>1, <2>1, <2>2, <2>5, <2>6
    <2>8. DeUna(c)'
      <3>1. consola'[c] = consola[c] /\ (consola[c] = "termino" => razon'[c] # Nada)
        BY <1>1, <2>1
      <3>2. CASE consola[c] = "aborto"
        <4>1. c \notin crear_pcbs'
          BY <1>1, <2>4, <3>2
        <4>2. a_kernel'[c] = <<>>
          <5>1. a_kernel[c] = <<[header |-> "cierre", buffer |-> <<>>]>>
            BY <1>1, <2>1, <2>2, <3>2
          <5> QED BY <1>5, <2>5, <5>1
        <4> QED BY <3>1, <3>2, <4>1, <4>2
      <3>3. CASE consola[c] # "aborto"
        <4>1. consola'[c] \in {"espera_fin", "termino"}
          BY <2>3, <3>1, <3>3
        <4> QED BY <3>1, <4>1
      <3> QED BY <3>2, <3>3
    <2>9. \A t \in Consolas : DeUna(t)'
      BY <2>7, <2>8
    <2>10. /\ atiende' \in Consolas \cup {Nada} /\ crear_pcbs' \subseteq Consolas
           /\ pc_acepta' # "acepta" => atiende' \in Consolas
      BY <2>1, <2>2 DEF Charla
    <2> QED BY <2>1, <2>5, <2>9, <2>10 DEF Charla
  <1>8. CASE PasoConexion
    <2>1. UNCHANGED varsDeConsola
      BY <1>8 DEF PasoConexion
    <2>2. UNCHANGED <<consola, a_consola, a_kernel, por_aceptar, atiende, pc_acepta,
                      crear_pcbs>>
      BY <2>1 DEF varsDeConsola, consolas, hiloConsola
    <2>3. \A t \in Consolas : razon[t] # Nada => razon'[t] # Nada
      <3>1. \/ UNCHANGED razon
            \/ \E p : razon' = [razon EXCEPT ![p] = "SUCCESS"]
            \/ \E p : razon' = [razon EXCEPT ![p] = "OUT_OF_MEMORY"]
        BY <1>8 DEF PasoConexion, Memoria, AceptarKernel, Atender, CrearPCBDe, CrearPCB,
             PedirSegmento0, RecibirSegmento0, Recibir, RecibirSinSocket, HiloGeneral,
             Conectar, Saludar, PedirSegmento, EXIT, terminar_consola, SeguirPidiendo,
             SinMemoria, FinDeInstruccion, kernel, procesos
      <3> QED BY <3>1 DEF Tipos, Nada
    <2>4. \A t \in Consolas : DeUna(t)'
      BY <1>1, <2>2, <2>3 DEF Saludado
    <2> QED BY <2>2, <2>4 DEF Charla
  <1> QED BY <1>3, <1>4, <1>6, <1>7, <1>8 DEF NextS, HiloConsola

ConsolasInv == Contado /\ Procesos /\ Charla

LEMMA InicioConsolas == InitS => ConsolasInv
  <1> SUFFICES ASSUME InitS PROVE ConsolasInv
    OBVIOUS
  <1>1. Init
    BY DEF InitS
  <1>2. Procesos
    BY <1>1, ConexionMemoriaAssumption DEF InitS, Init, Procesos, Hilos, Pedidos, Nada
  <1>3. Charla
    BY <1>1 DEF InitS, Charla, Saludado, Nada
  <1> QED BY <1>1, <1>2, <1>3, InicioContado DEF ConsolasInv

LEMMA PasoConsolas == ConsolasInv /\ [NextS]_varsS => ConsolasInv'
  <1>1. ASSUME ConsolasInv, [NextS]_varsS
        PROVE  Contado' /\ Tipos /\ Tipos'
    BY <1>1, PasoSContado DEF ConsolasInv, Contado, TypeOK
  <1>2. ASSUME ConsolasInv, NextS
        PROVE  ConsolasInv'
    BY <1>1, <1>2, PasoProcesos, PasoCharla DEF ConsolasInv
  <1>3. ASSUME ConsolasInv, UNCHANGED varsS
        PROVE  ConsolasInv'
    <2>1. Procesos' /\ Charla'
      BY <1>3 DEF ConsolasInv, Procesos, Charla, Saludado, varsS, vars, kernel, procesos,
         varsDeConsola, consolas, hiloConsola
    <2> QED BY <1>1, <1>3, <2>1 DEF ConsolasInv
  <1> QED BY <1>2, <1>3

\* What the console sent is what its process is made from: its own script, packed
\* and unpacked, and never another's.
GuionPropio ==
  /\ archivo \in [Consolas -> UNION {Guiones[t] : t \in Consolas}]
  /\ recibido = [t \in Consolas |-> recibido[t]]
  /\ \A t \in Consolas :
       /\ archivo[t] \in Guiones[t]
       /\ consola[t] \in {"espera_fin", "termino"} =>
            /\ archivo[t] # NoExiste
            /\ a_kernel[t] \in {<<>>, <<[header |-> "INSTRUCCIONES",
                                         buffer |-> Empaquetar(archivo[t])]>>}
       /\ t \in crear_pcbs =>
            /\ recibido[t] = Desempaquetar(Empaquetar(archivo[t]))
            /\ recibido[t][Len(recibido[t])] # Agotado

LEMMA PasoGuionPropio ==
  ASSUME Charla, GuionPropio, [NextS]_varsS
  PROVE  GuionPropio'
  <1>1. \A x : Tail(<<x>>) = <<>> /\ Append(<<>>, x) = <<x>> /\ Head(<<x>>) = x
    OBVIOUS
  \* Steps that neither send a script nor read one.
  <1>2. ASSUME UNCHANGED <<archivo, recibido, crear_pcbs>>,
               \A t \in Consolas : consola'[t] \in {"espera_fin", "termino"} =>
                 /\ consola[t] \in {"espera_fin", "termino"}
                 /\ \/ a_kernel'[t] = a_kernel[t]
                    \/ a_kernel'[t] = Tail(a_kernel[t]) /\ a_kernel[t] # <<>>
        PROVE  GuionPropio'
    BY <1>1, <1>2 DEF GuionPropio
  <1>3. CASE UNCHANGED varsS \/ PasoConexion \/ Aceptar
    <2>1. UNCHANGED <<archivo, recibido, crear_pcbs, consola, a_kernel>>
      BY <1>3 DEF varsS, varsDeConsola, consolas, hiloConsola, PasoConexion, Aceptar
    <2> QED BY <1>2, <2>1
  <1>4. CASE ResponderHandshake
    <2>1. /\ UNCHANGED <<archivo, recibido, crear_pcbs, consola>>
          /\ a_kernel[atiende] # <<>> /\ pc_acepta = "handshake"
          /\ a_kernel' = [a_kernel EXCEPT ![atiende] = Tail(a_kernel[atiende])]
      BY <1>4 DEF ResponderHandshake
    <2>2. \A t \in Consolas :
            a_kernel'[t] = IF t = atiende THEN Tail(a_kernel[t]) ELSE a_kernel[t]
      BY <2>1 DEF Charla
    <2> QED BY <1>2, <2>1, <2>2
  <1>5. CASE RecibirInstrucciones
    <2>1. /\ UNCHANGED <<archivo, consola>>
          /\ a_kernel[atiende] # <<>> /\ pc_acepta = "instrucciones"
          /\ a_kernel' = [a_kernel EXCEPT ![atiende] = Tail(a_kernel[atiende])]
      BY <1>5 DEF RecibirInstrucciones, consolas
    <2>2. PICK c \in Consolas : c = atiende /\ Saludado(c)
      BY <2>1 DEF Charla, Saludado
    <2>3. \A t \in Consolas :
            a_kernel'[t] = IF t = c THEN Tail(a_kernel[t]) ELSE a_kernel[t]
      BY <2>1, <2>2 DEF Charla
    <2>4. CASE UNCHANGED <<crear_pcbs, recibido>>
      BY <1>2, <2>1, <2>2, <2>3, <2>4
    <2>5. CASE ~UNCHANGED <<crear_pcbs, recibido>>
      <3>1. PICK instrucciones :
              /\ instrucciones = Desempaquetar(Head(a_kernel[c]).buffer)
              /\ Agotado # instrucciones[Len(instrucciones)]
              /\ crear_pcbs' = crear_pcbs \cup {c}
              /\ recibido' = [recibido EXCEPT ![c] = instrucciones]
        BY <1>5, <2>2, <2>5 DEF RecibirInstrucciones
      <3>2. consola[c] \in {"espera_fin", "termino"}
        <4>1. consola[c] \in {"espera_fin", "termino", "aborto"}
          BY <2>1, <2>2 DEF Charla
        <4>2. ASSUME consola[c] = "aborto"
              PROVE  FALSE
          <5>1. a_kernel[c] = <<[header |-> "cierre", buffer |-> <<>>]>>
            BY <2>1, <2>2, <4>2 DEF Charla
          <5>2. Head(a_kernel[c]).buffer = <<>>
            BY <1>1, <5>1
          <5>3. <<Agotado>>[Len(<<Agotado>>)] = Agotado
            OBVIOUS
          <5> QED BY <3>1, <5>2, <5>3, BufferVacio
        <4> QED BY <4>1, <4>2
      <3>3. a_kernel[c] = <<[header |-> "INSTRUCCIONES",
                             buffer |-> Empaquetar(archivo[c])]>>
        BY <2>1, <2>2, <3>2 DEF GuionPropio
      <3>4. instrucciones = Desempaquetar(Empaquetar(archivo[c]))
        BY <1>1, <3>1, <3>3
      <3>5. /\ recibido'[c] = instrucciones
            /\ \A t \in Consolas : t # c => recibido'[t] = recibido[t]
            /\ recibido' = [t \in Consolas |-> recibido'[t]]
        BY <3>1 DEF GuionPropio
      <3>6. a_kernel'[c] = <<>>
        BY <1>1, <2>3, <3>3
      <3> QED BY <2>1, <2>3, <3>1, <3>2, <3>4, <3>5, <3>6 DEF GuionPropio
    <2> QED BY <2>4, <2>5
  <1>6. ASSUME NEW t \in Consolas, Consola(t)
        PROVE  GuionPropio'
    <2>1. UNCHANGED <<archivo, recibido, crear_pcbs>>
      BY <1>6 DEF Consola, ConectarConsola, EnviarHandshake, RecibirHandshake,
                  EnviarInstrucciones, Abortar, RecibirFin, hiloConsola
    <2>2. CASE ConectarConsola(t) \/ RecibirHandshake(t) \/ RecibirFin(t)
      <3>1. /\ UNCHANGED a_kernel
            /\ \E x \in {"saluda", "lee_guion", "termino"} :
                 /\ consola' = [consola EXCEPT ![t] = x]
                 /\ x = "termino" => consola[t] = "espera_fin"
        BY <2>2 DEF ConectarConsola, RecibirHandshake, RecibirFin
      <3> QED BY <1>2, <2>1, <3>1 DEF Charla
    <2>3. CASE EnviarHandshake(t) \/ Abortar(t)
      <3>1. /\ \E x : a_kernel' = [a_kernel EXCEPT ![t] = x]
            /\ \E x \in {"espera_saludo", "aborto"} : consola' = [consola EXCEPT ![t] = x]
        BY <2>3 DEF EnviarHandshake, Abortar, Enviando
      <3> QED BY <1>2, <2>1, <3>1 DEF Charla
    <2>4. CASE EnviarInstrucciones(t)
      <3>1. /\ consola[t] = "lee_guion" /\ archivo[t] # NoExiste
            /\ consola' = [consola EXCEPT ![t] = "espera_fin"]
            /\ a_kernel' = [a_kernel EXCEPT ![t] = Append(a_kernel[t],
                 [header |-> "INSTRUCCIONES", buffer |-> Empaquetar(archivo[t])])]
        BY <2>4 DEF EnviarInstrucciones, Enviando
      <3>2. a_kernel[t] = <<>>
        BY <3>1 DEF Charla
      <3>3. /\ a_kernel'[t] = <<[header |-> "INSTRUCCIONES",
                                 buffer |-> Empaquetar(archivo[t])]>>
            /\ \A u \in Consolas : u # t =>
                 a_kernel'[u] = a_kernel[u] /\ consola'[u] = consola[u]
        BY <1>1, <3>1, <3>2 DEF Charla
      <3> QED BY <2>1, <3>1, <3>3 DEF GuionPropio
    <2> QED BY <1>6, <2>2, <2>3, <2>4 DEF Consola
  <1> QED BY <1>3, <1>4, <1>5, <1>6 DEF NextS, HiloConsola

(* As long as the two ends agree on each script by itself, every process   *)
(* has the instructions of the script its own console sent, whatever the   *)
(* order in which consoles connect, send and are attended                  *)
(* (consola.c:100, hilo_consola.c:60).                                     *)
THEOREM GuionDeCadaConsola ==
  ASSUME GuionesSeEntienden
  PROVE  SpecS => []GuionEntero
  <1>1. InitS => GuionPropio
    BY DEF InitS, GuionPropio
  <1>2. ConsolasInv /\ GuionPropio /\ [NextS]_varsS => GuionPropio'
    BY PasoGuionPropio DEF ConsolasInv
  <1>3. ConsolasInv /\ GuionPropio => GuionEntero
    <2> SUFFICES ASSUME ConsolasInv, GuionPropio, NEW t \in crear_pcbs
                 PROVE  recibido[t] = HastaEXIT(archivo[t])
      BY DEF GuionEntero
    <2>1. t \in Consolas /\ consola[t] \in {"espera_fin", "termino"}
      BY DEF ConsolasInv, Charla
    <2>2. /\ archivo[t] \in Guiones[t] \ {NoExiste}
          /\ recibido[t] = Desempaquetar(Empaquetar(archivo[t]))
          /\ recibido[t][Len(recibido[t])] # Agotado
      BY <2>1 DEF GuionPropio
    <2> QED BY <2>1, <2>2, GuionesSeEntienden DEF GuionesSeEntienden
  <1> QED BY <1>1, <1>2, <1>3, InicioConsolas, PasoConsolas, PTL DEF SpecS

-----------------------------------------------------------------------------
(* A console is told the end of its process once its process has been made *)
(* from the script it sent, and hilo_general goes on with another only     *)
(* after memory has nothing left of a process whose console has ended      *)
(* (consola.c:35, hilo_consola.c:27, hilo_general.c terminar_consola).     *)
THEOREM FinDeConsolas == SpecS => []FinDeCadaUna
  <1>1. ConsolasInv => FinDeCadaUna
    <2> SUFFICES ASSUME ConsolasInv, NEW t \in Consolas
                 PROVE  /\ razon[t] # Nada =>
                             /\ t \in crear_pcbs
                             /\ pc[t] = "creado"
                             /\ consola[t] \in {"espera_fin", "termino"}
                        /\ (consola[t] = "termino" /\ pc[General] = "libre")
                             => t \notin en_ram
      BY DEF FinDeCadaUna
    <2>1. Tipos /\ Procesos /\ Charla
      BY DEF ConsolasInv, Contado, TypeOK
    <2>2. pc[General] = "libre" => pide[General] = Nada
      BY <2>1 DEF Tipos, EnIntercambio, Hilos
    <2> QED BY <2>1, <2>2 DEF Procesos, Charla, Nada
  <1> QED BY <1>1, InicioConsolas, PasoConsolas, PTL DEF SpecS

(* With the consoles attended one at a time, each thread of the kernel     *)
(* still reads the answer to its own request while no exchange overlaps    *)
(* another (hilo_consola.c:234).                                           *)
THEOREM CadaUnoLaSuyaConConsolas == SpecS => []SinSolaparCadaUnoLaSuya
  <1>1. IInv => SinSolaparCadaUnoLaSuya
    BY DEF IInv, EnTurno, Orden, UnoPorVez, Etapas, SinSolaparCadaUnoLaSuya,
           RespuestaPropia, EnIntercambio
  <1>2. InitS => IInv
    BY InicioIInv DEF InitS
  <1> QED BY <1>1, <1>2, PasoSIInv, PTL DEF SpecS

(* And the answers memory owes are still those that are waited for,        *)
(* whatever the consoles do.                                               *)
THEOREM UnaRespuestaConConsolas == SpecS => []UnaRespuestaPorPedido
  <1>1. Contado => UnaRespuestaPorPedido
    <2>1. EnHeader = {t \in Hilos : pc[t] = "header"}
      BY DEF EnHeader
    <2> QED BY <2>1 DEF Contado, Cuenta, Empezada, UnaRespuestaPorPedido
  <1>2. InitS => Contado
    BY InicioContado DEF InitS
  <1> QED BY <1>1, <1>2, PasoSContado, PTL DEF SpecS
=============================================================================

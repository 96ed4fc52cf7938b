------------------------------ MODULE Consolas ------------------------------
(***************************************************************************)
(* The consoles and the kernel's thread that listens to them.  A console   *)
(* connects, shakes hands, sends its script and waits for the end of its   *)
(* process; crear_hilo_consola accepts one console at a time, reads its    *)
(* handshake and its script, and starts a crear_pcb thread for it.         *)
(* Composes with the connection to memory of module ConexionMemoria: a     *)
(* crear_pcb thread is there only once its script has been read.  What the *)
(* script is like in between is in module Guion.                           *)
(***************************************************************************)
EXTENDS ConexionMemoria, Guion

CONSTANTS
  Guiones,   \* the scripts each console may be given
  NoExiste   \* the script is not there

ASSUME ConsolasAssumption == DOMAIN Guiones = Consolas

VARIABLES
  consola,      \* where each console stands
  por_aceptar,  \* connections the kernel has not accepted
  atiende,      \* the console that crear_hilo_consola attends
  pc_acepta,    \* where crear_hilo_consola stands
  a_kernel,     \* what each console has sent
  a_consola,    \* what crear_hilo_consola has sent to each console
  crear_pcbs,   \* the crear_pcb threads started
  archivo,      \* the script of each console
  recibido      \* the instructions each crear_pcb thread was given

consolas == <<consola, a_consola, archivo>>
hiloConsola == <<atiende, pc_acepta, crear_pcbs, recibido>>
varsDeConsola == <<consolas, hiloConsola, por_aceptar, a_kernel>>
varsS == <<vars, varsDeConsola>>

InitS ==
  /\ Init
  /\ consola = [t \in Consolas |-> "sin_lanzar"]
  /\ por_aceptar = <<>>
  /\ atiende = Nada
  /\ pc_acepta = "acepta"
  /\ a_kernel = [t \in Consolas |-> <<>>]
  /\ a_consola = [t \in Consolas |-> <<>>]
  /\ crear_pcbs = {}
  /\ archivo \in [Consolas -> UNION {Guiones[t] : t \in Consolas}]
  /\ \A t \in Consolas : archivo[t] \in Guiones[t]
  /\ recibido = [t \in Consolas |-> <<>>]

-----------------------------------------------------------------------------
(* consola.c: main.                                                        *)

Enviando(t, mensaje) == a_kernel' = [a_kernel EXCEPT ![t] = Append(@, mensaje)]

\* crear_conexion: the kernel has been listening since it started.
ConectarConsola(t) ==
  /\ consola[t] = "sin_lanzar"
  /\ consola' = [consola EXCEPT ![t] = "saluda"]
  /\ por_aceptar' = Append(por_aceptar, t)
  /\ UNCHANGED <<vars, hiloConsola, a_kernel, a_consola, archivo>>

EnviarHandshake(t) ==
  /\ consola[t] = "saluda"
  /\ consola' = [consola EXCEPT ![t] = "espera_saludo"]
  /\ Enviando(t, [header |-> "HANDSHAKE_consola", buffer |-> <<>>])
  /\ UNCHANGED <<vars, hiloConsola, por_aceptar, a_consola, archivo>>

RecibirHandshake(t) ==
  /\ consola[t] = "espera_saludo"
  /\ a_consola[t] # <<>>
  /\ a_consola' = [a_consola EXCEPT ![t] = Tail(@)]
  /\ consola' = [consola EXCEPT ![t] = "lee_guion"]
  /\ UNCHANGED <<vars, hiloConsola, por_aceptar, a_kernel, archivo>>

\* The file is opened after the handshake.
EnviarInstrucciones(t) ==
  /\ consola[t] = "lee_guion"
  /\ archivo[t] # NoExiste
  /\ consola' = [consola EXCEPT ![t] = "espera_fin"]
  /\ Enviando(t, [header |-> "INSTRUCCIONES", buffer |-> Empaquetar(archivo[t])])
  /\ UNCHANGED <<vars, hiloConsola, por_aceptar, a_consola, archivo>>

\* exit(1) in agregarInstruccionesDesdeArchivo: the kernel reads the end of the
\* connection, which leaves its buffer empty.
Abortar(t) ==
  /\ consola[t] = "lee_guion"
  /\ archivo[t] = NoExiste
  /\ consola' = [consola EXCEPT ![t] = "aborto"]
  /\ Enviando(t, [header |-> "cierre", buffer |-> <<>>])
  /\ UNCHANGED <<vars, hiloConsola, por_aceptar, a_consola, archivo>>

\* recibir_fin_desde_kernel.
RecibirFin(t) ==
  /\ consola[t] = "espera_fin"
  /\ razon[t] # Nada
  /\ consola' = [consola EXCEPT ![t] = "termino"]
  /\ UNCHANGED <<vars, hiloConsola, por_aceptar, a_kernel, a_consola, archivo>>

Consola(t) ==
  \/ ConectarConsola(t) \/ EnviarHandshake(t) \/ RecibirHandshake(t)
  \/ EnviarInstrucciones(t) \/ Abortar(t) \/ RecibirFin(t)

-----------------------------------------------------------------------------
(* hilo_consola.c: crear_hilo_consola.                                     *)

\* esperar_cliente.
Aceptar ==
  /\ pc_acepta = "acepta"
  /\ por_aceptar # <<>>
  /\ atiende' = Head(por_aceptar)
  /\ por_aceptar' = Tail(por_aceptar)
  /\ pc_acepta' = "handshake"
  /\ UNCHANGED <<vars, consolas, a_kernel, crear_pcbs, recibido>>

\* crear_hilo_consola that goes back to accept before it answers.
ResponderHandshake_SinRespuesta ==
  /\ pc_acepta = "handshake"
  /\ a_kernel[atiende] # <<>>
  /\ a_kernel' = [a_kernel EXCEPT ![atiende] = Tail(@)]
  /\ pc_acepta' = "instrucciones"
  /\ UNCHANGED <<vars, consolas, por_aceptar, atiende, crear_pcbs, recibido>>

\* Only consoles connect to this port, so the handshake is theirs.
ResponderHandshake ==
  /\ pc_acepta = "handshake"
  /\ a_kernel[atiende] # <<>>
  /\ a_kernel' = [a_kernel EXCEPT ![atiende] = Tail(@)]
  /\ a_consola' = [a_consola EXCEPT ![atiende] = Append(@, "HANDSHAKE_ok_continue")]
  /\ pc_acepta' = "instrucciones"
  /\ UNCHANGED <<vars, consola, archivo, por_aceptar, atiende, crear_pcbs, recibido>>

\* One t_datosCrearPCB for all the threads: each console's script lands in the
\* earlier ones'.
RecibirInstrucciones_UnSoloDatos ==
  /\ pc_acepta = "instrucciones"
  /\ a_kernel[atiende] # <<>>
  /\ a_kernel' = [a_kernel EXCEPT ![atiende] = Tail(@)]
  /\ LET instrucciones == Desempaquetar(Head(a_kernel[atiende]).buffer) IN
       IF Agotado = instrucciones[Len(instrucciones)]
         THEN /\ estado' = "sin_guion"
              /\ UNCHANGED <<crear_pcbs, recibido, pc_acepta, atiende>>
         ELSE /\ crear_pcbs' = crear_pcbs \cup {atiende}
              /\ recibido' = [t \in Consolas |-> IF t \in crear_pcbs' THEN instrucciones
                                                ELSE recibido[t]]
              /\ pc_acepta' = "acepta"
              /\ atiende' = Nada
              /\ UNCHANGED estado
  /\ UNCHANGED <<kernel, memoria, socket, historia, consolas, por_aceptar>>

\* recibir_instruciones_desde_consola: a script with no EXIT, or an empty buffer,
\* ends the whole kernel.  The header is only looked at to log it.
RecibirInstrucciones ==
  /\ pc_acepta = "instrucciones"
  /\ a_kernel[atiende] # <<>>
  /\ a_kernel' = [a_kernel EXCEPT ![atiende] = Tail(@)]
  /\ LET instrucciones == Desempaquetar(Head(a_kernel[atiende]).buffer) IN
       IF Agotado = instrucciones[Len(instrucciones)]
         THEN /\ estado' = "sin_guion"
              /\ UNCHANGED <<crear_pcbs, recibido, pc_acepta, atiende>>
         ELSE /\ crear_pcbs' = crear_pcbs \cup {atiende}
              /\ recibido' = [recibido EXCEPT ![atiende] = instrucciones]
              /\ pc_acepta' = "acepta"
              /\ atiende' = Nada
              /\ UNCHANGED estado
  /\ UNCHANGED <<kernel, memoria, socket, historia, consolas, por_aceptar>>

HiloConsola == Aceptar \/ ResponderHandshake \/ RecibirInstrucciones

-----------------------------------------------------------------------------
\* A crear_pcb thread runs once it has been started.
CrearPCBDe(t) == t \in crear_pcbs /\ CrearPCB(t)

PasoConexion ==
  /\ \/ Memoria
     \/ \E t \in Consolas : CrearPCBDe(t)
     \/ HiloGeneral
  /\ UNCHANGED varsDeConsola

NextS ==
  /\ estado = "bien"
  /\ \/ PasoConexion
     \/ HiloConsola
     \/ \E t \in Consolas : Consola(t)

SpecS == InitS /\ [][NextS]_varsS

\* Every thread and program that has something to do is scheduled, and scripts
\* are finite: a process in memory comes to its EXIT.  No console has to be
\* started.
EquidadS ==
  /\ WF_varsS(estado = "bien" /\ Memoria /\ UNCHANGED varsDeConsola)
  /\ WF_varsS(estado = "bien" /\ HiloConsola)
  /\ \A t \in Consolas :
       /\ WF_varsS(estado = "bien" /\ CrearPCBDe(t) /\ UNCHANGED varsDeConsola)
       /\ WF_varsS(estado = "bien" /\ consola[t] # "sin_lanzar" /\ Consola(t))
       /\ SF_varsS(estado = "bien" /\ EXIT(t) /\ UNCHANGED varsDeConsola)
  /\ WF_varsS(/\ estado = "bien"
              /\ \/ Conectar \/ Saludar \/ Recibir(General)
                 \/ SeguirPidiendo \/ SinMemoria \/ FinDeInstruccion
              /\ UNCHANGED varsDeConsola)

FairSpecS == SpecS /\ EquidadS

-----------------------------------------------------------------------------
(* Properties.                                                             *)

TypeOKS ==
  /\ TypeOK
  /\ consola \in [Consolas -> {"sin_lanzar", "saluda", "espera_saludo",
                    "lee_guion", "espera_fin", "termino", "aborto"}]
  /\ por_aceptar \in Seq(Consolas)
  /\ atiende \in Consolas \cup {Nada}
  /\ pc_acepta \in {"acepta", "handshake", "instrucciones"}
  /\ \A t \in Consolas : \A i \in DOMAIN a_kernel[t] :
       a_kernel[t][i].header \in {"HANDSHAKE_consola", "INSTRUCCIONES", "cierre"}
  /\ a_consola \in [Consolas -> Seq({"HANDSHAKE_ok_continue"})]
  /\ crear_pcbs \subseteq Consolas
  /\ \A t \in Consolas :
       recibido[t] # <<>> <=> t \in crear_pcbs

\* What can leave a console without its end: the kernel or the connection is gone,
\* hilo_general waits for a context nobody has, or a console was read before the
\* kernel had its connection to memory.
SinKernel == estado # "bien" \/ pc[General] = "colgado" \/ temprano

\* A console that has connected is attended, its process is created and ends, and
\* the console is told so, however many consoles came before it, unless the kernel
\* is gone.
TodasTerminan ==
  \A t \in Consolas :
    consola[t] = "saluda" ~> consola[t] \in {"termino", "aborto"} \/ SinKernel

\* A console is told the end of its process once, after the process was created
\* with the script it sent, and memory keeps nothing of a process whose console
\* ended before hilo_general goes on with another.
FinDeCadaUna ==
  \A t \in Consolas :
    /\ razon[t] # Nada =>
         /\ t \in crear_pcbs
         /\ pc[t] = "creado"
         /\ consola[t] \in {"espera_fin", "termino"}
    /\ (consola[t] = "termino" /\ pc[General] = "libre") => t \notin en_ram

\* Every process has the instructions of the script of its console up to the
\* first EXIT, each with its own arguments: what consola.c packs, line by line, is
\* what hilo_consola.c unpacks, field by field.
GuionEntero ==
  \A t \in crear_pcbs : recibido[t] = HastaEXIT(archivo[t])

\* What GuionEntero asks of the scripts: the two ends agree on each of them.
GuionesSeEntienden ==
  \A t \in Consolas : \A guion \in Guiones[t] \ {NoExiste} :
    LET instrucciones == Desempaquetar(Empaquetar(guion)) IN
      \/ instrucciones[Len(instrucciones)] = Agotado
      \/ instrucciones = HastaEXIT(guion)

\* consola.c:108 aborts only the console when its script cannot be opened.
SoloAbortaLaConsola == estado # "sin_guion"
=============================================================================

----------------------------- MODULE CicloDeVida -----------------------------
(***************************************************************************)
(* What the kernel promises its consoles about processes, with no thread,  *)
(* semaphore or resource in sight: processes are admitted in the order     *)
(* they arrive and never more than Grado at a time, one of them runs, and  *)
(* the ready ones get the CPU in the order they became ready (FIFO).       *)
(***************************************************************************)
EXTENDS Naturals, Sequences, FiniteSets

CONSTANTS Procesos, Grado, Nadie

VARIABLES
  nuevos,      \* NEW: queue of arrivals
  listos,      \* READY: queue
  ejecuta,     \* EXEC: the running process or Nadie
  bloqueados,  \* BLOCKED, for whatever reason
  terminados   \* EXIT

estados == <<nuevos, listos, ejecuta, bloqueados, terminados>>

Elementos(cola) == {cola[i] : i \in DOMAIN cola}

Presentes ==
  Elementos(listos) \union bloqueados \union ({ejecuta} \ {Nadie})

Init ==
  /\ nuevos = <<>>
  /\ listos = <<>>
  /\ ejecuta = Nadie
  /\ bloqueados = {}
  /\ terminados = {}

Llegar(p) ==
  /\ p \notin Presentes \union Elementos(nuevos) \union terminados
  /\ nuevos' = Append(nuevos, p)
  /\ UNCHANGED <<listos, ejecuta, bloqueados, terminados>>

Admitir ==
  /\ nuevos # <<>>
  /\ Cardinality(Presentes) < Grado
  /\ nuevos' = Tail(nuevos)
  /\ listos' = Append(listos, Head(nuevos))
  /\ UNCHANGED <<ejecuta, bloqueados, terminados>>

Elegir ==
  /\ ejecuta = Nadie
  /\ listos # <<>>
  /\ ejecuta' = Head(listos)
  /\ listos' = Tail(listos)
  /\ UNCHANGED <<nuevos, bloqueados, terminados>>

Ceder ==
  /\ ejecuta # Nadie
  /\ listos' = Append(listos, ejecuta)
  /\ ejecuta' = Nadie
  /\ UNCHANGED <<nuevos, bloqueados, terminados>>

Bloquear ==
  /\ ejecuta # Nadie
  /\ bloqueados' = bloqueados \union {ejecuta}
  /\ ejecuta' = Nadie
  /\ UNCHANGED <<nuevos, listos, terminados>>

Despertar(p) ==
  /\ p \in bloqueados
  /\ bloqueados' = bloqueados \ {p}
  /\ listos' = Append(listos, p)
  /\ UNCHANGED <<nuevos, ejecuta, terminados>>

Terminar ==
  /\ ejecuta # Nadie
  /\ terminados' = terminados \union {ejecuta}
  /\ ejecuta' = Nadie
  /\ UNCHANGED <<nuevos, listos, bloqueados>>

Next ==
  \/ \E p \in Procesos : Llegar(p) \/ Despertar(p)
  \/ Admitir \/ Elegir \/ Ceder \/ Bloquear \/ Terminar

Promesa == Init /\ [][Next]_estados

\* A free slot is given to a waiting arrival and a free CPU to a ready process;
\* the running process does not keep the CPU for ever.
PromesaConProgreso ==
  /\ Promesa
  /\ WF_estados(Admitir)
  /\ WF_estados(Elegir)
  /\ WF_estados(Ceder \/ Bloquear \/ Terminar)
=============================================================================

---------------------------- MODULE ArchivosProofs ----------------------------
(* Proofs about the file instructions, the thread of the filesystem's      *)
(* answers and the wait of a compaction, for any number of processes and   *)
(* files, any scripts and any bounds.                                      *)
EXTENDS Compactacion, KernelProofs

-----------------------------------------------------------------------------
(* How many messages of a channel are of some kind.                        *)

Indices(s, T) == {i \in DOMAIN s : s[i] \in T}

Cuantos(s, T) == Cardinality(Indices(s, T))

LEMMA CuantosTipo ==
  ASSUME NEW S, NEW s \in Seq(S), NEW T
  PROVE  /\ IsFiniteSet(Indices(s, T))
         /\ Cuantos(s, T) \in Nat
         /\ Cuantos(s, T) = 0 <=> \A i \in DOMAIN s : s[i] \notin T
  <1>1. Indices(s, T) \subseteq 1 .. Len(s) /\ Len(s) \in Nat
    BY DEF Indices
  <1>2. IsFiniteSet(1 .. Len(s))
    BY <1>1, FS_Interval
  <1>3. IsFiniteSet(Indices(s, T))
    BY <1>1, <1>2, FS_Subset
  <1>4. Indices(s, T) = {} <=> \A i \in DOMAIN s : s[i] \notin T
    BY DEF Indices
  <1> QED BY <1>3, <1>4, FS_EmptySet, FS_CardinalityType DEF Cuantos

LEMMA CuantosVacia ==
  ASSUME NEW T
  PROVE  Cuantos(<<>>, T) = 0
  <1>1. Indices(<<>>, T) = {}
    BY DEF Indices
  <1> QED BY <1>1, FS_EmptySet DEF Cuantos

\* A message is sent.
LEMMA CuantosAgregar ==
  ASSUME NEW S, NEW s \in Seq(S), NEW m \in S, NEW T
  PROVE  Cuantos(Append(s, m), T) = Cuantos(s, T) + (IF m \in T THEN 1 ELSE 0)
  <1> DEFINE n == Len(s) + 1
  <1>1. /\ DOMAIN Append(s, m) = DOMAIN s \cup {n}
        /\ n \notin DOMAIN s
        /\ Append(s, m)[n] = m
        /\ \A i \in DOMAIN s : Append(s, m)[i] = s[i]
    OBVIOUS
  <1>2. IsFiniteSet(Indices(s, T)) /\ Cuantos(s, T) \in Nat
    BY CuantosTipo
  <1>3. CASE m \in T
    <2>1. Indices(Append(s, m), T) = Indices(s, T) \cup {n}
      BY <1>1, <1>3 DEF Indices
    <2>2. n \notin Indices(s, T)
      BY <1>1 DEF Indices
    <2> HIDE DEF n
    <2> QED BY <1>2, <1>3, <2>1, <2>2, FS_AddElement DEF Cuantos
  <1>4. CASE m \notin T
    <2>1. Indices(Append(s, m), T) = Indices(s, T)
      BY <1>1, <1>4 DEF Indices
    <2> QED BY <1>2, <1>4, <2>1 DEF Cuantos
  <1> QED BY <1>3, <1>4

\* A message is received.
LEMMA CuantosSacar ==
  ASSUME NEW S, NEW s \in Seq(S), s # <<>>, NEW T
  PROVE  Cuantos(Tail(s), T) = Cuantos(s, T) - (IF Head(s) \in T THEN 1 ELSE 0)
  <1> DEFINE resto == Indices(s, T) \ {1}
  <1>1. /\ Tail(s) \in Seq(S)
        /\ Len(s) \in Nat \ {0}
        /\ Len(Tail(s)) = Len(s) - 1
        /\ \A i \in 1 .. Len(Tail(s)) : Tail(s)[i] = s[i + 1]
        /\ Head(s) = s[1]
    OBVIOUS
  <1>2. ExistsBijection(Indices(Tail(s), T), resto)
    <2> DEFINE f == [i \in Indices(Tail(s), T) |-> i + 1]
    <2>1. f \in [Indices(Tail(s), T) -> resto]
      BY <1>1 DEF Indices
    <2>2. \A a, b \in Indices(Tail(s), T) : f[a] = f[b] => a = b
      BY <1>1 DEF Indices
    <2>3. \A k \in resto : \E i \in Indices(Tail(s), T) : f[i] = k
      <3> TAKE k \in resto
      <3>1. k \in 2 .. Len(s) /\ s[k] \in T
        BY <1>1 DEF Indices
      <3>2. k - 1 \in Indices(Tail(s), T)
        BY <1>1, <3>1 DEF Indices
      <3> QED BY <3>1, <3>2
    <2> HIDE DEF f, resto
    <2> QED BY <2>1, <2>2, <2>3, Fun_IsBij DEF ExistsBijection
  <1>3. /\ IsFiniteSet(Indices(s, T)) /\ IsFiniteSet(Indices(Tail(s), T))
        /\ Cuantos(s, T) \in Nat
    BY <1>1, CuantosTipo
  <1>4. Cuantos(Tail(s), T) = Cardinality(resto)
    BY <1>2, <1>3, FS_Bijection DEF Cuantos
  <1>5. 1 \in Indices(s, T) <=> Head(s) \in T
    BY <1>1 DEF Indices
  <1>6. Cardinality(resto) = IF Head(s) \in T THEN Cuantos(s, T) - 1 ELSE Cuantos(s, T)
    BY <1>3, <1>5, FS_RemoveElement DEF Cuantos
  <1> QED BY <1>3, <1>4, <1>6

-----------------------------------------------------------------------------
(* The entries of the file queues.                                         *)

Colas == [NombresDeArchivo -> Seq(Procesos)]

\* Entradas of any family of queues.
EntradasDe(c, T) ==
  {x \in UNION {{f} \X DOMAIN c[f] : f \in NombresDeArchivo} : c[x[1]][x[2]] \in T}

LEMMA EntradasSon ==
  /\ \A T : Entradas(T) = EntradasDe(lista_block_archivo, T)
  /\ \A T : Entradas(T)' = EntradasDe(lista_block_archivo', T)
  BY DEF Entradas, EntradasDe

LEMMA EntradaEs ==
  ASSUME NEW c \in Colas, NEW T
  PROVE  /\ \A f \in NombresDeArchivo : \A i :
              <<f, i>> \in EntradasDe(c, T) <=> i \in 1 .. Len(c[f]) /\ c[f][i] \in T
         /\ \A x \in EntradasDe(c, T) :
              /\ x = <<x[1], x[2]>>
              /\ x[1] \in NombresDeArchivo
              /\ x[2] \in 1 .. Len(c[x[1]])
              /\ c[x[1]][x[2]] \in T
  <1>1. \A f \in NombresDeArchivo : DOMAIN c[f] = 1 .. Len(c[f])
    BY DEF Colas
  <1>2. ASSUME NEW x \in EntradasDe(c, T)
        PROVE  /\ x = <<x[1], x[2]>>
               /\ x[1] \in NombresDeArchivo
               /\ x[2] \in 1 .. Len(c[x[1]])
               /\ c[x[1]][x[2]] \in T
    <2>1. PICK g \in NombresDeArchivo : x \in {g} \X DOMAIN c[g]
      BY DEF EntradasDe
    <2>2. x = <<x[1], x[2]>> /\ x[1] = g /\ x[2] \in DOMAIN c[g]
      BY <2>1
    <2>3. c[x[1]][x[2]] \in T
      BY DEF EntradasDe
    <2> QED BY <1>1, <2>2, <2>3
  <1>3. ASSUME NEW f \in NombresDeArchivo, NEW i
        PROVE  <<f, i>> \in EntradasDe(c, T) <=> i \in 1 .. Len(c[f]) /\ c[f][i] \in T
    <2>1. ASSUME i \in 1 .. Len(c[f]), c[f][i] \in T
          PROVE  <<f, i>> \in EntradasDe(c, T)
      <3>1. <<f, i>> \in {f} \X DOMAIN c[f]
        BY <1>1, <2>1
      <3>2. <<f, i>> \in UNION {{g} \X DOMAIN c[g] : g \in NombresDeArchivo}
        BY <3>1
      <3> QED BY <2>1, <3>2 DEF EntradasDe
    <2>2. ASSUME <<f, i>> \in EntradasDe(c, T)
          PROVE  i \in 1 .. Len(c[f]) /\ c[f][i] \in T
      <3> DEFINE x == <<f, i>>
      <3>1. x[1] = f /\ x[2] = i
        OBVIOUS
      <3> HIDE DEF x
      <3> QED BY <1>2, <2>2, <3>1 DEF x
    <2> QED BY <2>1, <2>2
  <1> QED BY <1>2, <1>3

LEMMA EntradasFinitas ==
  ASSUME NEW c \in Colas, NEW T
  PROVE  /\ IsFiniteSet(EntradasDe(c, T))
         /\ Cardinality(EntradasDe(c, T)) \in Nat
  <1> DEFINE Pares(f) == {f} \X DOMAIN c[f]
             Todas == {Pares(f) : f \in NombresDeArchivo}
  <1>1. ASSUME NEW f \in NombresDeArchivo
        PROVE  IsFiniteSet(Pares(f))
    <2>1. DOMAIN c[f] = 1 .. Len(c[f]) /\ Len(c[f]) \in Nat
      BY DEF Colas
    <2>2. IsFiniteSet(DOMAIN c[f])
      BY <2>1, FS_Interval
    <2> QED BY <2>2, FS_Singleton, FS_Product
  <1>2. IsFiniteSet(Todas)
    <2> DEFINE h == [f \in NombresDeArchivo |-> Pares(f)]
    <2>1. h \in Surjection(NombresDeArchivo, Todas)
      BY DEF Surjection
    <2> HIDE DEF h, Todas
    <2> QED BY <2>1, ArchivosAssumption, FS_Surjection
  <1>3. \A P \in Todas : IsFiniteSet(P)
    BY <1>1
  <1>4. IsFiniteSet(UNION Todas)
    BY <1>2, <1>3, FS_UNION
  <1>5. EntradasDe(c, T) \subseteq UNION Todas
    BY DEF EntradasDe
  <1> QED BY <1>4, <1>5, FS_Subset, FS_CardinalityType

LEMMA EntradasVacias ==
  ASSUME NEW T
  PROVE  Cardinality(EntradasDe([f \in NombresDeArchivo |-> <<>>], T)) = 0
  <1>1. EntradasDe([f \in NombresDeArchivo |-> <<>>], T) = {}
    BY DEF EntradasDe
  <1> QED BY <1>1, FS_EmptySet

ConUnoMas(c, f, p) == [c EXCEPT ![f] = Append(@, p)]
SinElPrimero(c, f) == [c EXCEPT ![f] = Tail(@)]

\* A process joins the queue of a file.
LEMMA EntradasAgregar ==
  ASSUME NEW c \in Colas, NEW f \in NombresDeArchivo, NEW p \in Procesos, NEW T
  PROVE  /\ ConUnoMas(c, f, p) \in Colas
         /\ Cardinality(EntradasDe(ConUnoMas(c, f, p), T)) =
              Cardinality(EntradasDe(c, T)) + (IF p \in T THEN 1 ELSE 0)
  <1> DEFINE d == ConUnoMas(c, f, p)
             n == Len(c[f]) + 1
             nueva == <<f, n>>
  <1>1. d \in Colas
    BY DEF Colas, ConUnoMas
  <1>2. /\ d[f] = Append(c[f], p) /\ c[f] \in Seq(Procesos)
        /\ \A g \in NombresDeArchivo : g # f => d[g] = c[g]
    BY DEF Colas, ConUnoMas
  <1> SUFFICES Cardinality(EntradasDe(d, T)) =
                 Cardinality(EntradasDe(c, T)) + (IF p \in T THEN 1 ELSE 0)
    BY <1>1
  <1> HIDE DEF d
  <1>3. /\ Len(d[f]) = n /\ d[f][n] = p /\ n \in Nat \ {0}
        /\ \A i \in 1 .. Len(c[f]) : d[f][i] = c[f][i]
    BY <1>2
  <1>4. n \notin 1 .. Len(c[f]) /\ 1 .. n = (1 .. Len(c[f])) \cup {n}
    BY <1>2
  <1> HIDE DEF n
  <1>5. ASSUME NEW g \in NombresDeArchivo, NEW i
        PROVE  <<g, i>> \in EntradasDe(d, T) <=>
                 \/ <<g, i>> \in EntradasDe(c, T)
                 \/ <<g, i>> = nueva /\ p \in T
    <2>1. /\ <<g, i>> \in EntradasDe(c, T) <=> i \in 1 .. Len(c[g]) /\ c[g][i] \in T
          /\ <<g, i>> \in EntradasDe(d, T) <=> i \in 1 .. Len(d[g]) /\ d[g][i] \in T
      BY <1>1, EntradaEs
    <2>2. CASE g = f
      BY <1>3, <1>4, <2>1, <2>2
    <2>3. CASE g # f
      BY <1>2, <2>1, <2>3
    <2> QED BY <2>2, <2>3
  <1>6. EntradasDe(d, T) = EntradasDe(c, T) \cup (IF p \in T THEN {nueva} ELSE {})
    <2>1. ASSUME NEW x \in EntradasDe(d, T)
          PROVE  x \in EntradasDe(c, T) \cup (IF p \in T THEN {nueva} ELSE {})
      <3>1. x = <<x[1], x[2]>> /\ x[1] \in NombresDeArchivo
        BY <1>1, EntradaEs
      <3> HIDE DEF nueva
      <3>2. x \in EntradasDe(c, T) \/ (x = nueva /\ p \in T)
        BY <1>5, <3>1
      <3> QED BY <3>2
    <2>2. ASSUME NEW x \in EntradasDe(c, T)
          PROVE  x \in EntradasDe(d, T)
      <3>1. x = <<x[1], x[2]>> /\ x[1] \in NombresDeArchivo
        BY EntradaEs
      <3> HIDE DEF nueva
      <3> QED BY <1>5, <3>1
    <2>3. p \in T => nueva \in EntradasDe(d, T)
      BY <1>5
    <2> QED BY <2>1, <2>2, <2>3
  <1>7. nueva \notin EntradasDe(c, T)
    <2>1. nueva \in EntradasDe(c, T) => n \in 1 .. Len(c[f])
      BY EntradaEs
    <2> QED BY <1>4, <2>1
  <1> HIDE DEF nueva
  <1>8. IsFiniteSet(EntradasDe(c, T)) /\ Cardinality(EntradasDe(c, T)) \in Nat
    BY EntradasFinitas
  <1>9. CASE p \in T
    <2>1. EntradasDe(d, T) = EntradasDe(c, T) \cup {nueva}
      BY <1>6, <1>9
    <2>2. Cardinality(EntradasDe(d, T)) = Cardinality(EntradasDe(c, T)) + 1
      BY <1>7, <1>8, <2>1, FS_AddElement
    <2> QED BY <1>1, <1>9, <2>2
  <1>10. CASE p \notin T
    <2>1. EntradasDe(d, T) = EntradasDe(c, T)
      BY <1>6, <1>10
    <2> QED BY <1>1, <1>8, <1>10, <2>1
  <1> QED BY <1>9, <1>10

\* The first process leaves the queue of a file.
LEMMA EntradasSacar ==
  ASSUME NEW c \in Colas, NEW f \in NombresDeArchivo, c[f] # <<>>, NEW T
  PROVE  /\ SinElPrimero(c, f) \in Colas /\ Head(c[f]) \in Procesos
         /\ Cardinality(EntradasDe(SinElPrimero(c, f), T)) =
              Cardinality(EntradasDe(c, T)) - (IF Head(c[f]) \in T THEN 1 ELSE 0)
  <1> DEFINE d == SinElPrimero(c, f)
             primera == <<f, 1>>
             resto == EntradasDe(c, T) \ {primera}
             Sigue(x) == IF x[1] = f THEN <<f, x[2] + 1>> ELSE x
             b == [x \in EntradasDe(d, T) |-> Sigue(x)]
  <1>1. d \in Colas
    BY DEF Colas, SinElPrimero
  <1>2. /\ d[f] = Tail(c[f]) /\ c[f] \in Seq(Procesos)
        /\ \A g \in NombresDeArchivo : g # f => d[g] = c[g]
    BY DEF Colas, SinElPrimero
  <1> HIDE DEF d
  <1>3. /\ Head(c[f]) \in Procesos /\ Head(c[f]) = c[f][1]
        /\ Len(c[f]) \in Nat \ {0} /\ Len(d[f]) = Len(c[f]) - 1
        /\ \A i \in 1 .. Len(d[f]) : d[f][i] = c[f][i + 1]
    <2>1. \A s \in Seq(Procesos) : s # <<>> =>
            /\ Head(s) \in Procesos /\ Head(s) = s[1]
            /\ Len(s) \in Nat \ {0} /\ Len(Tail(s)) = Len(s) - 1
            /\ \A i \in 1 .. Len(Tail(s)) : Tail(s)[i] = s[i + 1]
      OBVIOUS
    <2> QED BY <1>2, <2>1
  <1>4. \A x \in EntradasDe(d, T) :
          /\ x = <<x[1], x[2]>> /\ x[1] \in NombresDeArchivo
          /\ x[2] \in 1 .. Len(d[x[1]]) /\ d[x[1]][x[2]] \in T
    BY <1>1, EntradaEs
  <1>5. ASSUME NEW x \in EntradasDe(d, T)
        PROVE  Sigue(x) \in resto
    <2>1. CASE x[1] = f
      <3>1. x[2] \in 1 .. Len(d[f]) /\ d[f][x[2]] \in T
        BY <1>4, <2>1
      <3>2. x[2] + 1 \in 1 .. Len(c[f]) /\ c[f][x[2] + 1] \in T /\ x[2] + 1 # 1
        BY <1>3, <3>1
      <3>3. <<f, x[2] + 1>> \in EntradasDe(c, T)
        BY <3>2, EntradaEs
      <3> QED BY <2>1, <3>2, <3>3
    <2>2. CASE x[1] # f
      <3>1. x[2] \in 1 .. Len(c[x[1]]) /\ c[x[1]][x[2]] \in T
        BY <1>2, <1>4, <2>2
      <3>2. <<x[1], x[2]>> \in EntradasDe(c, T)
        BY <1>4, <3>1, EntradaEs
      <3>3. x \in EntradasDe(c, T) /\ x # primera
        BY <1>4, <2>2, <3>2
      <3> QED BY <2>2, <3>3
    <2> QED BY <2>1, <2>2
  <1>6. ASSUME NEW x \in EntradasDe(d, T), NEW y \in EntradasDe(d, T), Sigue(x) = Sigue(y)
        PROVE  x = y
    <2>1. /\ x = <<x[1], x[2]>> /\ x[2] \in Nat
          /\ y = <<y[1], y[2]>> /\ y[2] \in Nat
      <3>1. \A n : \A i \in 1 .. n : i \in Nat
        OBVIOUS
      <3> QED BY <1>4, <3>1
    <2>2. CASE x[1] = f /\ y[1] = f
      <3>1. x[2] + 1 = y[2] + 1
        BY <1>6, <2>2
      <3> QED BY <2>1, <2>2, <3>1
    <2>3. CASE ~(x[1] = f /\ y[1] = f)
      BY <1>6, <2>1, <2>3
    <2> QED BY <2>2, <2>3
  <1>7. ASSUME NEW y \in resto
        PROVE  \E x \in EntradasDe(d, T) : Sigue(x) = y
    <2>1. /\ y = <<y[1], y[2]>> /\ y[1] \in NombresDeArchivo
          /\ y[2] \in 1 .. Len(c[y[1]]) /\ c[y[1]][y[2]] \in T
      BY EntradaEs
    <2>2. CASE y[1] = f
      <3>1. y[2] # 1
        BY <2>1, <2>2
      <3>2. y[2] - 1 \in 1 .. Len(d[f]) /\ d[f][y[2] - 1] \in T
        <4>1. y[2] \in 1 .. Len(c[f]) /\ c[f][y[2]] \in T
          BY <2>1, <2>2
        <4>2. y[2] - 1 \in 1 .. Len(d[f]) /\ (y[2] - 1) + 1 = y[2]
          BY <1>3, <3>1, <4>1
        <4> QED BY <1>3, <4>1, <4>2
      <3>3. <<f, y[2] - 1>> \in EntradasDe(d, T)
        BY <1>1, <3>2, EntradaEs
      <3>4. Sigue(<<f, y[2] - 1>>) = y
        BY <2>1, <2>2
      <3> QED BY <3>3, <3>4
    <2>3. CASE y[1] # f
      <3>1. <<y[1], y[2]>> \in EntradasDe(d, T)
        BY <1>1, <1>2, <2>1, <2>3, EntradaEs
      <3> QED BY <2>1, <2>3, <3>1
    <2> QED BY <2>2, <2>3
  <1>8. ExistsBijection(EntradasDe(d, T), resto)
    <2> HIDE DEF Sigue, resto
    <2>1. b \in [EntradasDe(d, T) -> resto]
      BY <1>5
    <2>2. \A x, y \in EntradasDe(d, T) : b[x] = b[y] => x = y
      BY <1>6
    <2>3. \A y \in resto : \E x \in EntradasDe(d, T) : b[x] = y
      BY <1>7
    <2> HIDE DEF b
    <2> QED BY <2>1, <2>2, <2>3, Fun_IsBij DEF ExistsBijection
  <1>9. IsFiniteSet(EntradasDe(c, T)) /\ IsFiniteSet(EntradasDe(d, T))
    BY <1>1, EntradasFinitas
  <1>10. Cardinality(EntradasDe(d, T)) = Cardinality(resto)
    BY <1>8, <1>9, FS_Bijection
  <1>11. primera \in EntradasDe(c, T) <=> Head(c[f]) \in T
    <2>1. 1 \in 1 .. Len(c[f])
      BY <1>3
    <2> QED BY <1>3, <2>1, EntradaEs
  <1> HIDE DEF primera
  <1>12. Cardinality(resto) = IF Head(c[f]) \in T THEN Cardinality(EntradasDe(c, T)) - 1
                                                 ELSE Cardinality(EntradasDe(c, T))
    BY <1>9, <1>11, FS_RemoveElement
  <1>13. Cardinality(EntradasDe(c, T)) \in Nat
    BY EntradasFinitas
  <1> QED BY <1>1, <1>3, <1>10, <1>12, <1>13 DEF d

-----------------------------------------------------------------------------
(* What the new steps do to the kernel's part of the state: hilo_general   *)
(* stops at one of its new waits, goes on, or a process leaves or joins    *)
(* LISTA_READY.                                                            *)

EsperasDelKernel == {"espera_pcb", "espera_cym", "espera_memoria"}

\* The steps of Kernel leave hilo_general at Kernel's waits, and cannot take it
\* out of another one.
LEMMA EsperasDeNext ==
  ASSUME [Next]_vars
  PROVE  \/ pc_general' = pc_general
         \/ pc_general \in EsperasDelKernel /\ pc_general' \in EsperasDelKernel
  BY DEF Next, Planificadores, Handler, crear_pcb, sleep_IO, EsperarNew,
     agregar_pcb_a_ready, EsperarReady, Despachar, EnviarContexto, FinDeTerminar,
     IO, YIELD, EXIT, SEG_FAULT, RecursoInexistente, terminar_consola, Devuelve,
     WaitConInstancias, WaitSinInstancias, SIGNAL, devolver_ce_a_cpu, LiberarCPU,
     hilos, vars, EsperasDelKernel

\* The running process and no other is in LISTA_EXEC, and the semaphore that
\* gives the CPU is taken.
LEMMA Ocupada ==
  ASSUME IInv, pc_general \notin {"espera_pcb", "espera_memoria"}
  PROVE  /\ pcb_ejecutando \in Procesos
         /\ LISTA_EXEC = <<pcb_ejecutando>>
         /\ Len(LISTA_EXEC) = 1
         /\ Tail(LISTA_EXEC) = <<>>
         /\ CPUVacia = 0 /\ pasar_pcb_a_CPU = 0
  <1>1. LISTA_EXEC \in Seq(Procesos) /\ Len(LISTA_EXEC) = 1
    BY DEF IInv, TiposDelKernel, ConProceso
  <1>2. LISTA_EXEC # <<>>
    <2>1. \A cola \in Seq(Procesos) : Len(cola) = 1 => cola # <<>>
      OBVIOUS
    <2> QED BY <1>1, <2>1
  <1>3. /\ pcb_ejecutando \in Procesos
        /\ LISTA_EXEC = <<pcb_ejecutando>>
        /\ Tail(LISTA_EXEC) = <<>>
    BY <1>1, <1>2, ColaUnitaria, SacarDeCola DEF pcb_ejecutando
  <1>4. CPUVacia = 0 /\ pasar_pcb_a_CPU = 0
    BY <1>1 DEF IInv, TiposDelKernel, CPUExclusiva, TestigoCPU
  <1> QED BY <1>1, <1>3, <1>4

\* Memory refuses a segment to the running process only.
LEMMA FaltaMemoriaCorre ==
  ASSUME IInv, NEW p \in Procesos, FaltaMemoria(p)
  PROVE  /\ Corre(p)
         /\ pc_general \in {"espera_cym", "compacta"}
  <1>1. pc_general \in {"espera_cym", "compacta"} /\ p = pcb_ejecutando
    BY DEF FaltaMemoria, Devuelve
  <1>2. LISTA_EXEC = <<p>>
    BY <1>1, Ocupada
  <1> QED BY <1>1, <1>2 DEF Corre

\* The running process leaves LISTA_EXEC for a file queue.
LEMMA IInvBloquea ==
  ASSUME IInv, pc_general \notin {"espera_pcb", "espera_memoria"},
         pcb_ejecutando_remove, LiberarCPU,
         UNCHANGED <<LISTA_NEW, LISTA_READY, LISTA_BLOCKED, LISTA_EXIT, CantPCBNew,
                     multiprogramacion, cantPCBReady, pasar_pcb_a_CPU, recursos,
                     consola, pc_largo, pc_corto>>
  PROVE  IInv'
  <1>1. /\ Len(LISTA_EXEC) = 1 /\ Tail(LISTA_EXEC) = <<>>
        /\ CPUVacia = 0 /\ pasar_pcb_a_CPU = 0
    BY Ocupada
  <1> USE DEF IInv, pcb_ejecutando_remove, LiberarCPU, recursos
  <1>2. TiposDelKernel'
    <2>1. <<>> \in Seq(Procesos)
      OBVIOUS
    <2>2. LISTA_EXEC' = <<>>
      BY <1>1
    <2>3. CPUVacia' \in Nat
      BY <1>1
    <2> HIDE DEF IInv, pcb_ejecutando_remove
    <2>4. LISTA_EXEC' \in Seq(Procesos)
      BY <2>1, <2>2
    <2> QED BY <2>3, <2>4 DEF IInv, TiposDelKernel
  <1>3. CPUExclusiva' /\ ConProceso'
    BY <1>1 DEF CPUExclusiva, TestigoCPU, ConProceso
  <1>4. ListasConPermiso'
    BY DEF ListasConPermiso, PermisosDeNew, PermisosDeReady
  <1> QED BY <1>2, <1>3, <1>4

\* hilo_general waits for something with the process in LISTA_EXEC.
LEMMA IInvEspera ==
  ASSUME IInv, pc_general \notin {"espera_pcb", "espera_memoria"},
         pc_general' \notin EsperasDelKernel, en_cpu' = Nadie,
         UNCHANGED <<listas, semaforos, recursos, consola, pc_largo, pc_corto>>
  PROVE  IInv'
  <1>1. Len(LISTA_EXEC) = 1 /\ CPUVacia = 0 /\ pasar_pcb_a_CPU = 0
    BY Ocupada
  <1> USE DEF IInv, listas, semaforos, recursos, EsperasDelKernel
  <1>2. TiposDelKernel'
    BY DEF TiposDelKernel
  <1>3. CPUExclusiva' /\ ConProceso'
    BY <1>1 DEF CPUExclusiva, TestigoCPU, ConProceso
  <1>4. ListasConPermiso'
    BY DEF ListasConPermiso, PermisosDeNew, PermisosDeReady
  <1> QED BY <1>2, <1>3, <1>4

\* The wait ends and the context goes back to the CPU.
LEMMA IInvSigue ==
  ASSUME IInv, pc_general \notin {"espera_pcb", "espera_memoria"},
         pc_general' = "espera_cym", en_cpu' = pcb_ejecutando,
         UNCHANGED <<listas, semaforos, recursos, consola, pc_largo, pc_corto>>
  PROVE  IInv'
  <1>1. /\ pcb_ejecutando \in Procesos /\ LISTA_EXEC = <<pcb_ejecutando>>
        /\ Len(LISTA_EXEC) = 1 /\ CPUVacia = 0 /\ pasar_pcb_a_CPU = 0
    BY Ocupada
  <1> USE DEF IInv, listas, semaforos, recursos
  <1>2. TiposDelKernel'
    BY <1>1 DEF TiposDelKernel
  <1>3. CPUExclusiva' /\ ConProceso'
    BY <1>1 DEF CPUExclusiva, TestigoCPU, ConProceso
  <1>4. ListasConPermiso'
    BY DEF ListasConPermiso, PermisosDeNew, PermisosDeReady
  <1> QED BY <1>2, <1>3, <1>4

\* A process that was blocked joins LISTA_READY.
LEMMA IInvListo ==
  ASSUME IInv, NEW q \in Procesos, pasar_a_ready(q),
         UNCHANGED <<LISTA_NEW, LISTA_EXEC, LISTA_BLOCKED, LISTA_EXIT, CantPCBNew,
                     multiprogramacion, CPUVacia, pasar_pcb_a_CPU, recursos, consola,
                     hilos, en_cpu>>
  PROVE  IInv'
  <1> USE DEF IInv, pasar_a_ready, recursos, hilos
  <1>1. TiposDelKernel'
    BY DEF TiposDelKernel
  <1>2. CPUExclusiva' /\ ConProceso'
    BY DEF CPUExclusiva, TestigoCPU, ConProceso
  <1>3. ListasConPermiso'
    BY DEF TiposDelKernel, ListasConPermiso, PermisosDeNew, PermisosDeReady
  <1> QED BY <1>1, <1>2, <1>3

-----------------------------------------------------------------------------
(* Types, and the opens in flight.                                         *)

Mensajes == [tipo : TiposDePedido, archivo : NombresDeArchivo, proc : Procesos]
Contestadas == [header : Headers, archivo : NombresDeArchivo, proc : Procesos]

Piden(T) == {m \in Mensajes : m.tipo \in T}
Contestan(H) == {m \in Contestadas : m.header \in H}

AperturasPedidas == Piden({"F_OPEN", "F_CREATE"})
AperturasContestadas == Contestan({"FS_OPEN_OK", "FS_OPEN_NO_OK", "FS_CREATE_OK"})

\* The opens that the filesystem has to answer, or that it has answered.
Abriendo == Cuantos(pedidos, AperturasPedidas)
              + Cuantos(respuestas, AperturasContestadas)

\* There is one while hilo_general waits on FS_Continue, and none otherwise: the
\* thread of the answers finds the process that opens in LISTA_EXEC.
Apertura == Abriendo = IF pc_general = "espera_fs" THEN 1 ELSE 0

\* The names that are dereferenced are names.
TiposA ==
  /\ TypeOKA
  /\ pc_fs \in {"espera_bloqueada", "desbloquea", "avisa"} =>
       resp.archivo \in NombresDeArchivo /\ resp.proc \in Procesos
  /\ pc_general = "bloquea_en_archivo" => archivo_en_curso \in NombresDeArchivo

\* Scripts that do not go beyond the end of a file get no FS_ERROR.
Errores == Contestan({"FS_ERROR"})

SinErrores == ~PuedeFallar => Cuantos(respuestas, Errores) = 0

IArchivos == IInv /\ TiposA /\ Apertura /\ OperacionesContadas /\ SinErrores

LEMMA CanalesTipo ==
  ASSUME TiposA
  PROVE  /\ pedidos \in Seq(Mensajes) /\ respuestas \in Seq(Contestadas)
         /\ Cuantos(pedidos, AperturasPedidas) \in Nat
         /\ Cuantos(respuestas, AperturasContestadas) \in Nat
  <1>1. pedidos \in Seq(Mensajes) /\ respuestas \in Seq(Contestadas)
    BY DEF TiposA, TypeOKA, Mensajes, Contestadas
  <1> QED BY <1>1, CuantosTipo

LEMMA Recibida ==
  ASSUME TiposA, NEW H, Recibe(H)
  PROVE  /\ respuestas # <<>>
         /\ Head(respuestas) \in Contestadas
         /\ Head(respuestas).header \in H
         /\ Head(respuestas).archivo \in NombresDeArchivo
         /\ Head(respuestas).proc \in Procesos
         /\ respuestas' = Tail(respuestas)
         /\ respuestas' \in Seq(Contestadas)
         /\ 1 \in DOMAIN respuestas /\ respuestas[1] = Head(respuestas)
  <1>1. /\ respuestas \in Seq(Contestadas) /\ respuestas # <<>>
        /\ Head(respuestas).header \in H /\ respuestas' = Tail(respuestas)
    BY CanalesTipo DEF Recibe
  <1>2. \A s \in Seq(Contestadas) : s # <<>> =>
          /\ Head(s) \in Contestadas /\ Tail(s) \in Seq(Contestadas)
          /\ 1 \in DOMAIN s /\ s[1] = Head(s)
    OBVIOUS
  <1>3. Head(respuestas) \in Contestadas
    BY <1>1, <1>2
  <1> QED BY <1>1, <1>2, <1>3 DEF Contestadas

\* The thread of the answers receives an open only while hilo_general waits for it.
LEMMA AbiertaEnEspera ==
  ASSUME TiposA, Apertura,
         Recibe({"FS_OPEN_OK", "FS_CREATE_OK"}) \/ Recibe({"FS_OPEN_NO_OK"})
  PROVE  pc_general = "espera_fs"
  <1>1. /\ 1 \in DOMAIN respuestas
        /\ respuestas[1] \in AperturasContestadas
    BY Recibida DEF AperturasContestadas, Contestan
  <1>2. Cuantos(respuestas, AperturasContestadas) # 0
    BY <1>1, CanalesTipo, CuantosTipo
  <1> QED BY <1>2, CanalesTipo DEF Apertura, Abriendo

\* Steps that leave the new variables alone, but where hilo_general is.
LEMMA MismosTipos ==
  ASSUME TiposA, UNCHANGED varsArchivos,
         pc_general' = "bloquea_en_archivo" => pc_general = "bloquea_en_archivo"
  PROVE  TiposA'
  BY DEF TiposA, TypeOKA, varsArchivos, tablas, compactacion, canales, hilo_fs

\* The file instructions.
LEMMA TiposDeInstrucciones ==
  ASSUME IInv, TiposA, NEW p \in Procesos, HandlerArchivo(p)
  PROVE  IInv' /\ TiposA'
  <1> USE DEF tablas, compactacion, canales, hilo_fs
  <1>1. PICK f \in Usa[p] :
          \/ FOpenEsperar(p, f)
          \/ FOpenPedir(p, f)
          \/ FClose(p, f)
          \/ \E op \in OperacionesES : PedirOperacion(p, f, op)
    BY DEF HandlerArchivo
  <1>2. f \in NombresDeArchivo
    BY ArchivosAssumption
  <1>3. Devuelve(p)
    BY <1>1 DEF FOpenEsperar, FOpenPedir, FClose, PedirOperacion
  <1>4. /\ p = pcb_ejecutando /\ en_cpu = p
        /\ pc_general = "espera_cym"
    BY <1>3, QuienEjecuta DEF Devuelve
  <1>5. pedidos \in Seq(Mensajes)
    BY CanalesTipo
  <1>6. CASE FOpenEsperar(p, f)
    <2>1. IInv'
      BY <1>4, <1>6, IInvBloquea DEF FOpenEsperar, pasar_a_blocked_de_archivo
    <2>2. TiposA'
      BY <1>2, <1>4, <1>6
      DEF FOpenEsperar, pasar_a_blocked_de_archivo, LiberarCPU, TiposA, TypeOKA
    <2> QED BY <2>1, <2>2
  <1>7. CASE FOpenPedir(p, f)
    <2>1. IInv'
      BY <1>4, <1>7, IInvEspera DEF FOpenPedir, EsperasDelKernel
    <2>2. pedidos' \in Seq(Mensajes)
      BY <1>2, <1>5, <1>7 DEF FOpenPedir, Pedido, Mensajes, TiposDePedido
    <2>3. TiposA'
      BY <1>7, <2>2 DEF FOpenPedir, TiposA, TypeOKA, Mensajes
    <2> QED BY <2>1, <2>3
  <1>8. CASE FClose(p, f)
    <2>1. en_cpu' = en_cpu /\ UNCHANGED hilos /\ CPUVacia' = CPUVacia
      BY <1>4, <1>8 DEF FClose, devolver_ce_a_cpu, hilos
    <2>2. CASE DesbloquearPrimero(f)
      <3>1. /\ lista_block_archivo[f] \in Seq(Procesos) /\ lista_block_archivo[f] # <<>>
            /\ pasar_a_ready(Head(lista_block_archivo[f]))
            /\ lista_block_archivo' = [lista_block_archivo EXCEPT ![f] = Tail(@)]
        BY <1>2, <2>2 DEF DesbloquearPrimero, TiposA, TypeOKA
      <3>2. /\ Head(lista_block_archivo[f]) \in Procesos
            /\ Tail(lista_block_archivo[f]) \in Seq(Procesos)
        BY <3>1, SacarDeCola
      <3>3. IInv'
        BY <1>8, <2>1, <3>1, <3>2, IInvListo DEF FClose
      <3>4. TiposA'
        BY <1>2, <1>8, <2>1, <2>2, <3>1, <3>2
        DEF FClose, DesbloquearPrimero, TiposA, TypeOKA, hilos
      <3> QED BY <3>3, <3>4
    <2>3. CASE quitarArchivoEnTGAA(f)
      <3>1. UNCHANGED vars
        BY <1>8, <2>1, <2>3
        DEF FClose, quitarArchivoEnTGAA, vars, listas, semaforos, recursos, hilos
      <3>2. IInv'
        BY <3>1, PasoIInv
      <3>3. TiposA'
        BY <1>2, <1>8, <2>1, <2>3
        DEF FClose, quitarArchivoEnTGAA, TiposA, TypeOKA, hilos
      <3> QED BY <3>2, <3>3
    <2> QED BY <1>8, <2>2, <2>3 DEF FClose
  <1>9. ASSUME NEW op \in OperacionesES, PedirOperacion(p, f, op)
        PROVE  IInv' /\ TiposA'
    <2>1. IInv'
      BY <1>4, <1>9, IInvEspera DEF PedirOperacion, EsperasDelKernel
    <2>2. op \in TiposDePedido
      BY ArchivosAssumption DEF TiposDePedido
    <2>3. pedidos' \in Seq(Mensajes)
      BY <1>2, <1>5, <1>9, <2>2 DEF PedirOperacion, Pedido, Mensajes
    <2>4. TiposA'
      BY <1>2, <1>9, <2>3 DEF PedirOperacion, TiposA, TypeOKA, Mensajes
    <2> QED BY <2>1, <2>4
  <1> QED BY <1>1, <1>6, <1>7, <1>8, <1>9

\* The filesystem serves the oldest request.
LEMMA Atendida ==
  ASSUME TiposA, AtenderPedido
  PROVE  \E m \in Mensajes : \E h \in Contestaciones(m) :
           /\ pedidos # <<>> /\ m = Head(pedidos)
           /\ pedidos' = Tail(pedidos) /\ pedidos' \in Seq(Mensajes)
           /\ Respuesta(h, m) \in Contestadas
           /\ Respuesta(h, m).header = h /\ Respuesta(h, m).archivo = m.archivo
           /\ respuestas' = Append(respuestas, Respuesta(h, m))
           /\ respuestas' \in Seq(Contestadas)
  <1>1. pedidos \in Seq(Mensajes) /\ respuestas \in Seq(Contestadas)
    BY CanalesTipo
  <1>2. /\ pedidos # <<>> /\ Head(pedidos) \in Mensajes
        /\ pedidos' = Tail(pedidos) /\ pedidos' \in Seq(Mensajes)
    BY <1>1 DEF AtenderPedido
  <1>3. PICK h \in Contestaciones(Head(pedidos)) :
          respuestas' = Append(respuestas, Respuesta(h, Head(pedidos)))
    BY DEF AtenderPedido
  <1>4. h \in Headers
    BY <1>2 DEF Contestaciones, Headers, Mensajes, TiposDePedido, OperacionesDeFS
  <1>5. /\ Respuesta(h, Head(pedidos)) \in Contestadas
        /\ Respuesta(h, Head(pedidos)).header = h
        /\ Respuesta(h, Head(pedidos)).archivo = Head(pedidos).archivo
    BY <1>2, <1>4 DEF Respuesta, Contestadas, Mensajes
  <1>6. respuestas' \in Seq(Contestadas)
    BY <1>1, <1>3, <1>5
  <1> QED BY <1>2, <1>3, <1>5, <1>6

-----------------------------------------------------------------------------
(* The operations in flight.                                               *)

OperacionesPedidas == Piden(OperacionesDeFS)
OperacionesContestadas == Contestan({"FS_OK", "FS_ERROR"})

\* The answer that the thread of the answers is waiting to give out.
EnManos(pc) == IF pc \in {"espera_bloqueada", "caido"} THEN 1 ELSE 0

LEMMA CuentaDeCanales ==
  /\ \A s \in Seq(Mensajes) :
       /\ Cardinality({i \in DOMAIN s : s[i].tipo \in OperacionesDeFS})
            = Cuantos(s, OperacionesPedidas)
       /\ Cuantos(s, OperacionesPedidas) \in Nat
  /\ \A s \in Seq(Contestadas) :
       /\ Cardinality({i \in DOMAIN s : s[i].header \in {"FS_OK", "FS_ERROR"}})
            = Cuantos(s, OperacionesContestadas)
       /\ Cuantos(s, OperacionesContestadas) \in Nat
  <1>1. ASSUME NEW s \in Seq(Mensajes)
        PROVE  {i \in DOMAIN s : s[i].tipo \in OperacionesDeFS}
                 = Indices(s, OperacionesPedidas)
    <2>1. \A i \in DOMAIN s : s[i] \in Mensajes
      OBVIOUS
    <2> QED BY <2>1 DEF Indices, OperacionesPedidas, Piden
  <1>2. ASSUME NEW s \in Seq(Contestadas)
        PROVE  {i \in DOMAIN s : s[i].header \in {"FS_OK", "FS_ERROR"}}
                 = Indices(s, OperacionesContestadas)
    <2>1. \A i \in DOMAIN s : s[i] \in Contestadas
      OBVIOUS
    <2> QED BY <2>1 DEF Indices, OperacionesContestadas, Contestan
  <1> QED BY <1>1, <1>2, CuantosTipo DEF Cuantos

LEMMA EnVueloSon ==
  /\ TiposA => EnVuelo = Cuantos(pedidos, OperacionesPedidas)
                           + Cuantos(respuestas, OperacionesContestadas)
                           + EnManos(pc_fs)
  /\ TiposA' => EnVuelo' = Cuantos(pedidos', OperacionesPedidas)
                             + Cuantos(respuestas', OperacionesContestadas)
                             + EnManos(pc_fs')
  <1>1. ASSUME TiposA
        PROVE  EnVuelo = Cuantos(pedidos, OperacionesPedidas)
                           + Cuantos(respuestas, OperacionesContestadas)
                           + EnManos(pc_fs)
    <2>1. pedidos \in Seq(Mensajes) /\ respuestas \in Seq(Contestadas)
      BY <1>1, CanalesTipo
    <2> QED BY <2>1, CuentaDeCanales DEF EnVuelo, EnManos
  <1>2. ASSUME TiposA'
        PROVE  EnVuelo' = Cuantos(pedidos', OperacionesPedidas)
                            + Cuantos(respuestas', OperacionesContestadas)
                            + EnManos(pc_fs')
    <2>1. pedidos' \in Seq(Mensajes) /\ respuestas' \in Seq(Contestadas)
      BY <1>2 DEF TiposA, TypeOKA, Mensajes, Contestadas
    <2> QED BY <2>1, CuentaDeCanales DEF EnVuelo, EnManos
  <1> QED BY <1>1, <1>2

\* The rest of the file instructions, the filesystem and its answers.
LEMMA TiposDeRespuestas ==
  ASSUME IArchivos, BloquearEnArchivo \/ AtenderPedido \/ HiloRespuestas
  PROVE  IInv' /\ TiposA'
  <1>1. IInv /\ TiposA /\ Apertura /\ OperacionesContadas
    BY DEF IArchivos
  <1>2. pedidos \in Seq(Mensajes) /\ respuestas \in Seq(Contestadas)
    BY <1>1, CanalesTipo
  \* A step that leaves the kernel's variables alone.
  <1>3. ASSUME UNCHANGED vars
        PROVE  IInv' /\ UNCHANGED pc_general
    BY <1>1, <1>3, PasoIInv DEF vars, hilos
  <1> USE DEF tablas, compactacion, canales, hilo_fs
  <1>4. CASE BloquearEnArchivo
    <2>1. /\ pc_general \notin {"espera_pcb", "espera_memoria"}
          /\ archivo_en_curso \in NombresDeArchivo
      BY <1>1, <1>4 DEF BloquearEnArchivo, TiposA
    <2>2. pcb_ejecutando \in Procesos
      BY <1>1, <2>1, Ocupada
    <2>3. IInv'
      BY <1>1, <1>4, <2>1, IInvBloquea DEF BloquearEnArchivo, pasar_a_blocked_de_archivo
    <2>4. TiposA'
      BY <1>1, <1>4, <2>1, <2>2
      DEF BloquearEnArchivo, pasar_a_blocked_de_archivo, LiberarCPU, TiposA, TypeOKA
    <2> QED BY <2>3, <2>4
  <1>5. CASE AtenderPedido
    <2>1. IInv' /\ UNCHANGED pc_general
      BY <1>3, <1>5 DEF AtenderPedido
    <2>2. PICK m \in Mensajes :
            /\ m = Head(pedidos)
            /\ pedidos' \in Seq(Mensajes) /\ respuestas' \in Seq(Contestadas)
      BY <1>1, <1>5, Atendida
    <2>3. en_disco' \subseteq NombresDeArchivo
      BY <1>1, <1>5, <2>2 DEF AtenderPedido, Mensajes, TiposA, TypeOKA
    <2>4. TiposA'
      BY <1>1, <1>5, <2>1, <2>2, <2>3
      DEF AtenderPedido, TiposA, TypeOKA, Mensajes, Contestadas
    <2> QED BY <2>1, <2>4
  <1>6. CASE RespuestaAbierto
    <2>1. /\ Head(respuestas).archivo \in NombresDeArchivo
          /\ respuestas' \in Seq(Contestadas)
      BY <1>1, <1>6, Recibida DEF RespuestaAbierto
    <2>2. pc_general = "espera_fs"
      BY <1>1, <1>6, AbiertaEnEspera DEF RespuestaAbierto
    <2>3. pcb_ejecutando \in Procesos
      BY <1>1, <2>2, Ocupada
    <2>4. IInv'
      BY <1>1, <1>6, <2>2, IInvSigue DEF RespuestaAbierto
    <2>5. TiposA'
      BY <1>1, <1>6, <2>1, <2>3 DEF RespuestaAbierto, TiposA, TypeOKA, Contestadas
    <2> QED BY <2>4, <2>5
  <1>7. CASE RespuestaInexistente
    <2>1. IInv' /\ UNCHANGED pc_general
      BY <1>3, <1>7 DEF RespuestaInexistente
    <2>2. /\ Head(respuestas).archivo \in NombresDeArchivo
          /\ Head(respuestas).proc \in Procesos
          /\ respuestas' \in Seq(Contestadas)
      BY <1>1, <1>7, Recibida DEF RespuestaInexistente
    <2>3. pedidos' \in Seq(Mensajes)
      BY <1>2, <1>7, <2>2 DEF RespuestaInexistente, Pedido, Mensajes, TiposDePedido
    <2>4. TiposA'
      BY <1>1, <1>7, <2>1, <2>2, <2>3
      DEF RespuestaInexistente, TiposA, TypeOKA, Mensajes, Contestadas
    <2> QED BY <2>1, <2>4
  <1>8. CASE RespuestaIgnorada
    <2>1. IInv' /\ UNCHANGED pc_general
      BY <1>3, <1>8 DEF RespuestaIgnorada
    <2>2. respuestas' \in Seq(Contestadas)
      BY <1>1, <1>8, Recibida DEF RespuestaIgnorada
    <2>3. TiposA'
      BY <1>1, <1>8, <2>1, <2>2 DEF RespuestaIgnorada, TiposA, TypeOKA, Contestadas
    <2> QED BY <2>1, <2>3
  <1>9. CASE RespuestaOK
    <2>1. IInv' /\ UNCHANGED pc_general
      BY <1>3, <1>9 DEF RespuestaOK
    <2>2. /\ Head(respuestas) \in Contestadas
          /\ respuestas' \in Seq(Contestadas)
      BY <1>1, <1>9, Recibida DEF RespuestaOK
    <2>3. TiposA'
      BY <1>1, <1>9, <2>1, <2>2 DEF RespuestaOK, TiposA, TypeOKA, Contestadas
    <2> QED BY <2>1, <2>3
  <1>10. CASE SacarDeBlocked
    <2>1. IInv' /\ UNCHANGED pc_general
      BY <1>3, <1>10 DEF SacarDeBlocked
    <2>2. resp.archivo \in NombresDeArchivo
      BY <1>1, <1>10 DEF SacarDeBlocked, TiposA
    <2>3. /\ lista_block_archivo[resp.archivo] \in Seq(Procesos)
          /\ lista_block_archivo[resp.archivo] # <<>>
      BY <1>1, <1>10, <2>2 DEF SacarDeBlocked, TiposA, TypeOKA
    <2>4. /\ Head(lista_block_archivo[resp.archivo]) \in Procesos
          /\ Tail(lista_block_archivo[resp.archivo]) \in Seq(Procesos)
      BY <2>3, SacarDeCola
    <2>5. instruccion_en_fs' \in Nat
      <3>1. /\ Cuantos(pedidos, OperacionesPedidas) \in Nat
            /\ Cuantos(respuestas, OperacionesContestadas) \in Nat
        BY <1>2, CuentaDeCanales
      <3>2. EnManos(pc_fs) = 1
        BY <1>10 DEF SacarDeBlocked, EnManos
      <3>3. EnVuelo = Cuantos(pedidos, OperacionesPedidas)
                        + Cuantos(respuestas, OperacionesContestadas) + EnManos(pc_fs)
        BY <1>1, EnVueloSon
      <3>4. EnVuelo \in Nat /\ EnVuelo >= 1
        BY <3>1, <3>2, <3>3
      <3> QED BY <1>1, <1>10, <3>4
              DEF SacarDeBlocked, OperacionesContadas, TiposA, TypeOKA
    <2>6. archivo_PCB_bloqueada' \in Nat
      BY <1>1, <1>10 DEF SacarDeBlocked, TiposA, TypeOKA
    <2>7. TiposA'
      BY <1>1, <1>10, <2>1, <2>2, <2>4, <2>5, <2>6 DEF SacarDeBlocked, TiposA, TypeOKA
    <2> QED BY <2>1, <2>7
  <1>11. CASE SacarDeColaVacia
    <2>1. IInv' /\ UNCHANGED pc_general
      BY <1>3, <1>11 DEF SacarDeColaVacia
    <2>2. TiposA'
      BY <1>1, <1>11, <2>1 DEF SacarDeColaVacia, TiposA, TypeOKA
    <2> QED BY <2>1, <2>2
  <1>12. CASE Desbloquear
    <2>1. resp.proc \in Procesos
      BY <1>1, <1>12 DEF Desbloquear, TiposA
    <2>2. IInv'
      BY <1>1, <1>12, <2>1, IInvListo DEF Desbloquear
    <2>3. TiposA'
      BY <1>1, <1>12 DEF Desbloquear, TiposA, TypeOKA, SinRespuesta, hilos
    <2> QED BY <2>2, <2>3
  <1> QED BY <1>4, <1>5, <1>6, <1>7, <1>8, <1>9, <1>10, <1>11, <1>12 DEF HiloRespuestas

-----------------------------------------------------------------------------
(* The steps of the other threads, and the wait of a compaction.           *)

\* A step of the handlers and threads of Kernel.
DelKernel == PasoKernel \/ \E p \in Procesos : HandlerKernel(p)

LEMMA DelKernelEsNext ==
  ASSUME DelKernel
  PROVE  [Next]_vars /\ UNCHANGED varsArchivos
  BY DEF DelKernel, PasoKernel, HandlerKernel, Next

LEMMA TiposDelResto ==
  ASSUME IInv, TiposA, DelKernel
  PROVE  IInv' /\ TiposA'
  <1>1. [Next]_vars /\ UNCHANGED varsArchivos
    BY DelKernelEsNext
  <1>2. pc_general' = "bloquea_en_archivo" => pc_general = "bloquea_en_archivo"
    BY <1>1, EsperasDeNext DEF EsperasDelKernel
  <1> QED BY <1>1, <1>2, PasoIInv, MismosTipos

\* What hilo_general does for a compaction, and the answers that it waits for.
DeLaEspera ==
  (\E p \in Procesos : CrearSegmento(p)) \/ Compactar \/ AvisoDelFS

LEMMA TiposDeLaEspera ==
  ASSUME IInv, TiposA, DeLaEspera
  PROVE  IInv' /\ TiposA'
  <1> USE DEF tablas, compactacion, canales, hilo_fs
  \* hilo_general goes from one of its waits to another.
  <1>1. ASSUME SoloEspera, en_cpu' = Nadie,
               pc_general \notin {"espera_pcb", "espera_memoria"},
               pc_general' \in {"mira_operaciones", "fija_espera", "espera_operaciones",
                                "baja_aviso", "compacta"},
               hayQueCompactar' \in BOOLEAN, espera_instrucciones' \in Nat
        PROVE  IInv' /\ TiposA'
    <2>1. IInv'
      BY <1>1, IInvEspera DEF SoloEspera, EsperasDelKernel
    <2>2. TiposA'
      BY <1>1 DEF SoloEspera, TiposA, TypeOKA
    <2> QED BY <2>1, <2>2
  <1>2. /\ hayQueCompactar \in BOOLEAN /\ espera_instrucciones \in Nat
        /\ instruccion_en_fs \in Nat
        /\ pc_general # "espera_cym" => en_cpu = Nadie
    BY DEF TiposA, TypeOKA, IInv, CPUExclusiva
  <1>3. ASSUME NEW p \in Procesos, CrearSinMemoria(p)
        PROVE  IInv' /\ TiposA'
    <2>1. /\ Corre(p) /\ terminar_consola(p, "OUT_OF_MEMORY")
          /\ UNCHANGED varsArchivos
      BY <1>3, FaltaMemoriaCorre DEF CrearSinMemoria
    <2>2. pc_general' # "bloquea_en_archivo"
      BY <2>1 DEF terminar_consola
    <2> QED BY <2>1, <2>2, TerminarIInv, MismosTipos DEF Razones
  <1>4. ASSUME NEW p \in Procesos, NecesitoCompactar(p)
        PROVE  IInv' /\ TiposA'
    BY <1>1, <1>2, <1>4 DEF NecesitoCompactar, Devuelve
  <1>5. CASE MirarOperaciones
    BY <1>1, <1>2, <1>5 DEF MirarOperaciones
  <1>6. CASE FijarEspera
    <2>1. espera_instrucciones' \in Nat
      BY <1>2, <1>6 DEF FijarEspera, ValorInicial
    <2> QED BY <1>1, <1>2, <1>6, <2>1 DEF FijarEspera
  <1>7. CASE EsperarOperaciones
    BY <1>1, <1>2, <1>7 DEF EsperarOperaciones
  <1>8. CASE PedirCompactacion
    BY <1>1, <1>2, <1>8 DEF PedirCompactacion
  <1>9. CASE FinDeCompactacion
    <2>1. IInv'
      BY <1>9, IInvSigue DEF FinDeCompactacion, SoloEspera
    <2>2. TiposA'
      BY <1>9 DEF FinDeCompactacion, SoloEspera, TiposA, TypeOKA
    <2> QED BY <2>1, <2>2
  <1>10. CASE MirarAviso
    <2>1. UNCHANGED vars
      BY <1>10 DEF MirarAviso
    <2>2. IInv' /\ UNCHANGED pc_general
      BY <2>1, PasoIInv DEF vars, hilos
    <2>3. TiposA'
      BY <1>10, <2>2 DEF MirarAviso, TiposA, TypeOKA
    <2> QED BY <2>2, <2>3
  <1>11. CASE Avisar
    <2>1. resp.proc \in Procesos
      BY <1>11 DEF Avisar, TiposA
    <2>2. IInv'
      BY <1>11, <2>1, IInvListo DEF Avisar
    <2>3. TiposA'
      BY <1>2, <1>11 DEF Avisar, TiposA, TypeOKA, SinRespuesta, hilos
    <2> QED BY <2>2, <2>3
  <1> QED BY <1>3, <1>4, <1>5, <1>6, <1>7, <1>8, <1>9, <1>10, <1>11
          DEF DeLaEspera, CrearSegmento, Compactar, AvisoDelFS

-----------------------------------------------------------------------------
(* The counts of the channels: opens, operations and errors.               *)

PasoDeArchivos ==
  \/ DelKernel
  \/ \E p \in Procesos : HandlerArchivo(p)
  \/ BloquearEnArchivo
  \/ AtenderPedido
  \/ HiloRespuestas
  \/ DeLaEspera

LEMMA PasoCuentas ==
  ASSUME IArchivos, IInv', TiposA', PasoDeArchivos
  PROVE  Apertura' /\ OperacionesContadas' /\ SinErrores'
  <1> DEFINE a == Cuantos(pedidos, AperturasPedidas)
             b == Cuantos(respuestas, AperturasContestadas)
             c == Cuantos(pedidos, OperacionesPedidas)
             d == Cuantos(respuestas, OperacionesContestadas)
             e == Cuantos(respuestas, Errores)
             n == instruccion_en_fs
             m == EnManos(pc_fs)
             Espera(pc) == IF pc = "espera_fs" THEN 1 ELSE 0
             Cuentan(aa, bb, cc, dd, ee, nn, mm, pc) ==
               /\ aa + bb = Espera(pc)
               /\ nn >= cc + dd + mm
               /\ ~PuedeFallar => nn = cc + dd + mm /\ ee = 0
  <1>1. /\ IInv /\ TiposA /\ Apertura /\ OperacionesContadas /\ SinErrores
        /\ pedidos \in Seq(Mensajes) /\ respuestas \in Seq(Contestadas)
    BY CanalesTipo DEF IArchivos
  <1>2. /\ a \in Nat /\ b \in Nat /\ c \in Nat /\ d \in Nat /\ e \in Nat
        /\ n \in Nat /\ m \in {0, 1}
    BY <1>1, CuantosTipo DEF TiposA, TypeOKA, EnManos
  <1>3. Cuentan(a, b, c, d, e, n, m, pc_general)
    <2>1. a + b = Espera(pc_general)
      BY <1>1 DEF Apertura, Abriendo
    <2>2. EnVuelo = c + d + m
      BY <1>1, EnVueloSon
    <2> HIDE DEF a, b, c, d, e, m
    <2>3. n >= c + d + m /\ (~PuedeFallar => n = c + d + m)
      BY <1>1, <2>2 DEF OperacionesContadas
    <2>4. ~PuedeFallar => e = 0
      BY <1>1 DEF SinErrores, e
    <2> QED BY <2>1, <2>3, <2>4
  <1> SUFFICES Cuentan(a', b', c', d', e', n', m', pc_general')
    <2>1. Cuentan(a', b', c', d', e', n', m', pc_general')
      OBVIOUS
    <2>2. EnVuelo' = c' + d' + m'
      BY EnVueloSon
    <2>3. Apertura'
      BY <2>1 DEF Apertura, Abriendo
    <2>4. SinErrores'
      BY <2>1 DEF SinErrores
    <2> HIDE DEF c, d, m
    <2>5. OperacionesContadas'
      BY <2>1, <2>2 DEF OperacionesContadas
    <2> QED BY <2>3, <2>4, <2>5
  \* What each use of a channel does to the counts.
  <1>4. pedidos' = pedidos => a' = a /\ c' = c
    OBVIOUS
  <1>5. respuestas' = respuestas => b' = b /\ d' = d /\ e' = e
    OBVIOUS
  <1>6. pc_fs' = pc_fs => m' = m
    OBVIOUS
  <1>7. ASSUME NEW w \in Mensajes, pedidos' = Append(pedidos, w)
        PROVE  /\ a' = a + (IF w.tipo \in {"F_OPEN", "F_CREATE"} THEN 1 ELSE 0)
               /\ c' = c + (IF w.tipo \in OperacionesDeFS THEN 1 ELSE 0)
    <2>1. /\ a' = a + (IF w \in AperturasPedidas THEN 1 ELSE 0)
          /\ c' = c + (IF w \in OperacionesPedidas THEN 1 ELSE 0)
      BY <1>1, <1>7, CuantosAgregar
    <2> HIDE DEF a, c
    <2> QED BY <2>1 DEF AperturasPedidas, OperacionesPedidas, Piden
  <1>8. ASSUME NEW H, Recibe(H)
        PROVE  LET h == Head(respuestas).header IN
               /\ h \in H
               /\ b' = b - (IF h \in {"FS_OPEN_OK", "FS_OPEN_NO_OK", "FS_CREATE_OK"}
                            THEN 1 ELSE 0)
               /\ d' = d - (IF h \in {"FS_OK", "FS_ERROR"} THEN 1 ELSE 0)
               /\ e' = e - (IF h = "FS_ERROR" THEN 1 ELSE 0)
    <2>1. /\ respuestas # <<>> /\ respuestas' = Tail(respuestas)
          /\ Head(respuestas) \in Contestadas /\ Head(respuestas).header \in H
      BY <1>1, <1>8, Recibida
    <2>2. /\ b' = b - (IF Head(respuestas) \in AperturasContestadas THEN 1 ELSE 0)
          /\ d' = d - (IF Head(respuestas) \in OperacionesContestadas THEN 1 ELSE 0)
          /\ e' = e - (IF Head(respuestas) \in Errores THEN 1 ELSE 0)
      BY <1>1, <2>1, CuantosSacar
    <2> HIDE DEF b, d, e
    <2> QED BY <2>1, <2>2
            DEF AperturasContestadas, OperacionesContestadas, Errores, Contestan
  <1>9. AtenderPedido => /\ a' + b' = a + b /\ c' + d' = c + d
                         /\ ~PuedeFallar => e' = e
                         /\ a' \in Int /\ b' \in Int /\ c' \in Int /\ d' \in Int
    <2> SUFFICES ASSUME AtenderPedido
                 PROVE  /\ a' + b' = a + b /\ c' + d' = c + d
                        /\ ~PuedeFallar => e' = e
                        /\ a' \in Int /\ b' \in Int /\ c' \in Int /\ d' \in Int
      OBVIOUS
    <2>0. PICK w \in Mensajes :
            \E h \in Contestaciones(w) :
              /\ pedidos # <<>> /\ w = Head(pedidos)
              /\ pedidos' = Tail(pedidos)
              /\ Respuesta(h, w) \in Contestadas /\ Respuesta(h, w).header = h
              /\ respuestas' = Append(respuestas, Respuesta(h, w))
      BY <1>1, Atendida
    <2>1. PICK h \in Contestaciones(w) :
            /\ pedidos # <<>> /\ w = Head(pedidos)
            /\ pedidos' = Tail(pedidos)
            /\ Respuesta(h, w) \in Contestadas /\ Respuesta(h, w).header = h
            /\ respuestas' = Append(respuestas, Respuesta(h, w))
      BY <2>0
    <2>2. /\ a' = a - (IF w \in AperturasPedidas THEN 1 ELSE 0)
          /\ c' = c - (IF w \in OperacionesPedidas THEN 1 ELSE 0)
      BY <1>1, <2>1, CuantosSacar
    <2>3. /\ b' = b + (IF Respuesta(h, w) \in AperturasContestadas THEN 1 ELSE 0)
          /\ d' = d + (IF Respuesta(h, w) \in OperacionesContestadas THEN 1 ELSE 0)
          /\ e' = e + (IF Respuesta(h, w) \in Errores THEN 1 ELSE 0)
      BY <1>1, <2>1, CuantosAgregar
    <2> HIDE DEF a, b, c, d, e
    <2>4. w.tipo \in TiposDePedido
      BY DEF Mensajes
    <2>5. /\ w \in AperturasPedidas <=> w.tipo \in {"F_OPEN", "F_CREATE"}
          /\ w \in OperacionesPedidas <=> w.tipo \in OperacionesDeFS
          /\ Respuesta(h, w) \in AperturasContestadas
               <=> h \in {"FS_OPEN_OK", "FS_OPEN_NO_OK", "FS_CREATE_OK"}
          /\ Respuesta(h, w) \in OperacionesContestadas <=> h \in {"FS_OK", "FS_ERROR"}
          /\ Respuesta(h, w) \in Errores <=> h = "FS_ERROR"
      BY <2>1 DEF AperturasPedidas, OperacionesPedidas, Piden, AperturasContestadas,
                  OperacionesContestadas, Errores, Contestan
    <2>6. /\ w.tipo \in {"F_OPEN", "F_CREATE"}
               <=> h \in {"FS_OPEN_OK", "FS_OPEN_NO_OK", "FS_CREATE_OK"}
          /\ w.tipo \in OperacionesDeFS <=> h \in {"FS_OK", "FS_ERROR"}
          /\ ~PuedeFallar => h # "FS_ERROR"
      BY <2>1, <2>4 DEF Contestaciones, TiposDePedido, OperacionesDeFS
    <2> QED BY <1>2, <2>2, <2>3, <2>5, <2>6
  <1> HIDE DEF a, b, c, d, e, n, m
  <1> USE DEF n
  \* A step that uses no channel and is not an end of an open.
  <1>10. ASSUME pedidos' = pedidos, respuestas' = respuestas, m' = m,
                instruccion_en_fs' = instruccion_en_fs,
                pc_general' = "espera_fs" <=> pc_general = "espera_fs"
         PROVE  Cuentan(a', b', c', d', e', n', m', pc_general')
    BY <1>3, <1>4, <1>5, <1>10
  <1>11. CASE DelKernel
    <2>1. [Next]_vars /\ UNCHANGED varsArchivos
      BY <1>11, DelKernelEsNext
    <2>2. pc_general' = "espera_fs" <=> pc_general = "espera_fs"
      BY <2>1, EsperasDeNext DEF EsperasDelKernel
    <2> QED BY <1>6, <1>10, <2>1, <2>2 DEF varsArchivos, canales, hilo_fs
  <1>12. ASSUME NEW p \in Procesos, NEW f \in Usa[p], FOpenEsperar(p, f)
         PROVE  Cuentan(a', b', c', d', e', n', m', pc_general')
    BY <1>6, <1>10, <1>12
    DEF FOpenEsperar, LiberarCPU, Devuelve, canales, hilo_fs
  <1>13. ASSUME NEW p \in Procesos, NEW f \in Usa[p], FOpenPedir(p, f)
         PROVE  Cuentan(a', b', c', d', e', n', m', pc_general')
    <2> DEFINE w == Pedido("F_OPEN", f, p)
    <2>1. w \in Mensajes /\ w.tipo = "F_OPEN"
      BY ArchivosAssumption DEF Pedido, Mensajes, TiposDePedido
    <2>2. /\ pedidos' = Append(pedidos, w) /\ respuestas' = respuestas /\ pc_fs' = pc_fs
          /\ instruccion_en_fs' = instruccion_en_fs
          /\ pc_general = "espera_cym" /\ pc_general' = "espera_fs"
      BY <1>13 DEF FOpenPedir, Devuelve, hilo_fs
    <2> HIDE DEF w
    <2>3. a' = a + 1 /\ c' = c
      BY <1>2, <1>7, <2>1, <2>2 DEF OperacionesDeFS
    <2> QED BY <1>2, <1>3, <1>5, <1>6, <2>2, <2>3
  <1>14. ASSUME NEW p \in Procesos, NEW f \in Usa[p], FClose(p, f)
         PROVE  Cuentan(a', b', c', d', e', n', m', pc_general')
    BY <1>6, <1>10, <1>14
    DEF FClose, devolver_ce_a_cpu, canales, hilo_fs
  <1>15. ASSUME NEW p \in Procesos, NEW f \in Usa[p], NEW op \in OperacionesES,
                PedirOperacion(p, f, op)
         PROVE  Cuentan(a', b', c', d', e', n', m', pc_general')
    <2> DEFINE w == Pedido(op, f, p)
    <2>1. w \in Mensajes /\ w.tipo = op /\ op \in OperacionesDeFS
      BY ArchivosAssumption DEF Pedido, Mensajes, TiposDePedido
    <2>2. /\ pedidos' = Append(pedidos, w) /\ respuestas' = respuestas /\ pc_fs' = pc_fs
          /\ instruccion_en_fs' = instruccion_en_fs + 1
          /\ pc_general = "espera_cym" /\ pc_general' = "bloquea_en_archivo"
      BY <1>15 DEF PedirOperacion, Devuelve, hilo_fs
    <2> HIDE DEF w
    <2>3. a' = a /\ c' = c + 1
      BY <1>2, <1>7, <2>1, <2>2 DEF OperacionesDeFS
    <2>4. b' = b /\ d' = d /\ e' = e /\ m' = m /\ n' = n + 1
      BY <1>5, <1>6, <2>2
    <2>5. a' + b' = Espera(pc_general')
      BY <1>2, <1>3, <2>2, <2>3, <2>4
    <2>6. n' >= c' + d' + m' /\ (~PuedeFallar => n' = c' + d' + m' /\ e' = 0)
      <3> HIDE DEF n
      <3> QED BY <1>2, <1>3, <2>3, <2>4
    <2> QED BY <2>5, <2>6
  <1>16. CASE BloquearEnArchivo
    BY <1>6, <1>10, <1>16 DEF BloquearEnArchivo, LiberarCPU, canales, hilo_fs
  <1>17. CASE AtenderPedido
    <2>1. /\ pc_general' = pc_general /\ instruccion_en_fs' = instruccion_en_fs
          /\ pc_fs' = pc_fs
      BY <1>17 DEF AtenderPedido, vars, hilos, hilo_fs
    <2> QED BY <1>2, <1>3, <1>6, <1>9, <1>17, <2>1
  <1>18. CASE RespuestaAbierto
    <2>1. /\ Recibe({"FS_OPEN_OK", "FS_CREATE_OK"})
          /\ pedidos' = pedidos /\ pc_fs' = pc_fs /\ pc_general' = "espera_cym"
          /\ instruccion_en_fs' = instruccion_en_fs
      BY <1>18 DEF RespuestaAbierto, hilo_fs
    <2>2. pc_general = "espera_fs"
      BY <1>1, <2>1, AbiertaEnEspera
    <2>3. b' = b - 1 /\ d' = d /\ e' = e
      BY <1>2, <1>8, <2>1
    <2> QED BY <1>2, <1>3, <1>4, <1>6, <2>1, <2>2, <2>3
  <1>19. CASE RespuestaInexistente
    <2> DEFINE w == Pedido("F_CREATE", Head(respuestas).archivo, Head(respuestas).proc)
    <2>1. /\ Recibe({"FS_OPEN_NO_OK"})
          /\ pedidos' = Append(pedidos, w) /\ pc_fs' = pc_fs /\ pc_general' = pc_general
          /\ instruccion_en_fs' = instruccion_en_fs
      BY <1>19 DEF RespuestaInexistente, hilo_fs, vars, hilos
    <2>2. w \in Mensajes /\ w.tipo = "F_CREATE"
      BY <1>1, <2>1, Recibida DEF Pedido, Mensajes, TiposDePedido
    <2> HIDE DEF w
    <2>3. b' = b - 1 /\ d' = d /\ e' = e
      BY <1>2, <1>8, <2>1
    <2>4. a' = a + 1 /\ c' = c
      BY <1>2, <1>7, <2>1, <2>2 DEF OperacionesDeFS
    <2> QED BY <1>2, <1>3, <1>6, <2>1, <2>3, <2>4
  <1>20. CASE RespuestaIgnorada
    <2>1. /\ Recibe({"FS_ERROR"})
          /\ pedidos' = pedidos /\ pc_fs' = pc_fs /\ pc_general' = pc_general
          /\ instruccion_en_fs' = instruccion_en_fs
      BY <1>20 DEF RespuestaIgnorada, hilo_fs, vars, hilos
    <2>2. b' = b /\ d' = d - 1 /\ e' = e - 1
      BY <1>2, <1>8, <2>1
    <2>3. e' \in Nat
      <3>1. respuestas' \in Seq(Contestadas)
        BY <1>1, <2>1, Recibida
      <3> QED BY <3>1, CuantosTipo DEF e
    <2> QED BY <1>2, <1>3, <1>4, <1>6, <2>1, <2>2, <2>3
  <1>21. CASE RespuestaOK
    <2>1. /\ Recibe({"FS_OK"})
          /\ pedidos' = pedidos /\ pc_general' = pc_general
          /\ instruccion_en_fs' = instruccion_en_fs
      BY <1>21 DEF RespuestaOK, vars, hilos
    <2>2. b' = b /\ d' = d - 1 /\ e' = e
      BY <1>2, <1>8, <2>1
    <2>3. m = 0 /\ m' = 1
      BY <1>21 DEF RespuestaOK, Recibe, EnManos, m
    <2> QED BY <1>2, <1>3, <1>4, <2>1, <2>2, <2>3
  <1>22. CASE SacarDeBlocked
    <2>1. /\ pedidos' = pedidos /\ respuestas' = respuestas /\ pc_general' = pc_general
          /\ instruccion_en_fs' = instruccion_en_fs - 1
      BY <1>22 DEF SacarDeBlocked, canales, vars, hilos
    <2>2. m = 1 /\ m' = 0
      BY <1>22 DEF SacarDeBlocked, EnManos, m
    <2> QED BY <1>2, <1>3, <1>4, <1>5, <2>1, <2>2
  <1>23. CASE SacarDeColaVacia
    <2>1. m' = m
      BY <1>23 DEF SacarDeColaVacia, EnManos, m
    <2> QED BY <1>10, <1>23, <2>1 DEF SacarDeColaVacia, canales, vars, hilos
  <1>24. CASE Desbloquear
    <2>1. m' = m
      BY <1>24 DEF Desbloquear, EnManos, m
    <2> QED BY <1>10, <1>24, <2>1 DEF Desbloquear, canales, hilos
  <1>25. CASE DeLaEspera
    <2>1. m' = m
      BY <1>25
      DEF DeLaEspera, CrearSegmento, CrearSinMemoria, NecesitoCompactar, Compactar,
          MirarOperaciones, FijarEspera, EsperarOperaciones, PedirCompactacion,
          FinDeCompactacion, AvisoDelFS, MirarAviso, Avisar, EnManos, m, SoloEspera,
          varsArchivos, hilo_fs
    <2>2. /\ pedidos' = pedidos /\ respuestas' = respuestas
          /\ instruccion_en_fs' = instruccion_en_fs
      BY <1>25
      DEF DeLaEspera, CrearSegmento, CrearSinMemoria, NecesitoCompactar, Compactar,
          MirarOperaciones, FijarEspera, EsperarOperaciones, PedirCompactacion,
          FinDeCompactacion, AvisoDelFS, MirarAviso, Avisar, SoloEspera,
          varsArchivos, canales
    <2>3. \/ pc_general # "espera_fs" /\ pc_general' # "espera_fs"
          \/ pc_general' = pc_general
      BY <1>25
      DEF DeLaEspera, CrearSegmento, CrearSinMemoria, NecesitoCompactar, Compactar,
          MirarOperaciones, FijarEspera, EsperarOperaciones, PedirCompactacion,
          FinDeCompactacion, AvisoDelFS, MirarAviso, Avisar, Devuelve,
          FaltaMemoria, terminar_consola, vars, hilos
    <2> QED BY <1>10, <2>1, <2>2, <2>3
  <1> HIDE DEF Cuentan
  <1> QED BY <1>11, <1>12, <1>13, <1>14, <1>15, <1>16, <1>17, <1>18, <1>19, <1>20,
             <1>21, <1>22, <1>23, <1>24, <1>25
          DEF PasoDeArchivos, HandlerArchivo, HiloRespuestas

LEMMA PasoIArchivos ==
  ASSUME IArchivos, PasoDeArchivos
  PROVE  IArchivos'
  <1>1. IInv' /\ TiposA'
    BY TiposDeInstrucciones, TiposDeRespuestas, TiposDelResto, TiposDeLaEspera
    DEF IArchivos, PasoDeArchivos
  <1> QED BY <1>1, PasoCuentas DEF IArchivos

LEMMA MismoIArchivos ==
  ASSUME IArchivos, UNCHANGED varsA
  PROVE  IArchivos'
  <1>1. UNCHANGED vars /\ UNCHANGED varsArchivos /\ UNCHANGED pc_general
    BY DEF varsA, vars, hilos
  <1>2. IInv' /\ TiposA'
    BY <1>1, PasoIInv, MismosTipos DEF IArchivos
  <1> USE DEF varsArchivos, canales, hilo_fs
  <1>3. Apertura' /\ SinErrores'
    BY <1>1 DEF IArchivos, Apertura, Abriendo, SinErrores
  <1>4. OperacionesContadas'
    BY <1>1 DEF IArchivos, OperacionesContadas, EnVuelo
  <1> QED BY <1>2, <1>3, <1>4 DEF IArchivos

LEMMA InicioIArchivos ==
  ASSUME InitA
  PROVE  IArchivos
  <1>1. IInv
    BY InicioIInv DEF InitA
  <1>2. TiposA
    <2>1. \A S : <<>> \in Seq(S)
      OBVIOUS
    <2>2. lista_block_archivo \in [NombresDeArchivo -> Seq(Procesos)]
      BY <2>1 DEF InitA
    <2>3. pedidos \in Seq(Mensajes) /\ respuestas \in Seq(Contestadas)
      BY <2>1 DEF InitA
    <2>4. taap \in [Procesos -> SUBSET NombresDeArchivo]
      BY DEF InitA
    <2>5. pc_fs = "espera_respuesta" /\ pc_general = "espera_pcb"
      BY DEF InitA, Init
    <2>6. resp \in [header : Headers \union {"nada"},
                   archivo : NombresDeArchivo \union {Nadie},
                   proc : Procesos \union {Nadie}]
      BY DEF InitA, SinRespuesta
    <2>7. TypeOKA
      BY <2>2, <2>3, <2>4, <2>5, <2>6 DEF InitA, TypeOKA, Mensajes, Contestadas
    <2> QED BY <2>5, <2>7 DEF TiposA
  <1>3. \A T : Cuantos(pedidos, T) = 0 /\ Cuantos(respuestas, T) = 0
    BY CuantosVacia DEF InitA
  <1>4. Apertura /\ SinErrores
    BY <1>3 DEF InitA, Init, Apertura, Abriendo, SinErrores
  <1>5. OperacionesContadas
    <2>1. EnVuelo = 0 + 0 + EnManos(pc_fs)
      BY <1>2, <1>3, EnVueloSon
    <2> QED BY <2>1 DEF InitA, EnManos, OperacionesContadas
  <1> QED BY <1>1, <1>2, <1>4, <1>5 DEF IArchivos

\* The steps of both specifications.
LEMMA PasosDeNextA ==
  ASSUME NextA
  PROVE  PasoDeArchivos /\ pc_fs # "caido"
  BY DEF NextA, PasoDeArchivos, DelKernel

LEMMA PasosDeNextP ==
  ASSUME NextP
  PROVE  PasoDeArchivos /\ pc_fs # "caido"
  BY PasosDeNextA DEF NextP, PasoDeArchivos, DeLaEspera

LEMMA IArchivosSiempre ==
  /\ SpecA => []IArchivos
  /\ SpecP => []IArchivos
  <1>1. IArchivos /\ [NextA]_varsA => IArchivos'
    BY PasosDeNextA, PasoIArchivos, MismoIArchivos
  <1>2. IArchivos /\ [NextP]_varsP => IArchivos'
    BY PasosDeNextP, PasoIArchivos, MismoIArchivos DEF varsP
  <1>3. SpecA => []IArchivos
    BY <1>1, InicioIArchivos, PTL DEF SpecA
  <1>4. SpecP => []IArchivos
    <2>1. InitP => IArchivos
      BY InicioIArchivos DEF InitP
    <2> QED BY <1>2, <2>1, PTL DEF SpecP
  <1> QED BY <1>3, <1>4

\* The lists, the tables, the channels and the semaphores of the file
\* instructions keep their types; neither archivo_PCB_bloqueada nor
\* instruccion_en_fs goes below zero, with compactions or without.
THEOREM TiposDeArchivos ==
  /\ SpecA => []TypeOKA
  /\ SpecP => []TypeOKA
  <1>1. IArchivos => TypeOKA
    BY DEF IArchivos, TiposA
  <1> QED BY <1>1, IArchivosSiempre, PTL

\* The CPU is given to one process at a time also through opens, operations,
\* waits for the filesystem and compactions (hilo_general.c).
THEOREM CPUEnArchivos ==
  /\ SpecA => []CPUExclusiva
  /\ SpecP => []CPUExclusiva
  <1>1. IArchivos => CPUExclusiva
    BY DEF IArchivos, IInv
  <1> QED BY <1>1, IArchivosSiempre, PTL

\* instruccion_en_fs, on which a compaction waits, is never below the operations
\* in flight, and is exact while none fails, whatever the interleaving of
\* hilo_general, the thread of the answers and the filesystem.
THEOREM CuentaDeOperaciones ==
  /\ SpecA => []OperacionesContadas
  /\ SpecP => []OperacionesContadas
  <1>1. IArchivos => OperacionesContadas
    BY DEF IArchivos
  <1> QED BY <1>1, IArchivosSiempre, PTL

-----------------------------------------------------------------------------
(* Where a step takes processes, as far as the file queues go.             *)

EnMano(q) == IF pc_fs \in {"desbloquea", "avisa"} /\ resp.proc = q THEN 1 ELSE 0

\* The running process joins the queue of a file.
Encola(p, f) ==
  /\ LISTA_EXEC = <<p>> /\ LISTA_EXEC' = <<>>
  /\ lista_block_archivo' = ConUnoMas(lista_block_archivo, f, p)
  /\ archivo_PCB_bloqueada' = archivo_PCB_bloqueada + 1
  /\ UNCHANGED <<LISTA_NEW, LISTA_READY, LISTA_BLOCKED, LISTA_EXIT, lista_block,
                 consola, hilo_fs>>

\* The first of the queue of a file goes to LISTA_READY.
Desencola(p, f) ==
  /\ lista_block_archivo[f] # <<>> /\ p = Head(lista_block_archivo[f])
  /\ lista_block_archivo' = SinElPrimero(lista_block_archivo, f)
  /\ LISTA_READY' = Append(LISTA_READY, p)
  /\ UNCHANGED <<LISTA_NEW, LISTA_EXEC, LISTA_BLOCKED, LISTA_EXIT, lista_block,
                 consola, archivo_PCB_bloqueada, hilo_fs>>

\* The first of the queue of a file goes to the hands of the thread of the answers.
Saca(p, f) ==
  /\ lista_block_archivo[f] # <<>> /\ p = Head(lista_block_archivo[f])
  /\ lista_block_archivo' = SinElPrimero(lista_block_archivo, f)
  /\ archivo_PCB_bloqueada' = archivo_PCB_bloqueada - 1
  /\ pc_fs = "espera_bloqueada" /\ pc_fs' = "desbloquea" /\ resp'.proc = p
  /\ UNCHANGED vars

\* The process in those hands goes to LISTA_READY.
Entrega(p) ==
  /\ pc_fs \in {"desbloquea", "avisa"} /\ pc_fs' = "espera_respuesta"
  /\ p = resp.proc
  /\ LISTA_READY' = Append(LISTA_READY, p)
  /\ UNCHANGED <<LISTA_NEW, LISTA_EXEC, LISTA_BLOCKED, LISTA_EXIT, lista_block,
                 consola, lista_block_archivo, archivo_PCB_bloqueada>>

\* A step of Kernel, or the end of a process that memory has no room for.
MueveElKernel ==
  /\ \/ [Next]_vars
     \/ \E p \in Procesos : FaltaMemoria(p) /\ terminar_consola(p, "OUT_OF_MEMORY")
  /\ UNCHANGED varsArchivos

\* Nobody moves.
Quietos ==
  /\ UNCHANGED <<listas, lista_block, consola, lista_block_archivo,
                 archivo_PCB_bloqueada>>
  /\ \A q : EnMano(q)' = EnMano(q)

Movimiento ==
  \/ \E p \in Procesos, f \in NombresDeArchivo :
       Encola(p, f) \/ Desencola(p, f) \/ Saca(p, f)
  \/ \E p \in Procesos : Entrega(p)
  \/ MueveElKernel
  \/ Quietos

LEMMA TodoEsMovimiento ==
  ASSUME IArchivos, PasoDeArchivos
  PROVE  Movimiento
  <1> USE DEF recursos, hilos, canales, compactacion, tablas, hilo_fs
  <1>1. IInv /\ TiposA /\ Apertura
    BY DEF IArchivos
  <1>2. lista_block_archivo \in [NombresDeArchivo -> Seq(Procesos)]
    BY <1>1 DEF TiposA, TypeOKA
  <1>3. CASE DelKernel
    BY <1>3, DelKernelEsNext DEF MueveElKernel, Movimiento
  <1>4. ASSUME NEW p \in Procesos, NEW f \in Usa[p], FOpenEsperar(p, f)
        PROVE  Movimiento
    <2>1. LISTA_EXEC = <<p>> /\ Tail(LISTA_EXEC) = <<>>
      BY <1>1, <1>4, QuienEjecuta DEF FOpenEsperar
    <2>2. f \in NombresDeArchivo
      BY ArchivosAssumption
    <2>3. Encola(p, f)
      BY <1>4, <2>1
      DEF FOpenEsperar, pasar_a_blocked_de_archivo, pcb_ejecutando_remove, Encola, ConUnoMas
    <2> QED BY <2>2, <2>3 DEF Movimiento
  <1>5. ASSUME NEW p \in Procesos, NEW f \in Usa[p], FOpenPedir(p, f)
        PROVE  Movimiento
    BY <1>5 DEF FOpenPedir, listas, Quietos, Movimiento, EnMano
  <1>6. ASSUME NEW p \in Procesos, NEW f \in Usa[p], FClose(p, f)
        PROVE  Movimiento
    <2>1. f \in NombresDeArchivo
      BY ArchivosAssumption
    <2>2. CASE DesbloquearPrimero(f)
      <3> DEFINE q == Head(lista_block_archivo[f])
      <3>1. q \in Procesos
        BY <1>2, <2>1, <2>2, SacarDeCola DEF DesbloquearPrimero
      <3>2. Desencola(q, f)
        BY <1>6, <2>2 DEF FClose, DesbloquearPrimero, pasar_a_ready, Desencola, SinElPrimero
      <3> QED BY <2>1, <3>1, <3>2 DEF Movimiento
    <2>3. CASE quitarArchivoEnTGAA(f)
      BY <1>6, <2>3 DEF FClose, quitarArchivoEnTGAA, listas, Quietos, Movimiento, EnMano
    <2> QED BY <1>6, <2>2, <2>3 DEF FClose
  <1>7. ASSUME NEW p \in Procesos, NEW f \in Usa[p], NEW op \in OperacionesES,
               PedirOperacion(p, f, op)
        PROVE  Movimiento
    BY <1>7 DEF PedirOperacion, listas, Quietos, Movimiento, EnMano
  <1>8. CASE BloquearEnArchivo
    <2>1. /\ pc_general \notin {"espera_pcb", "espera_memoria"}
          /\ archivo_en_curso \in NombresDeArchivo
      BY <1>1, <1>8 DEF BloquearEnArchivo, TiposA
    <2>2. /\ pcb_ejecutando \in Procesos /\ LISTA_EXEC = <<pcb_ejecutando>>
          /\ Tail(LISTA_EXEC) = <<>>
      BY <1>1, <2>1, Ocupada
    <2>3. Encola(pcb_ejecutando, archivo_en_curso)
      BY <1>8, <2>2
      DEF BloquearEnArchivo, pasar_a_blocked_de_archivo, pcb_ejecutando_remove, Encola, ConUnoMas
    <2> QED BY <2>1, <2>2, <2>3 DEF Movimiento
  <1>9. CASE AtenderPedido
    BY <1>9 DEF AtenderPedido, vars, listas, Quietos, Movimiento, EnMano
  <1>10. CASE RespuestaAbierto
    BY <1>10 DEF RespuestaAbierto, listas, Quietos, Movimiento, EnMano
  <1>11. CASE RespuestaInexistente
    BY <1>11 DEF RespuestaInexistente, vars, listas, Quietos, Movimiento, EnMano
  <1>12. CASE RespuestaIgnorada
    BY <1>12 DEF RespuestaIgnorada, vars, listas, Quietos, Movimiento, EnMano
  <1>13. CASE RespuestaOK
    BY <1>13 DEF RespuestaOK, Recibe, vars, listas, Quietos, Movimiento, EnMano
  <1>14. CASE SacarDeBlocked
    <2> DEFINE f == resp.archivo
               q == Head(lista_block_archivo[f])
    <2>1. f \in NombresDeArchivo
      BY <1>1, <1>14 DEF SacarDeBlocked, TiposA
    <2>2. q \in Procesos
      BY <1>2, <1>14, <2>1, SacarDeCola DEF SacarDeBlocked
    <2>3. resp'.proc = q
      BY <1>1, <1>14 DEF SacarDeBlocked, TiposA, TypeOKA
    <2>4. Saca(q, f)
      BY <1>14, <2>3 DEF SacarDeBlocked, Saca, SinElPrimero
    <2> HIDE DEF f, q
    <2> QED BY <2>1, <2>2, <2>4 DEF Movimiento
  <1>15. CASE SacarDeColaVacia
    BY <1>15 DEF SacarDeColaVacia, vars, listas, Quietos, Movimiento, EnMano
  <1>16. CASE Desbloquear
    <2>1. resp.proc \in Procesos /\ Entrega(resp.proc)
      BY <1>1, <1>16 DEF Desbloquear, pasar_a_ready, Entrega, TiposA
    <2> QED BY <2>1 DEF Movimiento
  <1>17. ASSUME NEW p \in Procesos, CrearSinMemoria(p)
         PROVE  Movimiento
    BY <1>17 DEF CrearSinMemoria, MueveElKernel, Movimiento
  <1>18. ASSUME NEW p \in Procesos, NecesitoCompactar(p)
         PROVE  Movimiento
    BY <1>18 DEF NecesitoCompactar, SoloEspera, listas, Quietos, Movimiento, EnMano
  <1>19. CASE Compactar
    <2>1. SoloEspera
      BY <1>19 DEF Compactar, MirarOperaciones, FijarEspera, EsperarOperaciones,
                   PedirCompactacion, FinDeCompactacion
    <2> QED BY <2>1 DEF SoloEspera, listas, Quietos, Movimiento, EnMano
  <1>20. CASE MirarAviso
    BY <1>20 DEF MirarAviso, vars, listas, Quietos, Movimiento, EnMano
  <1>21. CASE Avisar
    <2>1. resp.proc \in Procesos /\ Entrega(resp.proc)
      BY <1>1, <1>21 DEF Avisar, pasar_a_ready, Entrega, TiposA
    <2> QED BY <2>1 DEF Movimiento
  <1> QED BY <1>3, <1>4, <1>5, <1>6, <1>7, <1>8, <1>9, <1>10, <1>11, <1>12, <1>13,
             <1>14, <1>15, <1>16, <1>17, <1>18, <1>19, <1>20, <1>21
          DEF PasoDeArchivos, HandlerArchivo, HiloRespuestas, DeLaEspera,
              CrearSegmento, AvisoDelFS

LEMMA NadaEsMovimiento ==
  ASSUME UNCHANGED varsA
  PROVE  Movimiento
  BY DEF varsA, MueveElKernel, Movimiento

-----------------------------------------------------------------------------
(* The permits of archivo_PCB_bloqueada.                                   *)

IPermisos == IArchivos /\ PermisosDeArchivo

LEMMA MovimientoPermisos ==
  ASSUME TiposA, TiposA', PermisosDeArchivo, Movimiento
  PROVE  PermisosDeArchivo'
  <1> DEFINE cuantos(c) == Cardinality(EntradasDe(c, Procesos))
  <1>1. /\ lista_block_archivo \in Colas /\ lista_block_archivo' \in Colas
        /\ archivo_PCB_bloqueada \in Nat
    BY DEF TiposA, TypeOKA, Colas
  <1>2. EnColas = cuantos(lista_block_archivo) /\ EnColas' = cuantos(lista_block_archivo')
    BY EntradasSon DEF EnColas
  <1>3. cuantos(lista_block_archivo) \in Nat /\ cuantos(lista_block_archivo') \in Nat
    BY <1>1, EntradasFinitas
  <1>4. archivo_PCB_bloqueada >= cuantos(lista_block_archivo)
    BY <1>2 DEF PermisosDeArchivo
  <1> SUFFICES archivo_PCB_bloqueada' >= cuantos(lista_block_archivo')
    BY <1>2 DEF PermisosDeArchivo
  <1>5. ASSUME NEW p \in Procesos, NEW f \in NombresDeArchivo, Encola(p, f)
        PROVE  archivo_PCB_bloqueada' >= cuantos(lista_block_archivo')
    <2>1. cuantos(lista_block_archivo') = cuantos(lista_block_archivo) + 1
      BY <1>1, <1>5, EntradasAgregar DEF Encola
    <2> HIDE DEF cuantos
    <2> QED BY <1>1, <1>3, <1>4, <1>5, <2>1 DEF Encola
  <1>6. ASSUME NEW p \in Procesos, NEW f \in NombresDeArchivo,
               Desencola(p, f) \/ Saca(p, f)
        PROVE  archivo_PCB_bloqueada' >= cuantos(lista_block_archivo')
    <2>1. cuantos(lista_block_archivo') = cuantos(lista_block_archivo) - 1
      BY <1>1, <1>6, EntradasSacar DEF Desencola, Saca
    <2>2. archivo_PCB_bloqueada' >= archivo_PCB_bloqueada - 1
      BY <1>1, <1>6 DEF Desencola, Saca
    <2>3. archivo_PCB_bloqueada' \in Nat
      BY DEF TiposA, TypeOKA
    <2> HIDE DEF cuantos
    <2> QED BY <1>1, <1>3, <1>4, <2>1, <2>2, <2>3
  <1>7. ASSUME UNCHANGED <<lista_block_archivo, archivo_PCB_bloqueada>>
        PROVE  archivo_PCB_bloqueada' >= cuantos(lista_block_archivo')
    BY <1>4, <1>7
  <1> HIDE DEF cuantos
  <1> QED BY <1>5, <1>6, <1>7
          DEF Movimiento, Entrega, MueveElKernel, Quietos, varsArchivos, tablas

LEMMA InicioPermisos ==
  ASSUME InitA
  PROVE  IPermisos
  <1>1. IArchivos
    BY InicioIArchivos
  <1>2. EnColas = 0
    BY EntradasSon, EntradasVacias DEF EnColas, InitA
  <1> QED BY <1>1, <1>2 DEF IPermisos, PermisosDeArchivo, InitA

LEMMA PasoIPermisos ==
  /\ IPermisos /\ [NextA]_varsA => IPermisos'
  /\ IPermisos /\ [NextP]_varsP => IPermisos'
  <1>1. IPermisos /\ (PasoDeArchivos \/ UNCHANGED varsA) => IPermisos'
    <2> SUFFICES ASSUME IPermisos, PasoDeArchivos \/ UNCHANGED varsA
                 PROVE  IPermisos'
      OBVIOUS
    <2>1. IArchivos /\ IArchivos'
      BY PasoIArchivos, MismoIArchivos DEF IPermisos
    <2>2. Movimiento
      BY <2>1, TodoEsMovimiento, NadaEsMovimiento
    <2> QED BY <2>1, <2>2, MovimientoPermisos DEF IPermisos, IArchivos
  <1> QED BY <1>1, PasosDeNextA, PasosDeNextP DEF varsP

\* archivo_PCB_bloqueada, the one semaphore of all the file queues, has a permit
\* for each queued process: an answer whose process is queued is never held back.
THEOREM PermisosSobran ==
  /\ SpecA => []PermisosDeArchivo
  /\ SpecP => []PermisosDeArchivo
  <1>1. IPermisos => PermisosDeArchivo
    BY DEF IPermisos
  <1>2. SpecA => []PermisosDeArchivo
    BY <1>1, InicioPermisos, PasoIPermisos, PTL DEF SpecA
  <1>3. SpecP => []PermisosDeArchivo
    <2>1. InitP => IPermisos
      BY InicioPermisos DEF InitP
    <2> QED BY <1>1, <2>1, PasoIPermisos, PTL DEF SpecP
  <1> QED BY <1>2, <1>3

-----------------------------------------------------------------------------
(* Each process is in one list, file queues included.                      *)

EnColasDe(q) == Cardinality(EntradasDe(lista_block_archivo, {q}))

ISolo == IArchivos /\ UnSoloEstadoA /\ ColasSinRepetir

LEMMA UnSoloEstadoEs ==
  /\ UnSoloEstadoA <=> \A q \in Procesos :
       Apariciones(q) + EnColasDe(q) + EnMano(q) = Conectado(q)
  /\ UnSoloEstadoA' <=> \A q \in Procesos :
       Apariciones(q)' + EnColasDe(q)' + EnMano(q)' = Conectado(q)'
  BY EntradasSon DEF UnSoloEstadoA, EnColasDe, EnMano, Conectado

LEMMA SoloSinRepetir ==
  ASSUME IArchivos, UnSoloEstadoA
  PROVE  /\ SinRepetir
         /\ \A q \in Procesos : Apariciones(q) \in Nat /\ EnColasDe(q) \in Nat
  <1>1. ASSUME NEW q \in Procesos
        PROVE  Apariciones(q) \in Nat /\ EnColasDe(q) \in Nat
    <2>1. EnColasDe(q) \in Nat
      BY EntradasFinitas DEF EnColasDe, IArchivos, TiposA, TypeOKA, Colas
    <2>2. Apariciones(q) \in Nat
      BY CuentasAhora DEF IArchivos
    <2> QED BY <2>1, <2>2
  <1>2. ASSUME NEW q \in Procesos
        PROVE  Apariciones(q) <= Conectado(q)
    BY <1>1, UnSoloEstadoEs DEF EnMano, Conectado
  <1> QED BY <1>1, <1>2 DEF SinRepetir

LEMMA MovimientoUnSolo ==
  ASSUME Algoritmo = "FIFO", ISolo, IArchivos', Movimiento
  PROVE  UnSoloEstadoA' /\ ColasSinRepetir'
  <1> DEFINE Bien(q) == Apariciones(q)' + EnColasDe(q)' + EnMano(q)' = Conectado(q)'
             m(q) == EnMano(q)
             e(q) == EnColasDe(q)
  <1>1. /\ IInv /\ IInv' /\ TiposA /\ TiposA' /\ ColasSinRepetir /\ SinRepetir
        /\ IArchivos /\ UnSoloEstadoA
    BY SoloSinRepetir DEF ISolo, IArchivos
  <1>2. \A q \in Procesos :
          /\ Apariciones(q) \in Nat /\ EnColasDe(q) \in Nat /\ EnMano(q) \in Nat
          /\ Conectado(q) \in Nat
          /\ Apariciones(q) + EnColasDe(q) + EnMano(q) = Conectado(q)
    BY <1>1, SoloSinRepetir, UnSoloEstadoEs DEF EnMano, Conectado
  <1>3. lista_block_archivo \in Colas /\ lista_block_archivo' \in Colas
    BY <1>1 DEF TiposA, TypeOKA, Colas
  <1>4. LISTA_READY \in Seq(Procesos)
    BY <1>1 DEF IInv, TiposDelKernel
  <1> HIDE DEF Bien
  <1> SUFFICES ColasSinRepetir' /\ \A q \in Procesos : Bien(q)
    BY UnSoloEstadoEs DEF Bien
  <1>5. ASSUME NEW p \in Procesos, NEW f \in NombresDeArchivo, Encola(p, f)
        PROVE  ColasSinRepetir' /\ \A q \in Procesos : Bien(q)
    <2>1. ColasSinRepetir' /\ \A q : Esperas(q)' = Esperas(q)
      BY <1>1, <1>5, MismasEsperas DEF Encola
    <2>2. ASSUME NEW q \in Procesos PROVE Bien(q)
      <3>1. /\ Veces(q, LISTA_EXEC) = (IF q = p THEN 1 ELSE 0)
            /\ Veces(q, LISTA_EXEC') = 0
        BY <1>5, VecesUnitaria DEF Encola
      <3>2. UNCHANGED <<LISTA_NEW, LISTA_READY, LISTA_BLOCKED, LISTA_EXIT, consola>>
        BY <1>5 DEF Encola
      <3>3. Apariciones(q)' = Apariciones(q) - (IF q = p THEN 1 ELSE 0)
        BY <1>1, <2>1, <3>1, <3>2, Cuentas
      <3>4. EnColasDe(q)' = EnColasDe(q) + (IF q = p THEN 1 ELSE 0)
        <4>1. EnColasDe(q)' = EnColasDe(q) + (IF p \in {q} THEN 1 ELSE 0)
          BY <1>3, <1>5, EntradasAgregar DEF Encola, EnColasDe
        <4> QED BY <4>1
      <3>5. EnMano(q)' = EnMano(q) /\ Conectado(q)' = Conectado(q)
        BY <1>5 DEF Encola, hilo_fs, EnMano, Conectado
      <3> QED BY <1>2, <3>3, <3>4, <3>5 DEF Bien
    <2> QED BY <2>1, <2>2
  <1>6. ASSUME NEW p \in Procesos, NEW f \in NombresDeArchivo, Desencola(p, f)
        PROVE  ColasSinRepetir' /\ \A q \in Procesos : Bien(q)
    <2>1. ColasSinRepetir' /\ \A q : Esperas(q)' = Esperas(q)
      BY <1>1, <1>6, MismasEsperas DEF Desencola
    <2>2. ASSUME NEW q \in Procesos PROVE Bien(q)
      <3>1. Veces(q, LISTA_READY') = Veces(q, LISTA_READY) + (IF q = p THEN 1 ELSE 0)
        BY <1>4, <1>6, VecesAgregar DEF Desencola
      <3>2. UNCHANGED <<LISTA_NEW, LISTA_EXEC, LISTA_BLOCKED, LISTA_EXIT, consola>>
        BY <1>6 DEF Desencola
      <3>3. Apariciones(q)' = Apariciones(q) + (IF q = p THEN 1 ELSE 0)
        BY <1>1, <2>1, <3>1, <3>2, Cuentas
      <3>4. EnColasDe(q)' = EnColasDe(q) - (IF q = p THEN 1 ELSE 0)
        <4>1. EnColasDe(q)' = EnColasDe(q) - (IF p \in {q} THEN 1 ELSE 0)
          BY <1>3, <1>6, EntradasSacar DEF Desencola, EnColasDe
        <4> QED BY <4>1
      <3>5. EnMano(q)' = EnMano(q) /\ Conectado(q)' = Conectado(q)
        BY <1>6 DEF Desencola, hilo_fs, EnMano, Conectado
      <3> QED BY <1>2, <3>3, <3>4, <3>5 DEF Bien
    <2> QED BY <2>1, <2>2
  <1>7. ASSUME NEW p \in Procesos, NEW f \in NombresDeArchivo, Saca(p, f)
        PROVE  ColasSinRepetir' /\ \A q \in Procesos : Bien(q)
    <2>1. UNCHANGED <<listas, lista_block, consola>>
      BY <1>7 DEF Saca, vars, recursos
    <2>2. ColasSinRepetir' /\ \A q : Esperas(q)' = Esperas(q)
      BY <1>1, <2>1, MismasEsperas
    <2>3. ASSUME NEW q \in Procesos PROVE Bien(q)
      <3>1. Apariciones(q)' = Apariciones(q)
        BY <1>1, <2>1, <2>2, Cuentas DEF listas
      <3>2. EnColasDe(q)' = EnColasDe(q) - (IF q = p THEN 1 ELSE 0)
        <4>1. EnColasDe(q)' = EnColasDe(q) - (IF p \in {q} THEN 1 ELSE 0)
          BY <1>3, <1>7, EntradasSacar DEF Saca, EnColasDe
        <4> QED BY <4>1
      <3>3. EnMano(q) = 0 /\ EnMano(q)' = (IF q = p THEN 1 ELSE 0)
        BY <1>7 DEF Saca, EnMano
      <3>4. Conectado(q)' = Conectado(q)
        BY <2>1 DEF Conectado
      <3> QED BY <1>2, <3>1, <3>2, <3>3, <3>4 DEF Bien
    <2> QED BY <2>2, <2>3
  <1>8. ASSUME NEW p \in Procesos, Entrega(p)
        PROVE  ColasSinRepetir' /\ \A q \in Procesos : Bien(q)
    <2>1. ColasSinRepetir' /\ \A q : Esperas(q)' = Esperas(q)
      BY <1>1, <1>8, MismasEsperas DEF Entrega
    <2>2. ASSUME NEW q \in Procesos PROVE Bien(q)
      <3>1. Veces(q, LISTA_READY') = Veces(q, LISTA_READY) + (IF q = p THEN 1 ELSE 0)
        BY <1>4, <1>8, VecesAgregar DEF Entrega
      <3>2. UNCHANGED <<LISTA_NEW, LISTA_EXEC, LISTA_BLOCKED, LISTA_EXIT, consola>>
        BY <1>8 DEF Entrega
      <3>3. Apariciones(q)' = Apariciones(q) + (IF q = p THEN 1 ELSE 0)
        BY <1>1, <2>1, <3>1, <3>2, Cuentas
      <3>4. EnColasDe(q)' = EnColasDe(q)
        BY <1>8 DEF Entrega, EnColasDe
      <3>5. EnMano(q) = (IF q = p THEN 1 ELSE 0) /\ EnMano(q)' = 0
        BY <1>8 DEF Entrega, EnMano
      <3>6. Conectado(q)' = Conectado(q)
        BY <1>8 DEF Entrega, Conectado
      <3> QED BY <1>2, <3>3, <3>4, <3>5, <3>6 DEF Bien
    <2> QED BY <2>1, <2>2
  <1>9. CASE MueveElKernel
    <2>1. ColasSinRepetir' /\ \A q \in Procesos : MueveUno(q)
      BY <1>1, <1>9, PasoMueve, FaltaMemoriaCorre, TerminarMueve DEF MueveElKernel, Razones
    <2>2. ASSUME NEW q \in Procesos PROVE Bien(q)
      <3>1. EnColasDe(q)' = EnColasDe(q) /\ EnMano(q)' = EnMano(q)
        BY <1>9 DEF MueveElKernel, varsArchivos, tablas, hilo_fs, EnColasDe, EnMano
      <3>2. Apariciones(q)' = Apariciones(q) + Conectado(q)' - Conectado(q)
        BY <2>1 DEF MueveUno
      <3>3. Conectado(q)' \in Nat
        BY DEF Conectado
      <3> QED BY <1>2, <3>1, <3>2, <3>3 DEF Bien
    <2> QED BY <2>1, <2>2
  <1>10. CASE Quietos
    <2>1. ColasSinRepetir' /\ \A q : Esperas(q)' = Esperas(q)
      BY <1>1, <1>10, MismasEsperas DEF Quietos
    <2>2. ASSUME NEW q \in Procesos PROVE Bien(q)
      <3>1. Apariciones(q)' = Apariciones(q)
        BY <1>1, <1>10, <2>1, Cuentas DEF Quietos, listas
      <3>2. /\ EnColasDe(q)' = EnColasDe(q) /\ EnMano(q)' = EnMano(q)
            /\ Conectado(q)' = Conectado(q)
        BY <1>10 DEF Quietos, EnColasDe, Conectado
      <3> QED BY <1>2, <3>1, <3>2 DEF Bien
    <2> QED BY <2>1, <2>2
  <1> QED BY <1>5, <1>6, <1>7, <1>8, <1>9, <1>10 DEF Movimiento

LEMMA PasoISolo ==
  ASSUME Algoritmo = "FIFO"
  PROVE  /\ ISolo /\ (PasoDeArchivos \/ UNCHANGED varsA) => ISolo'
         /\ ISolo /\ [NextA]_varsA => ISolo'
         /\ ISolo /\ [NextP]_varsP => ISolo'
  <1>1. ISolo /\ (PasoDeArchivos \/ UNCHANGED varsA) => ISolo'
    <2> SUFFICES ASSUME ISolo, PasoDeArchivos \/ UNCHANGED varsA
                 PROVE  ISolo'
      OBVIOUS
    <2>1. IArchivos /\ IArchivos'
      BY PasoIArchivos, MismoIArchivos DEF ISolo
    <2>2. Movimiento
      BY <2>1, TodoEsMovimiento, NadaEsMovimiento
    <2> QED BY <2>1, <2>2, MovimientoUnSolo DEF ISolo
  <1> QED BY <1>1, PasosDeNextA, PasosDeNextP DEF varsP

LEMMA InicioISolo ==
  ASSUME InitA
  PROVE  ISolo
  <1>1. IArchivos /\ IEstados
    BY InicioIArchivos, InicioIEstados DEF InitA
  <1>2. ASSUME NEW q \in Procesos
        PROVE  Apariciones(q) + EnColasDe(q) + EnMano(q) = Conectado(q)
    <2>1. EnColasDe(q) = 0
      BY EntradasVacias DEF EnColasDe, InitA
    <2>2. EnMano(q) = 0
      BY DEF InitA, EnMano
    <2>3. Apariciones(q) = Conectado(q)
      BY <1>1 DEF IEstados, UnSoloEstado, Conectado
    <2>4. Conectado(q) \in Nat
      BY DEF Conectado
    <2> QED BY <2>1, <2>2, <2>3, <2>4
  <1> QED BY <1>1, <1>2, UnSoloEstadoEs DEF ISolo, IEstados

\* With the queues of the files and the process that the thread of the answers
\* has in hand, a process is still in exactly one list from the moment it
\* connects, through opens, operations, closes and compactions.
THEOREM CadaUnoEnSuListaConArchivos ==
  ASSUME Algoritmo = "FIFO"
  PROVE  /\ SpecA => []UnSoloEstadoA
         /\ SpecP => []UnSoloEstadoA
  <1>1. ISolo => UnSoloEstadoA
    BY DEF ISolo
  <1>2. ISolo /\ [NextA]_varsA => ISolo'
    BY PasoISolo
  <1>3. ISolo /\ [NextP]_varsP => ISolo'
    BY PasoISolo
  <1>4. SpecA => []UnSoloEstadoA
    BY <1>1, <1>2, InicioISolo, PTL DEF SpecA
  <1>5. SpecP => []UnSoloEstadoA
    <2>1. InitP => ISolo
      BY InicioISolo DEF InitP
    <2> QED BY <1>1, <1>3, <2>1, PTL DEF SpecP
  <1> QED BY <1>4, <1>5

-----------------------------------------------------------------------------
(* The wait of a compaction that begins with one operation at most.        *)

\* From the unlocked read to EMPEZA_A_COMPACTAR: the operation that was counted
\* is still to be discounted, and then there is no post to go on with; or it is
\* not, and then none is under way.
EsperaBien(n, pg, pf, espera) ==
  /\ pg \in {"fija_espera", "espera_operaciones"} =>
       n <= 1 /\ (n = 1 => pf \notin {"desbloquea", "avisa"})
  /\ pg = "espera_operaciones" => (n = 1 => espera = 0)
  /\ pg \in {"baja_aviso", "compacta"} => n = 0

IEspera ==
  /\ IArchivos
  /\ ~solapada => EsperaBien(instruccion_en_fs, pc_general, pc_fs, espera_instrucciones)

LEMMA PasoIEspera ==
  ASSUME IEspera, [NextP]_varsP
  PROVE  IEspera'
  <1> DEFINE Bien == ~solapada => EsperaBien(instruccion_en_fs, pc_general, pc_fs,
                                             espera_instrucciones)
  <1>1. /\ IArchivos /\ IArchivos' /\ Bien
    BY PasosDeNextP, PasoIArchivos, MismoIArchivos DEF IEspera, varsP
  <1>2. /\ instruccion_en_fs \in Nat /\ instruccion_en_fs' \in Nat
        /\ espera_instrucciones \in Nat
    BY <1>1 DEF IArchivos, TiposA, TypeOKA
  <1> SUFFICES Bien'
    BY <1>1 DEF IEspera
  \* hilo_general is not in the wait after the step.
  <1>3. ASSUME pc_general' \notin {"fija_espera", "espera_operaciones", "baja_aviso",
                                   "compacta"}
        PROVE  Bien'
    BY <1>3 DEF EsperaBien
  \* The step has nothing to do with the wait.
  <1>4. ASSUME UNCHANGED <<pc_general, instruccion_en_fs, espera_instrucciones, solapada>>,
               pc_fs' \in {"desbloquea", "avisa"} => pc_fs \in {"desbloquea", "avisa"}
        PROVE  Bien'
    BY <1>1, <1>4 DEF EsperaBien
  <1> USE DEF hilos, canales, compactacion, tablas, hilo_fs
  <1>5. CASE DelKernel /\ UNCHANGED solapada
    <2>1. [Next]_vars /\ UNCHANGED varsArchivos
      BY <1>5, DelKernelEsNext
    <2>2. pc_general' = pc_general \/ pc_general' \in EsperasDelKernel
      BY <2>1, EsperasDeNext
    <2> QED BY <1>3, <1>4, <1>5, <2>1, <2>2 DEF varsArchivos, EsperasDelKernel
  <1>6. ASSUME NEW p \in Procesos, HandlerArchivo(p)
        PROVE  Bien'
    BY <1>3, <1>6
    DEF HandlerArchivo, FOpenEsperar, FOpenPedir, FClose, PedirOperacion, LiberarCPU,
        devolver_ce_a_cpu, Devuelve
  <1>7. CASE BloquearEnArchivo \/ RespuestaAbierto
    BY <1>3, <1>7 DEF BloquearEnArchivo, LiberarCPU, RespuestaAbierto
  <1>8. CASE (AtenderPedido \/ RespuestaInexistente \/ RespuestaIgnorada)
             /\ UNCHANGED solapada
    BY <1>4, <1>8 DEF AtenderPedido, RespuestaInexistente, RespuestaIgnorada, vars
  <1>9. CASE (RespuestaOK \/ SacarDeColaVacia \/ Desbloquear) /\ UNCHANGED solapada
    BY <1>4, <1>9 DEF RespuestaOK, SacarDeColaVacia, Desbloquear, vars
  <1>10. CASE SacarDeBlocked /\ UNCHANGED solapada
    <2>1. /\ instruccion_en_fs' = instruccion_en_fs - 1
          /\ UNCHANGED <<pc_general, espera_instrucciones, solapada>>
      BY <1>10 DEF SacarDeBlocked, vars
    <2> QED BY <1>1, <1>2, <2>1 DEF EsperaBien
  <1>11. ASSUME NEW p \in Procesos, CrearSegmento(p)
         PROVE  Bien'
    BY <1>3, <1>11
    DEF CrearSegmento, CrearSinMemoria, terminar_consola, NecesitoCompactar
  <1>12. CASE MirarOperaciones
    <2>1. /\ instruccion_en_fs' = instruccion_en_fs /\ pc_fs' = pc_fs
          /\ pc_general' = IF instruccion_en_fs > 0 THEN "fija_espera" ELSE "baja_aviso"
      BY <1>12 DEF MirarOperaciones, SoloEspera
    <2>2. ASSUME ~solapada'
          PROVE  instruccion_en_fs <= 1 /\ pc_fs \notin {"desbloquea", "avisa"}
      <3>1. ~(instruccion_en_fs > 1 \/ pc_fs \in {"desbloquea", "avisa"})
        BY <1>12, <2>2, Zenon DEF MirarOperaciones
      <3> QED BY <1>2, <3>1
    <2> QED BY <1>2, <2>1, <2>2 DEF EsperaBien
  <1>13. CASE FijarEspera
    BY <1>1, <1>2, <1>13 DEF FijarEspera, ValorInicial, SoloEspera, EsperaBien
  <1>14. CASE EsperarOperaciones
    BY <1>1, <1>2, <1>14 DEF EsperarOperaciones, SoloEspera, EsperaBien
  <1>15. CASE PedirCompactacion
    BY <1>1, <1>2, <1>15 DEF PedirCompactacion, SoloEspera, EsperaBien
  <1>16. CASE FinDeCompactacion
    BY <1>3, <1>16 DEF FinDeCompactacion
  <1>17. CASE MirarAviso /\ UNCHANGED solapada
    BY <1>4, <1>17 DEF MirarAviso, vars
  <1>18. CASE Avisar /\ UNCHANGED solapada
    BY <1>1, <1>2, <1>18 DEF Avisar, EsperaBien
  <1>19. CASE UNCHANGED varsP
    BY <1>4, <1>19 DEF varsP, varsA, vars, varsArchivos
  <1> HIDE DEF Bien
  <1> QED BY <1>5, <1>6, <1>7, <1>8, <1>9, <1>10, <1>11, <1>12, <1>13, <1>14, <1>15,
             <1>16, <1>17, <1>18, <1>19
          DEF NextP, NextA, DelKernel, HiloRespuestas, Compactar, AvisoDelFS

\* A compaction asked for while at most one operation was counted, and none was
\* between its discount and its post, begins with the filesystem idle: neither
\* the unlocked read nor the -instruccion_en_fs+1 of the sem_init loses the race
\* with the answer (esperandoParaCompactar).
THEOREM CompactaConElFSQuieto == SpecP => []EsperaLaOperacion
  <1>1. ASSUME IEspera
        PROVE  EsperaLaOperacion
    <2> SUFFICES ASSUME pc_general = "compacta", ~solapada
                 PROVE  SinTerminar = 0
      BY DEF EsperaLaOperacion
    <2>1. TiposA /\ OperacionesContadas /\ instruccion_en_fs = 0
      BY <1>1 DEF IEspera, EsperaBien, IArchivos
    <2>2. pedidos \in Seq(Mensajes) /\ respuestas \in Seq(Contestadas)
      BY <2>1, CanalesTipo
    <2>3. /\ SinTerminar = Cuantos(pedidos, OperacionesPedidas)
          /\ Cuantos(pedidos, OperacionesPedidas) \in Nat
          /\ Cuantos(respuestas, OperacionesContestadas) \in Nat
      BY <2>2, CuentaDeCanales DEF SinTerminar
    <2>4. EnVuelo = SinTerminar + Cuantos(respuestas, OperacionesContestadas)
                      + EnManos(pc_fs)
      BY <2>1, <2>3, EnVueloSon
    <2>5. 0 >= EnVuelo
      BY <2>1 DEF OperacionesContadas
    <2>6. EnManos(pc_fs) \in Nat
      BY DEF EnManos
    <2> QED BY <2>3, <2>4, <2>5, <2>6
  <1>2. InitP => IEspera
    BY InicioIArchivos DEF InitP, InitA, Init, IEspera, EsperaBien
  <1>3. IEspera /\ [NextP]_varsP => IEspera'
    BY PasoIEspera
  <1> QED BY <1>1, <1>2, <1>3, PTL DEF SpecP

-----------------------------------------------------------------------------
(* The use of a file, when nobody blocks on an operation.                  *)

LEMMA CanalesVacios ==
  ASSUME NEW s \in Seq(Mensajes), NEW t \in Seq(Contestadas),
         Cuantos(s, AperturasPedidas) + Cuantos(t, AperturasContestadas) = 0,
         Cuantos(s, OperacionesPedidas) + Cuantos(t, OperacionesContestadas) = 0
  PROVE  s = <<>> /\ t = <<>>
  <1>1. /\ Cuantos(s, AperturasPedidas) = 0 /\ Cuantos(t, AperturasContestadas) = 0
        /\ Cuantos(s, OperacionesPedidas) = 0 /\ Cuantos(t, OperacionesContestadas) = 0
    <2>1. /\ Cuantos(s, AperturasPedidas) \in Nat /\ Cuantos(t, AperturasContestadas) \in Nat
          /\ Cuantos(s, OperacionesPedidas) \in Nat
          /\ Cuantos(t, OperacionesContestadas) \in Nat
      BY CuantosTipo
    <2> QED BY <2>1
  <1>2. \A i \in DOMAIN s : s[i] \notin AperturasPedidas /\ s[i] \notin OperacionesPedidas
    BY <1>1, CuantosTipo
  <1>3. \A i \in DOMAIN t : t[i] \notin AperturasContestadas /\ t[i] \notin OperacionesContestadas
    BY <1>1, CuantosTipo
  <1>4. \A m \in Mensajes : m \in AperturasPedidas \/ m \in OperacionesPedidas
    BY DEF Mensajes, TiposDePedido, AperturasPedidas, OperacionesPedidas, Piden
  <1>5. \A m \in Contestadas : m \in AperturasContestadas \/ m \in OperacionesContestadas
    BY DEF Contestadas, Headers, AperturasContestadas, OperacionesContestadas, Contestan
  <1>6. /\ \A S : \A x \in Seq(S) : (\A i \in DOMAIN x : x[i] \in S)
        /\ \A S : \A x \in Seq(S) : DOMAIN x = {} => x = <<>>
    OBVIOUS
  <1>7. DOMAIN s = {} /\ DOMAIN t = {}
    BY <1>2, <1>3, <1>4, <1>5, <1>6
  <1> QED BY <1>6, <1>7

\* A file that is not open has no queue and is in nobody's table.
Cerrados ==
  \A f \in NombresDeArchivo : f \notin TGAA =>
    lista_block_archivo[f] = <<>> /\ \A p \in Procesos : f \notin taap[p]

\* Who waits for a file has it in its table already.
EsperanAbierto ==
  \A f \in NombresDeArchivo, p \in Procesos :
    Aparece(p, lista_block_archivo[f]) => f \in taap[p]

UnDueno == \A f \in NombresDeArchivo : \A p, q \in Dueno(f) : p = q

Uso == Cerrados /\ EsperanAbierto /\ UnDueno

\* The files that are being opened are not open.
PorAbrir ==
  /\ \A i \in DOMAIN pedidos : pedidos[i].archivo \notin TGAA
  /\ \A i \in DOMAIN respuestas : respuestas[i].archivo \notin TGAA

SinOperaciones ==
  instruccion_en_fs = 0 /\ pc_fs = "espera_respuesta" /\ pc_general # "bloquea_en_archivo"

IExclusivo ==
  /\ ISolo
  /\ SinOperaciones
  /\ Uso /\ PorAbrir

\* The process a handler runs for waits for no file.
LEMMA EjecutaSinEsperar ==
  ASSUME ISolo, NEW p \in Procesos, Devuelve(p), NEW f \in NombresDeArchivo
  PROVE  ~Aparece(p, lista_block_archivo[f])
  <1>1. IInv /\ TiposA /\ IArchivos /\ UnSoloEstadoA
    BY DEF ISolo, IArchivos
  <1>2. Veces(p, LISTA_EXEC) = 1
    BY <1>1, SoloSinRepetir, SoloEnExecSiempre
  <1>3. /\ Veces(p, LISTA_NEW) \in Nat /\ Veces(p, LISTA_READY) \in Nat
        /\ LISTA_BLOCKED[p] \in Nat /\ Esperas(p) \in Nat
        /\ Apariciones(p) =
             Veces(p, LISTA_NEW) + Veces(p, LISTA_READY) + Veces(p, LISTA_EXEC)
               + LISTA_BLOCKED[p] + (IF p \in LISTA_EXIT THEN 1 ELSE 0) + Esperas(p)
    BY <1>1, CuentasAhora
  <1>4. Apariciones(p) \in Nat /\ Apariciones(p) >= 1
    BY <1>2, <1>3
  <1>5. EnColasDe(p) = 0
    <2>1. Apariciones(p) + EnColasDe(p) + EnMano(p) = Conectado(p)
      BY <1>1, UnSoloEstadoEs
    <2>2. EnColasDe(p) \in Nat /\ EnMano(p) \in Nat /\ Conectado(p) \in {0, 1}
      BY <1>1, SoloSinRepetir DEF EnMano, Conectado
    <2> QED BY <1>4, <2>1, <2>2
  <1>6. lista_block_archivo \in Colas
    BY <1>1 DEF TiposA, TypeOKA, Colas
  <1>7. EntradasDe(lista_block_archivo, {p}) = {}
    BY <1>5, <1>6, EntradasFinitas, FS_EmptySet DEF EnColasDe
  <1>8. ASSUME NEW i \in DOMAIN lista_block_archivo[f], lista_block_archivo[f][i] = p
        PROVE  FALSE
    <2>1. i \in 1 .. Len(lista_block_archivo[f])
      BY <1>6 DEF Colas
    <2>2. <<f, i>> \in EntradasDe(lista_block_archivo, {p})
      BY <1>6, <1>8, <2>1, EntradaEs
    <2> QED BY <1>7, <2>2
  <1> QED BY <1>8 DEF Aparece

LEMMA PasoIExclusivo ==
  ASSUME Algoritmo = "FIFO", OperacionesES = {}, IExclusivo, PasoDeArchivos
  PROVE  IExclusivo'
  <1>1. /\ ISolo /\ ISolo' /\ IArchivos /\ IArchivos' /\ IInv /\ TiposA /\ TiposA'
        /\ SinOperaciones /\ Cerrados /\ EsperanAbierto /\ UnDueno /\ PorAbrir
    BY PasoISolo DEF IExclusivo, Uso, ISolo, IArchivos
  <1>2. /\ lista_block_archivo \in [NombresDeArchivo -> Seq(Procesos)]
        /\ taap \in [Procesos -> SUBSET NombresDeArchivo]
        /\ pedidos \in Seq(Mensajes) /\ respuestas \in Seq(Contestadas)
        /\ pedidos' \in Seq(Mensajes) /\ respuestas' \in Seq(Contestadas)
    BY <1>1 DEF TiposA, TypeOKA, Mensajes, Contestadas
  \* An operation in flight would be counted.
  <1>3. /\ Cuantos(respuestas, OperacionesContestadas) = 0
        /\ Cuantos(pedidos, OperacionesPedidas) = 0
    <2>1. /\ Cuantos(pedidos, OperacionesPedidas) \in Nat
          /\ Cuantos(respuestas, OperacionesContestadas) \in Nat
      BY <1>2, CuantosTipo
    <2>2. EnVuelo = Cuantos(pedidos, OperacionesPedidas)
                      + Cuantos(respuestas, OperacionesContestadas) + 0
      BY <1>1, EnVueloSon DEF SinOperaciones, EnManos
    <2>3. 0 >= EnVuelo
      BY <1>1 DEF IArchivos, OperacionesContadas, SinOperaciones
    <2> QED BY <2>1, <2>2, <2>3
  <1>4. ~RespuestaOK /\ ~RespuestaIgnorada
    <2>1. ASSUME Recibe({"FS_OK"}) \/ Recibe({"FS_ERROR"})
          PROVE  FALSE
      <3>1. 1 \in DOMAIN respuestas /\ respuestas[1] \in OperacionesContestadas
        BY <1>1, <2>1, Recibida DEF OperacionesContestadas, Contestan
      <3> QED BY <1>2, <1>3, <3>1, CuantosTipo
    <2> QED BY <2>1 DEF RespuestaOK, RespuestaIgnorada
  <1> USE DEF hilos, canales, compactacion, tablas, hilo_fs
  <1>5. SinOperaciones'
    <2>1. ASSUME NEW p \in Procesos, HandlerArchivo(p)
          PROVE  SinOperaciones'
      BY <1>1, <2>1
      DEF HandlerArchivo, FOpenEsperar, FOpenPedir, FClose, LiberarCPU,
          devolver_ce_a_cpu, SinOperaciones
    <2>2. CASE DelKernel
      <3>1. UNCHANGED varsArchivos /\ [Next]_vars
        BY <2>2, DelKernelEsNext
      <3> QED BY <1>1, <3>1, EsperasDeNext
              DEF EsperasDelKernel, varsArchivos, SinOperaciones
    <2>3. CASE BloquearEnArchivo
      BY <1>1, <2>3 DEF BloquearEnArchivo, SinOperaciones
    <2>4. CASE AtenderPedido \/ HiloRespuestas
      BY <1>1, <1>4, <2>4
      DEF AtenderPedido, HiloRespuestas, RespuestaAbierto, RespuestaInexistente,
          SacarDeBlocked, SacarDeColaVacia, Desbloquear, vars, SinOperaciones
    <2>5. CASE DeLaEspera
      <3>1. pc_fs' = pc_fs /\ instruccion_en_fs' = instruccion_en_fs
        BY <1>1, <2>5
        DEF DeLaEspera, CrearSegmento, CrearSinMemoria, NecesitoCompactar, Compactar,
            MirarOperaciones, FijarEspera, EsperarOperaciones, PedirCompactacion,
            FinDeCompactacion, AvisoDelFS, MirarAviso, Avisar, SoloEspera,
            varsArchivos, SinOperaciones
      <3>2. pc_general' # "bloquea_en_archivo"
        BY <1>1, <2>5
        DEF DeLaEspera, CrearSegmento, CrearSinMemoria, terminar_consola,
            NecesitoCompactar, Compactar, MirarOperaciones, FijarEspera,
            EsperarOperaciones, PedirCompactacion, FinDeCompactacion, AvisoDelFS,
            MirarAviso, Avisar, SinOperaciones
      <3> QED BY <1>1, <3>1, <3>2 DEF SinOperaciones
    <2> QED BY <2>1, <2>2, <2>3, <2>4, <2>5 DEF PasoDeArchivos
  \* Steps that open, close and queue nothing.
  <1>6. ASSUME UNCHANGED <<TGAA, taap, lista_block_archivo>>
        PROVE  Uso'
    BY <1>1, <1>6 DEF Uso, Cerrados, EsperanAbierto, UnDueno, Dueno
  <1>7. ASSUME TGAA' \subseteq TGAA, pedidos' = pedidos, respuestas' = respuestas
        PROVE  PorAbrir'
    BY <1>1, <1>7 DEF PorAbrir
  \* The sequences of processes.
  <1>8. /\ \A c \in Seq(Procesos), p, q \in Procesos :
             Aparece(q, Append(c, p)) <=> Aparece(q, c) \/ q = p
        /\ \A c \in Seq(Procesos), q \in Procesos : c # <<>> =>
             (Aparece(q, c) <=> Aparece(q, Tail(c)) \/ q = Head(c))
        /\ \A q : ~Aparece(q, <<>>)
    <2>1. ASSUME NEW c \in Seq(Procesos), NEW p \in Procesos, NEW q \in Procesos
          PROVE  Aparece(q, Append(c, p)) <=> Aparece(q, c) \/ q = p
      BY DEF Aparece
    <2>2. ASSUME NEW c \in Seq(Procesos), NEW q \in Procesos, c # <<>>
          PROVE  Aparece(q, c) <=> Aparece(q, Tail(c)) \/ q = Head(c)
      <3>1. /\ Veces(q, Tail(c)) = Veces(q, c) - (IF q = Head(c) THEN 1 ELSE 0)
            /\ Tail(c) \in Seq(Procesos)
        BY <2>2, VecesSacar, SacarDeCola
      <3>2. /\ Veces(q, c) \in Nat
            /\ (Veces(q, c) = 0) <=> ~Aparece(q, c)
            /\ Veces(q, Tail(c)) \in Nat
            /\ (Veces(q, Tail(c)) = 0) <=> ~Aparece(q, Tail(c))
        BY <3>1, VecesTipo
      <3>3. CASE q = Head(c)
        <4>1. Aparece(q, c)
          BY <2>2, <3>3, \A s \in Seq(Procesos) : s # <<>> => 1 \in DOMAIN s /\ s[1] = Head(s)
             DEF Aparece
        <4> QED BY <3>3, <4>1
      <3>4. CASE q # Head(c)
        <4>1. Veces(q, Tail(c)) = Veces(q, c)
          BY <3>1, <3>2, <3>4
        <4> QED BY <3>2, <3>4, <4>1
      <3> QED BY <3>3, <3>4
    <2>3. \A q : ~Aparece(q, <<>>)
      BY DEF Aparece
    <2> QED BY <2>1, <2>2, <2>3
  <1>9. ASSUME NEW p \in Procesos, NEW f \in NombresDeArchivo, FOpenEsperar(p, f)
        PROVE  Uso' /\ PorAbrir'
    <2>1. /\ taap' = [taap EXCEPT ![p] = @ \union {f}] /\ f \in TGAA /\ f \notin taap[p]
          /\ lista_block_archivo' = [lista_block_archivo EXCEPT ![f] = Append(@, p)]
          /\ UNCHANGED <<TGAA, pedidos, respuestas>>
      BY <1>9 DEF FOpenEsperar, pasar_a_blocked_de_archivo
    <2>2. \A g \in NombresDeArchivo, q \in Procesos :
            /\ g \in taap'[q] <=> g \in taap[q] \/ (g = f /\ q = p)
            /\ Aparece(q, lista_block_archivo'[g])
                 <=> Aparece(q, lista_block_archivo[g]) \/ (g = f /\ q = p)
            /\ g # f => lista_block_archivo'[g] = lista_block_archivo[g]
      BY <1>2, <1>8, <2>1
    <2>3. Cerrados'
      BY <1>1, <2>1, <2>2 DEF Cerrados
    <2>4. EsperanAbierto'
      BY <1>1, <2>2 DEF EsperanAbierto
    <2>5. UnDueno'
      BY <1>1, <2>2 DEF UnDueno, Dueno
    <2> QED BY <1>7, <2>1, <2>3, <2>4, <2>5 DEF Uso
  <1>10. ASSUME NEW p \in Procesos, NEW f \in NombresDeArchivo, FOpenPedir(p, f)
         PROVE  Uso' /\ PorAbrir'
    <2>1. /\ pedidos' = Append(pedidos, Pedido("F_OPEN", f, p)) /\ f \notin TGAA
          /\ UNCHANGED <<TGAA, taap, lista_block_archivo, respuestas>>
      BY <1>10 DEF FOpenPedir
    <2>2. Pedido("F_OPEN", f, p) \in Mensajes /\ Pedido("F_OPEN", f, p).archivo = f
      BY DEF Pedido, Mensajes, TiposDePedido
    <2>3. PorAbrir'
      BY <1>1, <1>2, <2>1, <2>2 DEF PorAbrir
    <2> QED BY <1>6, <2>1, <2>3
  <1>11. ASSUME NEW p \in Procesos, NEW f \in NombresDeArchivo, FClose(p, f)
         PROVE  Uso' /\ PorAbrir'
    <2>1. /\ taap' = [taap EXCEPT ![p] = @ \ {f}] /\ f \in taap[p]
          /\ UNCHANGED <<pedidos, respuestas>>
      BY <1>11 DEF FClose
    <2>2. ~Aparece(p, lista_block_archivo[f])
      BY <1>1, <1>11, EjecutaSinEsperar DEF FClose
    <2>3. p \in Dueno(f) /\ f \in TGAA
      BY <1>1, <2>1, <2>2 DEF Dueno, Cerrados
    <2>4. \A g \in NombresDeArchivo, q \in Procesos :
            g \in taap'[q] <=> g \in taap[q] /\ ~(g = f /\ q = p)
      BY <1>2, <2>1
    <2>5. CASE DesbloquearPrimero(f)
      <3>1. /\ lista_block_archivo[f] # <<>> /\ TGAA' = TGAA
            /\ lista_block_archivo' = [lista_block_archivo EXCEPT ![f] = Tail(@)]
        BY <2>5 DEF DesbloquearPrimero
      <3>2. \A g \in NombresDeArchivo, q \in Procesos :
              /\ Aparece(q, lista_block_archivo'[g]) => Aparece(q, lista_block_archivo[g])
              /\ Aparece(q, lista_block_archivo[g]) /\ ~Aparece(q, lista_block_archivo'[g])
                   => g = f /\ q = Head(lista_block_archivo[f])
              /\ g # f => lista_block_archivo'[g] = lista_block_archivo[g]
        BY <1>2, <1>8, <3>1
      <3>3. Cerrados'
        BY <1>1, <2>3, <2>4, <3>1, <3>2 DEF Cerrados
      <3>4. EsperanAbierto'
        BY <1>1, <2>2, <2>4, <3>2 DEF EsperanAbierto
      <3>5. UnDueno'
        <4> SUFFICES ASSUME NEW g \in NombresDeArchivo,
                            NEW q \in Dueno(g)', NEW r \in Dueno(g)'
                     PROVE  q = r
          BY DEF UnDueno
        <4>1. CASE g # f
          BY <1>1, <2>4, <3>2, <4>1 DEF UnDueno, Dueno
        <4>2. CASE g = f
          <5>1. \A x \in Dueno(f)' : x = Head(lista_block_archivo[f])
            <6> TAKE x \in Dueno(f)'
            <6>1. x \in Procesos /\ f \in taap[x] /\ x # p
                  /\ ~Aparece(x, lista_block_archivo'[f])
              BY <2>4 DEF Dueno
            <6>2. x \notin Dueno(f)
              BY <1>1, <2>3, <6>1 DEF UnDueno
            <6>3. Aparece(x, lista_block_archivo[f])
              BY <6>1, <6>2 DEF Dueno
            <6> QED BY <3>2, <6>1, <6>3
          <5> QED BY <4>2, <5>1
        <4> QED BY <4>1, <4>2
      <3>6. PorAbrir'
        BY <1>7, <2>1, <3>1
      <3> QED BY <3>3, <3>4, <3>5, <3>6 DEF Uso
    <2>6. CASE quitarArchivoEnTGAA(f)
      <3>1. /\ lista_block_archivo[f] = <<>> /\ TGAA' = TGAA \ {f}
            /\ lista_block_archivo' = lista_block_archivo
        BY <2>6 DEF quitarArchivoEnTGAA
      <3>2. \A q \in Procesos : f \notin taap'[q]
        <4> SUFFICES ASSUME NEW q \in Procesos, f \in taap'[q]
                     PROVE  FALSE
          OBVIOUS
        <4>1. f \in taap[q] /\ q # p
          BY <2>4
        <4>2. q \in Dueno(f)
          BY <1>8, <3>1, <4>1 DEF Dueno
        <4> QED BY <1>1, <2>3, <4>1, <4>2 DEF UnDueno
      <3>3. Cerrados'
        BY <1>1, <2>4, <3>1, <3>2 DEF Cerrados
      <3>4. EsperanAbierto'
        BY <1>1, <2>2, <2>4, <3>1 DEF EsperanAbierto
      <3>5. UnDueno'
        BY <1>1, <2>4, <3>1 DEF UnDueno, Dueno
      <3>6. PorAbrir'
        BY <1>7, <2>1, <3>1
      <3> QED BY <3>3, <3>4, <3>5, <3>6 DEF Uso
    <2> QED BY <1>11, <2>5, <2>6 DEF FClose
  <1>12. ASSUME AtenderPedido
         PROVE  Uso' /\ PorAbrir'
    <2>1. UNCHANGED <<TGAA, taap, lista_block_archivo>>
      BY <1>12 DEF AtenderPedido
    <2>2. PICK m \in Mensajes : \E h \in Contestaciones(m) :
            /\ pedidos # <<>> /\ m = Head(pedidos) /\ pedidos' = Tail(pedidos)
            /\ Respuesta(h, m) \in Contestadas /\ Respuesta(h, m).archivo = m.archivo
            /\ respuestas' = Append(respuestas, Respuesta(h, m))
      BY <1>1, <1>12, Atendida
    <2>3. PICK x \in Contestadas :
            x.archivo = m.archivo /\ respuestas' = Append(respuestas, x)
      BY <2>2
    <2>4. \A s \in Seq(Mensajes) : s # <<>> =>
            /\ 1 \in DOMAIN s /\ Head(s) = s[1]
            /\ \A i \in DOMAIN Tail(s) : i + 1 \in DOMAIN s /\ Tail(s)[i] = s[i + 1]
      OBVIOUS
    <2>5. m.archivo \notin TGAA
      BY <1>1, <1>2, <2>2, <2>4 DEF PorAbrir
    <2>6. \A i \in DOMAIN pedidos' : pedidos'[i].archivo \notin TGAA
      BY <1>1, <1>2, <2>2, <2>4 DEF PorAbrir
    <2>7. \A i \in DOMAIN respuestas' : respuestas'[i].archivo \notin TGAA
      <3>1. \A i \in DOMAIN Append(respuestas, x) :
              Append(respuestas, x)[i] = x \/ (i \in DOMAIN respuestas
                                    /\ Append(respuestas, x)[i] = respuestas[i])
        BY <1>2
      <3> QED BY <1>1, <2>3, <2>5, <3>1 DEF PorAbrir
    <2>8. Uso'
      BY <1>6, <2>1
    <2>9. PorAbrir'
      BY <2>1, <2>6, <2>7 DEF PorAbrir
    <2> QED BY <2>8, <2>9
  <1>13. ASSUME RespuestaAbierto
         PROVE  Uso' /\ PorAbrir'
    <2> DEFINE f == Head(respuestas).archivo
               p == pcb_ejecutando
    <2>1. /\ Recibe({"FS_OPEN_OK", "FS_CREATE_OK"})
          /\ TGAA' = TGAA \union {f} /\ taap' = [taap EXCEPT ![p] = @ \union {f}]
          /\ lista_block_archivo' = lista_block_archivo /\ pc_general' = "espera_cym"
      BY <1>13 DEF RespuestaAbierto
    <2>2. f \in NombresDeArchivo /\ f \notin TGAA
      <3>1. f \in NombresDeArchivo /\ 1 \in DOMAIN respuestas
            /\ respuestas[1] = Head(respuestas)
        BY <1>1, <2>1, Recibida
      <3> QED BY <1>1, <3>1 DEF PorAbrir
    <2>3. p \in Procesos
      <3>1. pc_general = "espera_fs"
        BY <1>1, <2>1, AbiertaEnEspera DEF IArchivos
      <3> QED BY <1>1, <3>1, Ocupada
    <2> HIDE DEF f, p
    <2>4. lista_block_archivo[f] = <<>> /\ \A q \in Procesos : f \notin taap[q]
      BY <1>1, <2>2 DEF Cerrados
    <2>5. \A g \in NombresDeArchivo, q \in Procesos :
            g \in taap'[q] <=> g \in taap[q] \/ (g = f /\ q = p)
      BY <1>2, <2>1, <2>3
    <2>6. Cerrados'
      BY <1>1, <2>1, <2>5 DEF Cerrados
    <2>7. EsperanAbierto'
      BY <1>1, <2>1, <2>5 DEF EsperanAbierto
    <2>8. UnDueno'
      BY <1>1, <2>1, <2>4, <2>5 DEF UnDueno, Dueno
    \* It was the only message there was.
    <2>9. pedidos' = <<>> /\ respuestas' = <<>>
      <3>1. Cuantos(pedidos', AperturasPedidas) + Cuantos(respuestas', AperturasContestadas) = 0
        BY <1>1, <2>1 DEF IArchivos, Apertura, Abriendo
      <3>2. Cuantos(pedidos', OperacionesPedidas)
              + Cuantos(respuestas', OperacionesContestadas) = 0
        <4>1. /\ Cuantos(pedidos', OperacionesPedidas) \in Nat
              /\ Cuantos(respuestas', OperacionesContestadas) \in Nat
          BY <1>2, CuantosTipo
        <4>2. EnVuelo' = Cuantos(pedidos', OperacionesPedidas)
                          + Cuantos(respuestas', OperacionesContestadas) + 0
          BY <1>1, <1>5, EnVueloSon DEF SinOperaciones, EnManos
        <4>3. 0 >= EnVuelo'
          BY <1>1, <1>5 DEF IArchivos, OperacionesContadas, SinOperaciones
        <4> QED BY <4>1, <4>2, <4>3
      <3> QED BY <1>2, <3>1, <3>2, CanalesVacios
    <2>10. PorAbrir'
      BY <2>9 DEF PorAbrir
    <2> QED BY <2>6, <2>7, <2>8, <2>10 DEF Uso
  <1>14. ASSUME RespuestaInexistente
         PROVE  Uso' /\ PorAbrir'
    <2> DEFINE m == Pedido("F_CREATE", Head(respuestas).archivo, Head(respuestas).proc)
    <2>1. /\ Recibe({"FS_OPEN_NO_OK"}) /\ pedidos' = Append(pedidos, m)
          /\ UNCHANGED <<TGAA, taap, lista_block_archivo>>
      BY <1>14 DEF RespuestaInexistente
    <2>2. /\ respuestas # <<>> /\ respuestas' = Tail(respuestas)
          /\ Head(respuestas).archivo \in NombresDeArchivo
          /\ Head(respuestas).proc \in Procesos
          /\ 1 \in DOMAIN respuestas /\ respuestas[1] = Head(respuestas)
      BY <1>1, <2>1, Recibida
    <2>3. m \in Mensajes /\ m.archivo = Head(respuestas).archivo
      BY <2>2 DEF Pedido, Mensajes, TiposDePedido
    <2> HIDE DEF m
    <2>4. \A s \in Seq(Contestadas) : s # <<>> =>
            \A i \in DOMAIN Tail(s) : i + 1 \in DOMAIN s /\ Tail(s)[i] = s[i + 1]
      OBVIOUS
    <2>5. m.archivo \notin TGAA
      BY <1>1, <2>2, <2>3 DEF PorAbrir
    <2>6. \A i \in DOMAIN respuestas' : respuestas'[i].archivo \notin TGAA
      BY <1>1, <1>2, <2>2, <2>4 DEF PorAbrir
    <2>7. \A i \in DOMAIN pedidos' : pedidos'[i].archivo \notin TGAA
      <3>1. \A i \in DOMAIN Append(pedidos, m) :
              Append(pedidos, m)[i] = m \/ (i \in DOMAIN pedidos
                                 /\ Append(pedidos, m)[i] = pedidos[i])
        <4>1. \A T : \A q \in Seq(T), x \in T : \A i \in DOMAIN Append(q, x) :
                Append(q, x)[i] = x \/ (i \in DOMAIN q /\ Append(q, x)[i] = q[i])
          OBVIOUS
        <4> QED BY <1>2, <2>3, <4>1
      <3> QED BY <1>1, <2>1, <2>5, <3>1 DEF PorAbrir
    <2>8. Uso'
      BY <1>6, <2>1
    <2>9. PorAbrir'
      BY <2>1, <2>6, <2>7 DEF PorAbrir
    <2> QED BY <2>8, <2>9
  <1>15. ASSUME DelKernel \/ DeLaEspera
         PROVE  Uso' /\ PorAbrir'
    <2>1. UNCHANGED <<TGAA, taap, lista_block_archivo, pedidos, respuestas>>
      <3>1. CASE DelKernel
        BY <3>1, DelKernelEsNext DEF varsArchivos
      <3>2. CASE DeLaEspera
        BY <3>2
        DEF DeLaEspera, CrearSegmento, CrearSinMemoria, NecesitoCompactar, Compactar,
            MirarOperaciones, FijarEspera, EsperarOperaciones, PedirCompactacion,
            FinDeCompactacion, AvisoDelFS, MirarAviso, Avisar, SoloEspera, varsArchivos
      <3> QED BY <1>15, <3>1, <3>2
    <2> QED BY <1>6, <1>7, <2>1
  <1>16. ~BloquearEnArchivo /\ ~SacarDeBlocked /\ ~SacarDeColaVacia /\ ~Desbloquear
    BY <1>1 DEF SinOperaciones, BloquearEnArchivo, SacarDeBlocked, SacarDeColaVacia,
                Desbloquear
  <1>17. ASSUME NEW p \in Procesos, HandlerArchivo(p)
         PROVE  Uso' /\ PorAbrir'
    <2>1. PICK f \in Usa[p] : FOpenEsperar(p, f) \/ FOpenPedir(p, f) \/ FClose(p, f)
      BY <1>17 DEF HandlerArchivo
    <2>2. f \in NombresDeArchivo
      BY ArchivosAssumption
    <2> QED BY <1>9, <1>10, <1>11, <2>1, <2>2
  <1>18. Uso' /\ PorAbrir'
    BY <1>4, <1>12, <1>13, <1>14, <1>15, <1>16, <1>17
    DEF PasoDeArchivos, HiloRespuestas
  <1> QED BY <1>1, <1>5, <1>18 DEF IExclusivo

LEMMA InicioIExclusivo ==
  ASSUME InitA
  PROVE  IExclusivo
  <1>1. \A q : ~Aparece(q, <<>>)
    BY DEF Aparece
  <1>2. EsperanAbierto /\ Cerrados /\ UnDueno
    BY <1>1 DEF InitA, EsperanAbierto, Cerrados, UnDueno, Dueno
  <1> QED BY <1>2, InicioISolo DEF InitA, Init, IExclusivo, Uso, SinOperaciones, PorAbrir

\* While nobody blocks on an operation, a file is used by one process at a time,
\* and only while it is open: the close hands it to the first that waits, and an
\* open that asks the filesystem finds it closed (F_OPEN, F_CLOSE).
THEOREM ArchivoDeUno ==
  ASSUME Algoritmo = "FIFO", OperacionesES = {}
  PROVE  /\ SpecA => []ArchivoExclusivo
         /\ SpecP => []ArchivoExclusivo
  <1>1. ASSUME IExclusivo
        PROVE  ArchivoExclusivo
    <2> SUFFICES ASSUME NEW f \in NombresDeArchivo
                 PROVE  Cardinality(Dueno(f)) <= 1 /\ (Dueno(f) # {} => f \in TGAA)
      BY DEF ArchivoExclusivo
    <2>1. Cardinality(Dueno(f)) <= 1
      <3>1. CASE Dueno(f) = {}
        BY <3>1, FS_EmptySet
      <3>2. CASE Dueno(f) # {}
        <4>1. PICK p : p \in Dueno(f)
          BY <3>2
        <4>2. \A q \in Dueno(f) : q = p
          BY <1>1, <4>1 DEF IExclusivo, Uso, UnDueno
        <4>3. Dueno(f) = {p}
          BY <4>1, <4>2
        <4> QED BY <4>3, FS_Singleton
      <3> QED BY <3>1, <3>2
    <2>2. Dueno(f) # {} => f \in TGAA
      BY <1>1 DEF IExclusivo, Uso, Cerrados, Dueno
    <2> QED BY <2>1, <2>2
  <1>2. ASSUME IExclusivo, UNCHANGED varsA
        PROVE  IExclusivo'
    <2>1. ISolo'
      BY <1>2, PasoISolo DEF IExclusivo
    <2>2. UNCHANGED <<TGAA, taap, lista_block_archivo, pedidos, respuestas,
                      instruccion_en_fs, pc_fs, pc_general>>
      BY <1>2 DEF varsA, vars, hilos, varsArchivos, tablas, canales, hilo_fs
    <2> QED BY <1>2, <2>1, <2>2
            DEF IExclusivo, Uso, SinOperaciones, Cerrados, EsperanAbierto, UnDueno, Dueno,
                PorAbrir
  <1>3. IExclusivo /\ [NextA]_varsA => IExclusivo'
    BY <1>2, PasosDeNextA, PasoIExclusivo
  <1>4. IExclusivo /\ [NextP]_varsP => IExclusivo'
    BY <1>2, PasosDeNextP, PasoIExclusivo DEF varsP
  <1>5. SpecA => []ArchivoExclusivo
    BY <1>1, <1>3, InicioIExclusivo, PTL DEF SpecA
  <1>6. SpecP => []ArchivoExclusivo
    <2>1. InitP => IExclusivo
      BY InicioIExclusivo DEF InitP
    <2> QED BY <1>1, <1>4, <2>1, PTL DEF SpecP
  <1> QED BY <1>5, <1>6
=============================================================================

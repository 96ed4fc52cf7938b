--------------------------- MODULE BloquesProofs ----------------------------
(***************************************************************************)
(* Proofs about the blocks of the filesystem (modules Bloques and          *)
(* AccesoBloques), for any set of files, any size of block and any number  *)
(* of blocks, enough for the files or not.                                 *)
(*                                                                         *)
(* SinCompartir and BitmapExacto lean on each other: a block that is given *)
(* away is held by nobody because its bit was clear, and a bit that is     *)
(* cleared belongs to nobody else because no block is shared.  IBloques    *)
(* joins to them what the arithmetic of the sizes gives: a file never has  *)
(* more blocks than its block of pointers has room for, and the block of   *)
(* pointers is there as soon as there is a second block.                   *)
(*                                                                         *)
(* ILeido is about what the blocks hold: every byte that was written and   *)
(* not cut off is below the size of its file, has a block, and is in its   *)
(* cell of it.  It leans on SinCompartir (a write to one file changes no   *)
(* byte of another) and on Conserva (no truncation moves a block).         *)
(***************************************************************************)
EXTENDS AccesoBloques, FiniteSetTheorems, SequenceTheorems,
        WellFoundedInduction, TLAPS

-----------------------------------------------------------------------------
(* Loops: a counter from 0, and what each turn leaves.                     *)

Menor == {ss \in Nat \X Nat : ss[1] < ss[2]}

LEMMA Minimo ==
  ASSUME NEW S \in SUBSET Nat, S # {}
  PROVE  \E b \in S : \A c \in S : b <= c
  <1>1. IsWellFoundedOn(OpToRel(<, Nat), Nat) /\ OpToRel(<, Nat) = Menor
    BY NatLessThanWellFounded DEF OpToRel, Menor
  <1>2. PICK b \in S : \A c \in S : ~(<<c, b>> \in Menor)
    <2>1. IsWellFoundedOn(Menor, Nat)
      BY <1>1
    <2> QED BY <2>1, WFMin
  <1>3. ASSUME NEW c \in S
        PROVE  b <= c
    <2>1. b \in Nat /\ c \in Nat
      OBVIOUS
    <2>2. c < b => <<c, b>> \in Menor
      BY <2>1 DEF Menor
    <2> QED BY <1>2, <2>1, <2>2
  <1> QED BY <1>3

\* What holds for 0, and for n + 1 if it holds for n, holds for every n.
LEMMA Induccion ==
  ASSUME NEW S \in SUBSET Nat, 0 \in S, \A n \in S : n + 1 \in S
  PROVE  S = Nat
  <1>1. SUFFICES ASSUME Nat \ S # {}
                 PROVE  FALSE
    OBVIOUS
  <1>2. PICK b \in Nat \ S : \A c \in Nat \ S : b <= c
    BY <1>1, Minimo
  <1>3. b - 1 \in Nat /\ ~(b <= b - 1)
    BY <1>2
  <1> QED BY <1>2, <1>3

\* A loop of n turns from b, where G is what a turn does: it has a result after
\* each of them.
Cierra(n, V, G) == \A i \in 1 .. n : \A v \in V : G[<<i, v>>] \in V
Recorre(h, n, V, b, G) ==
  h \in [0 .. n -> V] /\ h[0] = b /\ \A i \in 1 .. n : h[i] = G[<<i, h[i - 1]>>]

LEMMA Vueltas ==
  ASSUME NEW n \in Nat, NEW V, NEW b \in V, NEW G, Cierra(n, V, G)
  PROVE  \E h : Recorre(h, n, V, b, G)
  <1> DEFINE Va(m, h) == h[0] = b /\ \A i \in 1 .. m : h[i] = G[<<i, h[i - 1]>>]
             S == {m \in Nat : m <= n => \E h \in [0 .. m -> V] : Va(m, h)}
  <1>1. 0 \in S
    <2>1. Va(0, [i \in 0 .. 0 |-> b]) /\ [i \in 0 .. 0 |-> b] \in [0 .. 0 -> V]
      OBVIOUS
    <2> QED BY <2>1
  <1>2. ASSUME NEW m \in S
        PROVE  m + 1 \in S
    <2>1. SUFFICES ASSUME m + 1 <= n
                   PROVE  \E h \in [0 .. m + 1 -> V] : Va(m + 1, h)
      BY DEF S
    <2>2. PICK h \in [0 .. m -> V] : Va(m, h)
      BY <2>1
    <2>3. m + 1 \in 1 .. n /\ h[m] \in V
      BY <2>1, <2>2
    <2>4. PICK x \in V : x = G[<<m + 1, h[m]>>]
      BY <2>3 DEF Cierra
    <2>5. PICK k : k = [i \in 0 .. m + 1 |-> IF i <= m THEN h[i] ELSE x]
      OBVIOUS
    <2>6. k \in [0 .. m + 1 -> V]
      BY <2>2, <2>5
    <2>7. \A i \in 0 .. m : k[i] = h[i]
      BY <2>5
    <2>8. k[m + 1] = G[<<m + 1, k[m]>>]
      <3>1. m + 1 \in 0 .. m + 1 /\ m \in 0 .. m /\ ~(m + 1 <= m)
        OBVIOUS
      <3>2. k[m + 1] = x /\ k[m] = h[m]
        BY <2>5, <2>7, <3>1
      <3> QED BY <2>4, <3>2
    <2>9. ASSUME NEW i \in 1 .. m + 1
          PROVE  k[i] = G[<<i, k[i - 1]>>]
      <3>1. CASE i = m + 1
        BY <2>8, <3>1
      <3>2. CASE i \in 1 .. m
        <4>1. i \in 0 .. m /\ i - 1 \in 0 .. m
          BY <3>2
        <4> QED BY <2>2, <2>7, <3>2, <4>1
      <3> QED BY <3>1, <3>2
    <2>10. k[0] = b
      BY <2>2, <2>7
    <2> QED BY <2>6, <2>9, <2>10
  <1>3. n \in S
    <2>1. S \in SUBSET Nat
      OBVIOUS
    <2> QED BY <1>1, <1>2, <2>1, Induccion
  <1> QED BY <1>3 DEF Recorre

-----------------------------------------------------------------------------
(* Sizes and blocks.                                                       *)

LEMMA Division ==
  ASSUME NEW a \in Nat, NEW b \in Nat \ {0}
  PROVE  /\ a \div b \in Nat
         /\ b * (a \div b) <= a
         /\ a < b * (a \div b) + b
  OBVIOUS

LEMMA OcupaEs ==
  ASSUME NEW t \in Nat
  PROVE  /\ Ocupa(t) \in Nat
         /\ t <= BLOCK_SIZE * Ocupa(t)
         /\ BLOCK_SIZE * Ocupa(t) < t + BLOCK_SIZE
  BY BloquesAssumption, Division DEF Ocupa

LEMMA Producto ==
  ASSUME NEW a \in Nat, NEW b \in Nat, NEW c \in Nat \ {0}, c * a < c * b + c
  PROVE  a <= b
  OBVIOUS

LEMMA OcupaCrece ==
  ASSUME NEW t \in Nat, NEW u \in Nat, t <= u
  PROVE  Ocupa(t) <= Ocupa(u)
  <1>1. BLOCK_SIZE * Ocupa(t) < BLOCK_SIZE * Ocupa(u) + BLOCK_SIZE
    BY OcupaEs, BloquesAssumption
  <1> QED BY <1>1, OcupaEs, Producto, BloquesAssumption

\* A size of k blocks or less takes k blocks at most.
LEMMA OcupaHasta ==
  ASSUME NEW t \in Nat, NEW k \in Nat, t <= BLOCK_SIZE * k
  PROVE  Ocupa(t) <= k
  <1>1. BLOCK_SIZE * Ocupa(t) < BLOCK_SIZE * k + BLOCK_SIZE
    BY OcupaEs, BloquesAssumption
  <1> QED BY <1>1, OcupaEs, Producto, BloquesAssumption

\* The two questions asignar_bloques asks of a size.
LEMMA OcupaCasos ==
  ASSUME NEW t \in Nat
  PROVE  /\ (Ocupa(t) = 0) <=> t = 0
         /\ Ocupa(t) <= 1 <=> t <= BLOCK_SIZE
  <1>1. Ocupa(t) = 0 => t = 0
    BY OcupaEs, BloquesAssumption
  <1>2. t = 0 => Ocupa(t) = 0
    BY OcupaEs, OcupaHasta, BloquesAssumption
  <1>3. Ocupa(t) <= 1 => t <= BLOCK_SIZE
    <2>1. CASE Ocupa(t) = 0
      BY <1>1, <2>1, BloquesAssumption
    <2>2. CASE Ocupa(t) = 1
      BY <2>2, OcupaEs, BloquesAssumption
    <2> QED BY <2>1, <2>2, OcupaEs
  <1>4. t <= BLOCK_SIZE => Ocupa(t) <= 1
    BY OcupaHasta, BloquesAssumption
  <1> QED BY <1>1, <1>2, <1>3, <1>4

\* The largest file fits in a direct pointer and a block of pointers.
LEMMA OcupaMaxima ==
  ASSUME NEW t \in Nat, t <= tam_max_arch
  PROVE  Ocupa(t) <= BLOCK_SIZE + 1
  <1>1. CASE 1 + BLOCK_SIZE <= BLOCK_COUNT
    BY <1>1, OcupaHasta, BloquesAssumption DEF tam_max_arch
  <1>2. CASE ~(1 + BLOCK_SIZE <= BLOCK_COUNT)
    <2>1. Ocupa(t) <= BLOCK_COUNT
      BY <1>2, OcupaHasta, BloquesAssumption DEF tam_max_arch
    <2> QED BY <1>2, <2>1, OcupaEs, BloquesAssumption
  <1> QED BY <1>1, <1>2

-----------------------------------------------------------------------------
(* get_free_block.                                                         *)

\* k calls give k different free blocks, or -1 from some call on.
LEMMA BloquesTomados ==
  ASSUME NEW k \in Nat, NEW s \in get_free_block(k)
  PROVE  /\ s \in [1 .. k -> Libres \union {SinBloque}]
         /\ \A i, j \in 1 .. k : s[i] = s[j] /\ s[i] # SinBloque => i = j
  <1>1. Cardinality(Libres) \in Nat
    <2>1. IsFiniteSet(Bloques)
      BY FS_Interval, BloquesAssumption DEF Bloques
    <2>2. Libres \subseteq Bloques
      BY DEF Libres
    <2> QED BY <2>1, <2>2, FS_Subset, FS_CardinalityType
  <1>2. ASSUME NEW n \in Nat, NEW r \in MasBajos(n)
        PROVE  /\ r \in [1 .. n -> Libres]
               /\ \A i, j \in 1 .. n : r[i] = r[j] => i = j
    <2>1. r \in [1 .. n -> Libres] /\ \A i, j \in 1 .. n : i < j => r[i] < r[j]
      BY <1>2 DEF MasBajos
    <2>2. \A b \in Libres : b \in Int
      BY BloquesAssumption DEF Libres, Bloques
    <2> QED BY <2>1, <2>2
  <1>3. CASE k <= Cardinality(Libres)
    <2>1. s \in MasBajos(k)
      BY <1>3 DEF get_free_block
    <2> QED BY <1>2, <2>1
  <1>4. CASE ~(k <= Cardinality(Libres))
    <2> DEFINE hay == Cardinality(Libres)
    <2>1. PICK r \in MasBajos(hay) :
            s = [i \in 1 .. k |-> IF i <= hay THEN r[i] ELSE SinBloque]
      BY <1>4 DEF get_free_block
    <2> HIDE DEF hay
    <2>2. hay \in Nat
      BY <1>1 DEF hay
    <2>3. /\ r \in [1 .. hay -> Libres]
          /\ \A i, j \in 1 .. hay : r[i] = r[j] => i = j
      BY <1>2, <2>2
    <2>4. \A i \in 1 .. k : i <= hay => i \in 1 .. hay
      BY <2>2
    <2> QED BY <2>1, <2>3, <2>4
  <1> QED BY <1>3, <1>4

-----------------------------------------------------------------------------
(* The places of a file and the order in which asignar_bloques fills them. *)

\* The places of a file of n blocks.
Sitios(n) == (1 .. n) \union (IF n > 1 THEN {0} ELSE {})

Directos(ya) == IF ya = 0 THEN 1 ELSE 0
Indirectos(ya, n) == IF n > 1 /\ ya <= 1 THEN 1 ELSE 0
Ultimo(ya) == IF ya = 0 THEN 0 ELSE ya - 1

\* Which of the blocks asked for goes to a new place, when a file grows from ya
\* blocks to n.
Turno(ya, n, j) ==
  IF j = 1 THEN 1
  ELSE IF j = 0 THEN Directos(ya) + 1
  ELSE Directos(ya) + Indirectos(ya, n) + 1 + (j - 2 - Ultimo(ya))

\* Each block asked for goes to one new place.
LEMMA Turnos ==
  ASSUME NEW ya \in Nat, NEW n \in Nat, ya <= n
  PROVE  /\ \A j \in Sitios(n) \ Sitios(ya) :
              Turno(ya, n, j) \in 1 .. n - ya + Indirectos(ya, n)
         /\ \A j, k \in Sitios(n) \ Sitios(ya) :
              Turno(ya, n, j) = Turno(ya, n, k) => j = k
         /\ \A i \in 1 .. n - ya + Indirectos(ya, n) :
              \E j \in Sitios(n) \ Sitios(ya) : Turno(ya, n, j) = i
  <1>1. CASE ya = 0
    <2>1. \A j : j \in Sitios(n) \ Sitios(ya)
                   <=> j \in 1 .. n \/ (j = 0 /\ n > 1)
      BY <1>1 DEF Sitios
    <2>2. CASE n <= 1
      BY <1>1, <2>1, <2>2 DEF Turno, Directos, Indirectos, Ultimo
    <2>3. CASE n > 1
      <3>1. Indirectos(ya, n) = 1 /\ Directos(ya) = 1 /\ Ultimo(ya) = 0
        BY <1>1, <2>3 DEF Directos, Indirectos, Ultimo
      <3>2. /\ Turno(ya, n, 0) = 2 /\ Turno(ya, n, 1) = 1
            /\ \A j \in 2 .. n : Turno(ya, n, j) = j + 1
        BY <3>1 DEF Turno
      <3>3. \A j : j \in Sitios(n) \ Sitios(ya) <=> j = 0 \/ j = 1 \/ j \in 2 .. n
        BY <2>1, <2>3
      <3>4. \A i \in 1 .. n - ya + Indirectos(ya, n) :
              \E j \in Sitios(n) \ Sitios(ya) : Turno(ya, n, j) = i
        <4> SUFFICES ASSUME NEW i \in 1 .. n + 1
                     PROVE  \E j \in Sitios(n) \ Sitios(ya) : Turno(ya, n, j) = i
          BY <1>1, <3>1
        <4>1. CASE i = 1
          BY <3>2, <3>3, <4>1
        <4>2. CASE i = 2
          BY <3>2, <3>3, <4>2
        <4>3. CASE i > 2
          <5>1. i - 1 \in 2 .. n /\ (i - 1) + 1 = i
            BY <4>3
          <5> QED BY <3>2, <3>3, <5>1
        <4> QED BY <4>1, <4>2, <4>3
      <3> QED BY <1>1, <3>1, <3>2, <3>3, <3>4
    <2> QED BY <2>2, <2>3
  <1>2. CASE ya = 1 /\ n > 1
    <2>1. Indirectos(ya, n) = 1 /\ Directos(ya) = 0 /\ Ultimo(ya) = 0
      BY <1>2 DEF Directos, Indirectos, Ultimo
    <2>2. \A j : j \in Sitios(n) \ Sitios(ya) <=> j \in 2 .. n \/ j = 0
      BY <1>2 DEF Sitios
    <2>3. /\ Turno(ya, n, 0) = 1
          /\ \A j \in 2 .. n : Turno(ya, n, j) = j
      BY <2>1 DEF Turno
    <2>4. n - ya + Indirectos(ya, n) = n
      BY <1>2, <2>1
    <2>5. \A i \in 1 .. n : i = 1 \/ i \in 2 .. n
      OBVIOUS
    <2> QED BY <1>2, <2>2, <2>3, <2>4, <2>5
  <1>3. CASE ya > 1 \/ (ya = 1 /\ n <= 1)
    <2>1. Indirectos(ya, n) = 0 /\ Directos(ya) = 0 /\ Ultimo(ya) = ya - 1
      BY <1>3 DEF Directos, Indirectos, Ultimo
    <2>2. \A j : j \in Sitios(n) \ Sitios(ya) <=> j \in ya + 1 .. n
      BY <1>3 DEF Sitios
    <2>3. \A j \in ya + 1 .. n : Turno(ya, n, j) = j - ya
      BY <1>3, <2>1 DEF Turno
    <2>4. \A i \in 1 .. n - ya : i + ya \in ya + 1 .. n /\ (i + ya) - ya = i
      OBVIOUS
    <2> QED BY <2>1, <2>2, <2>3, <2>4
  <1> QED BY <1>1, <1>2, <1>3

-----------------------------------------------------------------------------
(* The inductive invariant.                                                *)

\* A file has no more blocks than its pointers can name.
Acotados == \A f \in Archivos : Ocupa(FCB[f].tam) <= BLOCK_SIZE + 1

SinCrearVacios == \A f \in Archivos \ existe : FCB[f].tam = 0

\* A file of two blocks or more has its block of pointers.
ConIndirecto ==
  ~caido => \A f \in Archivos : Ocupa(FCB[f].tam) > 1 => FCB[f].indirecto # SinBloque

IBloques ==
  /\ TypeOKB /\ Acotados /\ SinCrearVacios
  /\ ConIndirecto /\ SinCompartir /\ BitmapExacto

\* The places of a file and what is in them, by cases.
LEMMA LugaresSon ==
  ASSUME NEW f \in Archivos
  PROVE  /\ Lugares(f) = Sitios(Ocupa(FCB[f].tam))
         /\ Lugares(f)' = Sitios(Ocupa(FCB'[f].tam))
         /\ BloqueEn(f, 0) = FCB[f].indirecto
         /\ BloqueEn(f, 1) = FCB[f].directo
         /\ BloqueEn(f, 0)' = FCB'[f].indirecto
         /\ BloqueEn(f, 1)' = FCB'[f].directo
         /\ \A i : i \notin {0, 1} =>
              /\ BloqueEn(f, i) = punteros[FCB[f].indirecto][i - 2]
              /\ BloqueEn(f, i)' = punteros'[FCB'[f].indirecto][i - 2]
  BY DEF Lugares, Sitios, BloqueEn, buscar_bloque, Ocupa

LEMMA SitiosSon ==
  ASSUME NEW n \in Nat
  PROVE  /\ \A i \in Sitios(n) : i \in Nat /\ i <= n
         /\ \A i : i \in Sitios(n) /\ i \notin {0, 1} => i \in 2 .. n
         /\ \A i \in Sitios(n) : i \notin {0, 1} => n > 1 /\ 0 \in Sitios(n)
         /\ 0 \in Sitios(n) <=> n > 1
         /\ 1 \in Sitios(n) <=> n > 0
  BY DEF Sitios

\* Every place of a file holds a block of the disk or -1.
LEMMA BloquesDelDisco ==
  ASSUME IBloques, ~caido, NEW f \in Archivos, NEW i \in Lugares(f)
  PROVE  BloqueEn(f, i) \in Bloques \union {SinBloque}
  <1> DEFINE n == Ocupa(FCB[f].tam)
  <1>1. /\ FCB[f].tam \in Nat
        /\ FCB[f].directo \in Bloques \union {SinBloque}
        /\ FCB[f].indirecto \in Bloques \union {SinBloque}
    BY DEF IBloques, TypeOKB
  <1>2. n \in Nat /\ n <= BLOCK_SIZE + 1 /\ i \in Sitios(n)
    BY <1>1, OcupaEs, LugaresSon DEF IBloques, Acotados
  <1>3. CASE i \in {0, 1}
    BY <1>1, <1>3, LugaresSon
  <1>4. CASE i \notin {0, 1}
    <2>1. n > 1 /\ i \in 2 .. n
      BY <1>2, <1>4, SitiosSon
    <2>2. FCB[f].indirecto \in Bloques
      BY <1>1, <2>1 DEF IBloques, ConIndirecto
    <2>3. i - 2 \in Indices
      BY <1>2, <2>1, BloquesAssumption DEF Indices
    <2>4. BloqueEn(f, i) = punteros[FCB[f].indirecto][i - 2]
      BY <1>4, LugaresSon
    <2> QED BY <2>2, <2>3, <2>4 DEF IBloques, TypeOKB
  <1> QED BY <1>3, <1>4

\* The bits that are set, one by one.
LEMMA BitmapEs ==
  /\ ~caido /\ BitmapExacto =>
       \A b : b \in bitmap <=>
         b # SinBloque /\ \E f \in Archivos : \E i \in Lugares(f) : BloqueEn(f, i) = b
  /\ (\A b : b \in bitmap' <=>
        b # SinBloque /\ \E f \in Archivos : \E i \in Lugares(f)' : BloqueEn(f, i)' = b)
     => BitmapExacto'
  <1> DEFINE Usados == UNION {{BloqueEn(f, i) : i \in Lugares(f)} : f \in Archivos}
  <1>1. \A b : b \in Usados <=> \E f \in Archivos : \E i \in Lugares(f) : BloqueEn(f, i) = b
    OBVIOUS
  <1>2. \A b : b \in Usados' <=>
          \E f \in Archivos : \E i \in Lugares(f)' : BloqueEn(f, i)' = b
    BY DEF Lugares, BloqueEn, buscar_bloque, Ocupa
  <1>3. /\ ~caido /\ BitmapExacto => bitmap = Usados \ {SinBloque}
        /\ bitmap' = Usados' \ {SinBloque} => BitmapExacto'
    BY DEF BitmapExacto
  <1> HIDE DEF Usados
  <1> QED BY <1>1, <1>2, <1>3

-----------------------------------------------------------------------------
(* asignar_bloques.                                                        *)

\* The body of asignar_bloques for the blocks s: d and p say whether it takes a
\* direct block and a block of pointers.
Asigna(f, t, s, ya, n, d, p, u) ==
  LET pd == IF d = 1 THEN s[1] ELSE FCB[f].directo
      pis == IF p = 1 THEN s[d + 1] ELSE FCB[f].indirecto IN
  /\ bitmap' = bitmap \union ({s[i] : i \in DOMAIN s} \ {SinBloque})
  /\ FCB' = [FCB EXCEPT ![f] = [tam |-> t, directo |-> pd, indirecto |-> pis]]
  /\ IF n > 1 /\ n - ya > d
     THEN /\ caido' = (pis = SinBloque)
          /\ punteros' =
               IF pis = SinBloque THEN punteros
               ELSE [punteros EXCEPT ![pis] =
                 [i \in Indices |->
                    IF i - u \in 0 .. n - ya - d - 1
                    THEN s[d + p + 1 + i - u] ELSE @[i]]]
     ELSE UNCHANGED <<punteros, caido>>

LEMMA AsignarHace ==
  ASSUME NEW f \in Archivos, FCB[f].tam \in Nat, NEW t \in Nat, asignar_bloques(f, t)
  PROVE  LET ya == Ocupa(FCB[f].tam)
             n == Ocupa(t) IN
         \E s \in get_free_block(n - ya + Indirectos(ya, n)) :
           Asigna(f, t, s, ya, n, Directos(ya), Indirectos(ya, n), Ultimo(ya))
  <1> DEFINE ya == Ocupa(FCB[f].tam)
             n == Ocupa(t)
             d == IF FCB[f].tam = 0 THEN 1 ELSE 0
             p == IF n > 1 /\ FCB[f].tam <= BLOCK_SIZE THEN 1 ELSE 0
             u == IF ya = 0 THEN 0 ELSE ya - 1
  <1>1. \E s \in get_free_block(n - ya + p) : Asigna(f, t, s, ya, n, d, p, u)
    BY Zenon DEF asignar_bloques, Asigna
  <1>2. /\ (ya = 0) <=> FCB[f].tam = 0
        /\ ya <= 1 <=> FCB[f].tam <= BLOCK_SIZE
    BY OcupaCasos
  <1>3. d = Directos(ya) /\ p = Indirectos(ya, n) /\ u = Ultimo(ya)
    BY <1>2 DEF Directos, Indirectos, Ultimo
  <1> HIDE DEF d, p, u
  <1> QED BY <1>1, <1>3

\* What every place of every file had stays; the new places of f take the blocks
\* s, each its own.
Reparte(f, t, s, ya, n) ==
  /\ bitmap' = bitmap \union ({s[i] : i \in DOMAIN s} \ {SinBloque})
  /\ FCB'[f].tam = t
  /\ \A g \in Archivos : g # f => FCB'[g] = FCB[g]
  /\ \A g \in Archivos : \A i \in Lugares(g) : BloqueEn(g, i)' = BloqueEn(g, i)
  /\ ~caido' => /\ \A j \in Sitios(n) \ Sitios(ya) :
                     BloqueEn(f, j)' = s[Turno(ya, n, j)]
                /\ n > 1 => FCB'[f].indirecto # SinBloque
  /\ FCB' \in [Archivos -> [tam : Nat, directo : Bloques \union {SinBloque},
                            indirecto : Bloques \union {SinBloque}]]
  /\ punteros' \in [Bloques -> [Indices -> Bloques \union {SinBloque}]]
  /\ caido' \in BOOLEAN

LEMMA AsignarReparte ==
  ASSUME IBloques, ~caido, NEW f \in existe, NEW t \in Nat,
         t > FCB[f].tam, t <= tam_max_arch, asignar_bloques(f, t)
  PROVE  LET ya == Ocupa(FCB[f].tam)
             n == Ocupa(t) IN
         /\ ya \in Nat /\ n \in Nat /\ ya <= n /\ n <= BLOCK_SIZE + 1
         /\ \E s \in get_free_block(n - ya + Indirectos(ya, n)) :
              Reparte(f, t, s, ya, n)
  <1> DEFINE ya == Ocupa(FCB[f].tam)
             n == Ocupa(t)
             d == Directos(ya)
             p == Indirectos(ya, n)
             u == Ultimo(ya)
             C == n > 1 /\ n - ya > d
             Valores == Bloques \union {SinBloque}
  <1>1. /\ TypeOKB /\ f \in Archivos /\ FCB[f].tam \in Nat
        /\ FCB[f].directo \in Valores /\ FCB[f].indirecto \in Valores
    BY DEF IBloques, TypeOKB
  <1>2. PICK s \in get_free_block(n - ya + p) : Asigna(f, t, s, ya, n, d, p, u)
    BY <1>1, AsignarHace
  <1> DEFINE pd == IF d = 1 THEN s[1] ELSE FCB[f].directo
             pis == IF p = 1 THEN s[d + 1] ELSE FCB[f].indirecto
             corridos == [i \in Indices |->
                            IF i - u \in 0 .. n - ya - d - 1
                            THEN s[d + p + 1 + i - u] ELSE punteros[pis][i]]
  <1>3. /\ ya \in Nat /\ n \in Nat /\ ya <= n /\ n >= 1 /\ n <= BLOCK_SIZE + 1
    BY <1>1, OcupaEs, OcupaCrece, OcupaCasos, OcupaMaxima
  <1>4. /\ d = IF ya = 0 THEN 1 ELSE 0
        /\ p = IF n > 1 /\ ya <= 1 THEN 1 ELSE 0
        /\ u = IF ya = 0 THEN 0 ELSE ya - 1
    BY DEF Directos, Indirectos, Ultimo
  <1>5. /\ bitmap' = bitmap \union ({s[i] : i \in DOMAIN s} \ {SinBloque})
        /\ FCB' = [FCB EXCEPT ![f] = [tam |-> t, directo |-> pd, indirecto |-> pis]]
        /\ ~C => punteros' = punteros
        /\ C /\ pis = SinBloque => punteros' = punteros
        /\ C /\ pis # SinBloque => punteros' = [punteros EXCEPT ![pis] = corridos]
    BY <1>2 DEF Asigna
  <1>6. /\ ~C => caido' = caido
        /\ C => caido' = (pis = SinBloque)
    BY <1>2, Zenon DEF Asigna
  <1>7. caido' \in BOOLEAN /\ (C /\ ~caido' => pis # SinBloque)
    BY <1>1, <1>6 DEF TypeOKB
  <1> HIDE DEF ya, n, d, p, u, pd, pis, corridos
  <1>8. /\ n - ya + p \in Nat
        /\ s \in [1 .. n - ya + p -> Libres \union {SinBloque}]
        /\ Libres \subseteq Bloques /\ Libres \intersect bitmap = {}
    <2>1. n - ya + p \in Nat
      BY <1>3, <1>4
    <2> QED BY <2>1, BloquesTomados DEF Libres
  <1>9. /\ p = 1 => C
        /\ C /\ p = 0 => ya > 1
        /\ d = 1 => 1 \in 1 .. n - ya + p
        /\ p = 1 => d + 1 \in 1 .. n - ya + p
        /\ \A i \in Indices : i - u \in 0 .. n - ya - d - 1
                                => d + p + 1 + i - u \in 1 .. n - ya + p
    BY <1>3, <1>4 DEF Indices
  <1>10. /\ pd \in Valores /\ pis \in Valores
         /\ d = 1 => pd = s[1]
         /\ d # 1 => pd = FCB[f].directo
         /\ p = 1 => pis = s[d + 1] /\ pis \in Libres \union {SinBloque}
         /\ p # 1 => pis = FCB[f].indirecto
    BY <1>1, <1>8, <1>9 DEF pd, pis
  <1>11. FCB' \in [Archivos -> [tam : Nat, directo : Valores, indirecto : Valores]]
    BY <1>1, <1>5, <1>10 DEF TypeOKB
  <1>12. /\ FCB'[f].tam = t /\ FCB'[f].directo = pd /\ FCB'[f].indirecto = pis
         /\ \A g \in Archivos : g # f => FCB'[g] = FCB[g]
    BY <1>1, <1>5 DEF TypeOKB
  <1>13. punteros' \in [Bloques -> [Indices -> Valores]]
    <2>1. pis \in Bloques => corridos \in [Indices -> Valores]
      <3> SUFFICES ASSUME pis \in Bloques, NEW i \in Indices
                   PROVE  (IF i - u \in 0 .. n - ya - d - 1
                            THEN s[d + p + 1 + i - u] ELSE punteros[pis][i]) \in Valores
        BY DEF corridos
      <3>1. punteros[pis][i] \in Valores
        BY <1>1 DEF TypeOKB
      <3> QED BY <1>8, <1>9, <3>1
    <2> QED BY <1>1, <1>5, <1>10, <2>1 DEF TypeOKB
  \* The block of pointers that is written is of no other file.
  <1>14. ASSUME NEW g \in Archivos, NEW i \in Lugares(g)
         PROVE  BloqueEn(g, i)' = BloqueEn(g, i)
    <2> DEFINE m == Ocupa(FCB[g].tam)
    <2>1. FCB[g].tam \in Nat /\ FCB[g].indirecto \in Valores
      BY <1>1 DEF TypeOKB
    <2>2. m \in Nat /\ Lugares(g) = Sitios(m) /\ m <= BLOCK_SIZE + 1
      BY <2>1, OcupaEs, LugaresSon DEF IBloques, Acotados
    <2>3. CASE g # f
      <3>1. FCB'[g] = FCB[g]
        BY <1>12, <2>3
      <3>2. CASE i \in {0, 1}
        BY <3>1, <3>2, LugaresSon
      <3>3. CASE i \notin {0, 1}
        <4>1. m > 1 /\ 0 \in Lugares(g) /\ BloqueEn(g, 0) = FCB[g].indirecto
          BY <2>2, <3>3, SitiosSon, LugaresSon
        <4>2. FCB[g].indirecto # SinBloque
          BY <4>1 DEF IBloques, ConIndirecto
        <4>3. ASSUME C PROVE pis # FCB[g].indirecto
          <5>1. CASE p = 1
            <6>1. FCB[g].indirecto \in bitmap
              BY <4>1, <4>2, BitmapEs DEF IBloques
            <6> QED BY <1>8, <1>10, <4>2, <5>1, <6>1
          <5>2. CASE p # 1
            <6>1. 0 \in Lugares(f) /\ BloqueEn(f, 0) = FCB[f].indirecto
              BY <1>1, <1>3, <1>4, <1>9, <4>3, <5>2, SitiosSon, LugaresSon DEF ya
            <6>2. BloqueEn(g, 0) # BloqueEn(f, 0)
              BY <1>1, <2>3, <4>1, <4>2, <6>1 DEF IBloques, SinCompartir
            <6> QED BY <1>10, <4>1, <5>2, <6>1, <6>2
          <5> QED BY <5>1, <5>2
        <4>4. punteros'[FCB[g].indirecto] = punteros[FCB[g].indirecto]
          BY <1>1, <1>5, <1>10, <2>1, <4>2, <4>3 DEF TypeOKB
        <4> QED BY <3>1, <3>3, <4>4, LugaresSon
      <3> QED BY <3>2, <3>3
    <2>4. CASE g = f
      <3>1. ya = m /\ i \in Sitios(ya)
        BY <2>2, <2>4 DEF ya
      <3>2. CASE i = 0
        <4>1. ya > 1
          BY <1>3, <3>1, <3>2, SitiosSon
        <4>2. p # 1
          BY <1>3, <1>4, <4>1
        <4> QED BY <1>1, <1>10, <1>12, <2>4, <3>2, <4>2, LugaresSon
      <3>3. CASE i = 1
        <4>1. d # 1
          BY <1>3, <1>4, <3>1, <3>3, SitiosSon
        <4> QED BY <1>1, <1>10, <1>12, <2>4, <3>3, <4>1, LugaresSon
      <3>4. CASE i \notin {0, 1}
        <4>1. ya > 1 /\ i \in 2 .. ya
          BY <1>3, <3>1, <3>4, SitiosSon
        <4>2. p # 1 /\ u = ya - 1
          BY <1>3, <1>4, <4>1
        <4>3. pis = FCB[f].indirecto /\ pis \in Bloques
          <5>1. FCB[f].indirecto # SinBloque
            BY <1>1, <4>1 DEF IBloques, ConIndirecto, ya
          <5> QED BY <1>10, <4>2, <5>1
        <4>4. i - 2 \in Indices /\ ~(i - 2 - u \in 0 .. n - ya - d - 1)
          BY <1>3, <2>2, <3>1, <4>1, <4>2, BloquesAssumption DEF Indices
        <4>5. punteros'[pis][i - 2] = punteros[pis][i - 2]
          <5>1. corridos[i - 2] = punteros[pis][i - 2]
            BY <4>4 DEF corridos
          <5> QED BY <1>1, <1>5, <4>3, <5>1 DEF TypeOKB
        <4> QED BY <1>1, <1>12, <2>4, <3>4, <4>3, <4>5, LugaresSon
      <3> QED BY <3>2, <3>3, <3>4
    <2> QED BY <2>3, <2>4
  <1>15. ASSUME ~caido', NEW j \in Sitios(n) \ Sitios(ya)
         PROVE  BloqueEn(f, j)' = s[Turno(ya, n, j)]
    <2>1. CASE j = 1
      <3>1. d = 1
        BY <1>3, <1>4, <1>15, <2>1, SitiosSon
      <3> QED BY <1>1, <1>10, <1>12, <2>1, <3>1, LugaresSon DEF Turno
    <2>2. CASE j = 0
      <3>1. p = 1
        BY <1>3, <1>4, <1>15, <2>2, SitiosSon
      <3> QED BY <1>1, <1>10, <1>12, <2>2, <3>1, LugaresSon DEF Turno, d
    <2>3. CASE j \notin {0, 1}
      <3>1. j \in 2 .. n /\ j > ya /\ n > 1
        BY <1>3, <2>3, SitiosSon DEF Sitios
      <3>2. C /\ j - 2 \in Indices /\ j - 2 - u \in 0 .. n - ya - d - 1
        BY <1>3, <1>4, <3>1, BloquesAssumption DEF Indices
      <3>3. pis \in Bloques
        BY <1>7, <1>10, <1>15, <3>2
      <3>3a. pis # SinBloque
        BY <1>7, <1>15, <3>2
      <3>4. corridos[j - 2] = s[d + p + 1 + (j - 2) - u]
        BY <3>2 DEF corridos
      <3>5. punteros'[pis][j - 2] = s[d + p + 1 + (j - 2) - u]
        BY <1>1, <1>5, <3>2, <3>3, <3>3a, <3>4 DEF TypeOKB
      <3>6. Turno(ya, n, j) = d + p + 1 + (j - 2) - u
        <4>1. Turno(ya, n, j) = d + p + 1 + (j - 2 - u)
          BY <2>3 DEF Turno, d, p, u
        <4> QED BY <1>3, <1>4, <3>1, <4>1
      <3> QED BY <1>1, <1>12, <2>3, <3>5, <3>6, LugaresSon
    <2> QED BY <2>1, <2>2, <2>3
  <1>16. ASSUME ~caido', n > 1
         PROVE  FCB'[f].indirecto # SinBloque
    <2>1. CASE C
      BY <1>7, <1>12, <1>16, <2>1
    <2>2. CASE ~C
      <3>1. ya > 1 /\ p # 1
        BY <1>3, <1>4, <1>16, <2>2
      <3>2. FCB[f].indirecto # SinBloque
        BY <1>1, <3>1 DEF IBloques, ConIndirecto, ya
      <3> QED BY <1>10, <1>12, <3>1, <3>2
    <2> QED BY <2>1, <2>2
  <1>17. s \in get_free_block(n - ya + Indirectos(ya, n))
    BY <1>2 DEF p
  <1>18. Reparte(f, t, s, ya, n)
    BY <1>5, <1>7, <1>11, <1>12, <1>13, <1>14, <1>15, <1>16 DEF Reparte
  <1> QED BY <1>3, <1>17, <1>18 DEF ya, n

LEMMA AsignarBloques ==
  ASSUME IBloques, ~caido, NEW f \in existe, NEW t \in Nat,
         t > FCB[f].tam, t <= tam_max_arch, asignar_bloques(f, t), existe' = existe
  PROVE  /\ IBloques'
         /\ \A g \in Archivos : \A i \in Lugares(g) : BloqueEn(g, i)' = BloqueEn(g, i)
  <1> DEFINE ya == Ocupa(FCB[f].tam)
             n == Ocupa(t)
             k == n - ya + Indirectos(ya, n)
             Nuevos == Sitios(n) \ Sitios(ya)
  <1>1. /\ ya \in Nat /\ n \in Nat /\ ya <= n /\ n <= BLOCK_SIZE + 1
        /\ \E s \in get_free_block(k) : Reparte(f, t, s, ya, n)
    BY AsignarReparte
  <1>2. PICK s \in get_free_block(k) : Reparte(f, t, s, ya, n)
    BY <1>1
  <1>3. /\ TypeOKB /\ Acotados /\ SinCrearVacios /\ ConIndirecto
        /\ SinCompartir /\ BitmapExacto /\ f \in Archivos
    BY DEF IBloques, TypeOKB
  <1> USE <1>1
  <1> HIDE DEF ya, n, k, Nuevos
  <1>4. k \in Nat
    BY DEF k, Indirectos
  <1>5. /\ s \in [1 .. k -> Libres \union {SinBloque}]
        /\ \A i, j \in 1 .. k : s[i] = s[j] /\ s[i] # SinBloque => i = j
    BY <1>4, BloquesTomados
  <1>6. /\ \A b \in Libres : b \in Bloques /\ b \notin bitmap
        /\ bitmap \subseteq Bloques
        /\ \A b : b \in bitmap' <=>
             b \in bitmap \/ (b # SinBloque /\ \E i \in 1 .. k : s[i] = b)
    BY <1>2, <1>3, <1>5 DEF Reparte, Libres, TypeOKB
  <1>7. /\ \A j \in Nuevos : Turno(ya, n, j) \in 1 .. k
        /\ \A i, j \in Nuevos : Turno(ya, n, i) = Turno(ya, n, j) => i = j
        /\ \A i \in 1 .. k : \E j \in Nuevos : Turno(ya, n, j) = i
    BY Turnos DEF k, Nuevos
  \* The places after the step.
  <1>8. /\ \A g \in Archivos : g # f => Lugares(g)' = Lugares(g)
        /\ Lugares(f) = Sitios(ya) /\ Lugares(f)' = Sitios(n)
        /\ Sitios(ya) \subseteq Sitios(n)
        /\ \A i : i \in Lugares(f)' <=> i \in Lugares(f) \/ i \in Nuevos
        /\ \A i \in Nuevos : i \notin Lugares(f)
    <2>1. \A g \in Archivos : g # f => Lugares(g)' = Lugares(g)
      <3> SUFFICES ASSUME NEW g \in Archivos, g # f
                   PROVE  Lugares(g)' = Lugares(g)
        OBVIOUS
      <3>1. FCB'[g] = FCB[g]
        BY <1>2 DEF Reparte
      <3> QED BY <3>1, LugaresSon
    <2>2. Lugares(f) = Sitios(ya) /\ Lugares(f)' = Sitios(n)
      <3>1. FCB'[f].tam = t
        BY <1>2 DEF Reparte
      <3> QED BY <1>3, <3>1, LugaresSon DEF ya, n
    <2>3. Sitios(ya) \subseteq Sitios(n)
      BY DEF Sitios
    <2> QED BY <2>1, <2>2, <2>3 DEF Nuevos
  <1>9. /\ \A g \in Archivos : \A i \in Lugares(g) : BloqueEn(g, i)' = BloqueEn(g, i)
        /\ ~caido' => \A j \in Nuevos : BloqueEn(f, j)' = s[Turno(ya, n, j)]
    BY <1>2 DEF Reparte, Nuevos
  <1>10. TypeOKB'
    <2>1. bitmap' \subseteq Bloques
      BY <1>5, <1>6
    <2> QED BY <1>2, <1>3, <2>1 DEF TypeOKB, Reparte
  <1>11. Acotados'
    <2> SUFFICES ASSUME NEW g \in Archivos
                 PROVE  Ocupa(FCB'[g].tam) <= BLOCK_SIZE + 1
      BY DEF Acotados, Ocupa
    <2>1. CASE g = f
      BY <1>2, <2>1 DEF Reparte, n
    <2>2. CASE g # f
      BY <1>2, <1>3, <2>2 DEF Reparte, Acotados
    <2> QED BY <2>1, <2>2
  <1>12. SinCrearVacios'
    BY <1>2, <1>3 DEF SinCrearVacios, Reparte
  <1>13. ConIndirecto'
    <2> SUFFICES ASSUME ~caido', NEW g \in Archivos, Ocupa(FCB'[g].tam) > 1
                 PROVE  FCB'[g].indirecto # SinBloque
      BY DEF ConIndirecto, Ocupa
    <2>1. CASE g = f
      BY <1>2, <2>1 DEF Reparte, n
    <2>2. CASE g # f
      BY <1>2, <1>3, <2>2 DEF Reparte, ConIndirecto
    <2> QED BY <2>1, <2>2
  \* What was held had its bit set; what is taken had it clear.
  <1>14. \A g \in Archivos : \A i \in Lugares(g) :
           BloqueEn(g, i) # SinBloque => BloqueEn(g, i) \in bitmap
    BY <1>3, BitmapEs
  <1>15. SinCompartir'
    <2> SUFFICES ASSUME ~caido',
                        NEW g \in Archivos, NEW h \in Archivos,
                        NEW i \in Lugares(g)', NEW j \in Lugares(h)',
                        BloqueEn(g, i)' = BloqueEn(h, j)', BloqueEn(g, i)' # SinBloque
                 PROVE  g = h /\ i = j
      BY DEF SinCompartir
    <2>1. ASSUME NEW x \in Archivos, NEW y \in Lugares(x)'
          PROVE  \/ y \in Lugares(x) /\ BloqueEn(x, y)' = BloqueEn(x, y)
                 \/ /\ x = f /\ y \in Nuevos /\ Turno(ya, n, y) \in 1 .. k
                    /\ BloqueEn(x, y)' = s[Turno(ya, n, y)]
      BY <1>7, <1>8, <1>9
    <2>2. CASE i \in Lugares(g) /\ j \in Lugares(h)
      BY <1>3, <1>9, <2>2 DEF SinCompartir
    <2>3. CASE i \in Lugares(g) /\ j \notin Lugares(h)
      BY <1>5, <1>6, <1>9, <1>14, <2>1, <2>3
    <2>4. CASE i \notin Lugares(g) /\ j \in Lugares(h)
      BY <1>5, <1>6, <1>9, <1>14, <2>1, <2>4
    <2>5. CASE i \notin Lugares(g) /\ j \notin Lugares(h)
      BY <1>5, <1>7, <2>1, <2>5
    <2> QED BY <2>2, <2>3, <2>4, <2>5
  <1>16. BitmapExacto'
    <2>1. CASE caido'
      BY <2>1 DEF BitmapExacto
    <2>2. CASE ~caido'
      <3>1. ASSUME NEW b \in bitmap'
            PROVE  /\ b # SinBloque
                   /\ \E g \in Archivos : \E i \in Lugares(g)' : BloqueEn(g, i)' = b
        <4>1. CASE b \in bitmap
          <5>1. PICK g \in Archivos : \E i \in Lugares(g) : BloqueEn(g, i) = b
            BY <1>3, <4>1, BitmapEs
          <5>2. PICK i \in Lugares(g) : BloqueEn(g, i) = b
            BY <5>1
          <5>3. i \in Lugares(g)' /\ BloqueEn(g, i)' = b
            BY <1>8, <1>9, <5>2
          <5>4. b # SinBloque
            BY <1>3, <4>1, BitmapEs
          <5> QED BY <5>3, <5>4
        <4>2. CASE b \notin bitmap
          <5>1. PICK i \in 1 .. k : s[i] = b /\ b # SinBloque
            BY <1>6, <3>1, <4>2
          <5>2. PICK j \in Nuevos : Turno(ya, n, j) = i
            BY <1>7
          <5>3. j \in Lugares(f)' /\ BloqueEn(f, j)' = b
            BY <1>8, <1>9, <2>2, <5>1, <5>2
          <5> QED BY <1>3, <5>1, <5>3
        <4> QED BY <4>1, <4>2
      <3>2. ASSUME NEW b, b # SinBloque, NEW g \in Archivos, NEW i \in Lugares(g)',
                   BloqueEn(g, i)' = b
            PROVE  b \in bitmap'
        <4>1. CASE i \in Lugares(g)
          BY <1>6, <1>9, <1>14, <3>2, <4>1
        <4>2. CASE i \notin Lugares(g)
          <5>1. g = f /\ i \in Nuevos
            BY <1>8, <3>2, <4>2
          <5>2. Turno(ya, n, i) \in 1 .. k /\ s[Turno(ya, n, i)] = b
            BY <1>7, <1>9, <2>2, <3>2, <5>1
          <5> QED BY <1>6, <3>2, <5>2
        <4> QED BY <4>1, <4>2
      <3> QED BY <3>1, <3>2, BitmapEs
    <2> QED BY <2>1, <2>2
  <1> QED BY <1>9, <1>10, <1>11, <1>12, <1>13, <1>15, <1>16 DEF IBloques

-----------------------------------------------------------------------------
(* liberar_bloques.                                                        *)

\* The blocks whose bit is cleared are those of the places that go.
LEMMA BloquesQueVan ==
  ASSUME IBloques, ~caido, NEW f \in existe, NEW t \in Nat, t < FCB[f].tam,
         liberar_bloques(f, t)
  PROVE  LET antes == Ocupa(FCB[f].tam)
             ahora == Ocupa(t)
             Van == {BloqueEn(f, i) : i \in Sitios(antes) \ Sitios(ahora)} IN
         /\ antes \in Nat /\ ahora \in Nat /\ ahora <= antes
         /\ bitmap' = bitmap \ Van
         /\ FCB' = [FCB EXCEPT ![f].tam = t]
         /\ punteros' = punteros
         /\ caido' \in BOOLEAN
         /\ ~caido' => SinBloque \notin Van
  <1> DEFINE antes == Ocupa(FCB[f].tam)
             ahora == Ocupa(t)
             directo == IF ahora = 0 THEN {FCB[f].directo} ELSE {}
             a_liberar == antes - ahora - Cardinality(directo)
             datos_ == IF antes > 1
                       THEN {punteros[FCB[f].indirecto][i] :
                               i \in antes - 1 - a_liberar .. antes - 2}
                       ELSE {}
             indirecto == IF antes > 1 /\ ahora <= 1 THEN {FCB[f].indirecto} ELSE {}
             Van == {BloqueEn(f, i) : i \in Sitios(antes) \ Sitios(ahora)}
  <1>1. f \in Archivos /\ FCB[f].tam \in Nat
    BY DEF IBloques, TypeOKB
  <1>2. antes \in Nat /\ ahora \in Nat /\ ahora <= antes /\ antes >= 1
    BY <1>1, OcupaEs, OcupaCrece, OcupaCasos
  <1>3. /\ bitmap' = bitmap \ (directo \union datos_ \union indirecto)
        /\ FCB' = [FCB EXCEPT ![f].tam = t]
        /\ punteros' = punteros
    BY DEF liberar_bloques
  <1>4. caido' = (SinBloque \in directo \union datos_ \union indirecto)
    BY Zenon DEF liberar_bloques
  <1>5. a_liberar = antes - ahora - (IF ahora = 0 THEN 1 ELSE 0)
    <2>1. Cardinality(directo) = IF ahora = 0 THEN 1 ELSE 0
      <3> HIDE DEF ahora
      <3> QED BY FS_EmptySet, FS_Singleton
    <2> HIDE DEF directo
    <2> QED BY <2>1
  <1> HIDE DEF antes, ahora, a_liberar
  <1>6. ASSUME NEW i
        PROVE  i \in Sitios(antes) \ Sitios(ahora) <=>
                 \/ i = 1 /\ ahora = 0
                 \/ i = 0 /\ antes > 1 /\ ahora <= 1
                 \/ antes > 1 /\ i \in antes + 1 - a_liberar .. antes
    BY <1>2, <1>5 DEF Sitios
  <1>7. ASSUME antes > 1, NEW i \in antes + 1 - a_liberar .. antes
        PROVE  i \notin {0, 1} /\ i - 2 \in antes - 1 - a_liberar .. antes - 2
    BY <1>2, <1>5, <1>7
  <1>8. ASSUME antes > 1, NEW i \in antes - 1 - a_liberar .. antes - 2
        PROVE  i + 2 \in antes + 1 - a_liberar .. antes /\ (i + 2) - 2 = i
    BY <1>2, <1>5, <1>8
  <1>9. Van = directo \union datos_ \union indirecto
    <2>1. ASSUME NEW b \in Van
          PROVE  b \in directo \union datos_ \union indirecto
      <3>1. PICK i \in Sitios(antes) \ Sitios(ahora) : b = BloqueEn(f, i)
        BY <2>1
      <3>2. CASE i = 1 /\ ahora = 0
        BY <1>1, <3>1, <3>2, LugaresSon
      <3>3. CASE i = 0 /\ antes > 1 /\ ahora <= 1
        BY <1>1, <3>1, <3>3, LugaresSon
      <3>4. CASE antes > 1 /\ i \in antes + 1 - a_liberar .. antes
        <4>1. i \notin {0, 1} /\ i - 2 \in antes - 1 - a_liberar .. antes - 2
          BY <1>7, <3>4
        <4>2. b = punteros[FCB[f].indirecto][i - 2]
          BY <1>1, <3>1, <4>1, LugaresSon
        <4> QED BY <3>4, <4>1, <4>2
      <3> QED BY <1>6, <3>1, <3>2, <3>3, <3>4
    <2>2. directo \subseteq Van
      <3>1. ahora = 0 => 1 \in Sitios(antes) \ Sitios(ahora)
        BY <1>6
      <3> QED BY <1>1, <3>1, LugaresSon
    <2>3. indirecto \subseteq Van
      <3>1. antes > 1 /\ ahora <= 1 => 0 \in Sitios(antes) \ Sitios(ahora)
        BY <1>6
      <3> QED BY <1>1, <3>1, LugaresSon
    <2>4. ASSUME antes > 1, NEW i \in antes - 1 - a_liberar .. antes - 2
          PROVE  punteros[FCB[f].indirecto][i] \in Van
      <3>1. i + 2 \in antes + 1 - a_liberar .. antes /\ (i + 2) - 2 = i
        BY <1>8, <2>4
      <3>2. i + 2 \in Sitios(antes) \ Sitios(ahora) /\ i + 2 \notin {0, 1}
        BY <1>6, <1>7, <2>4, <3>1
      <3>3. BloqueEn(f, i + 2) = punteros[FCB[f].indirecto][i]
        BY <1>1, <3>1, <3>2, LugaresSon
      <3> QED BY <3>2, <3>3
    <2>5. datos_ \subseteq Van
      BY <2>4
    <2> HIDE DEF Van, directo, datos_, indirecto
    <2> QED BY <2>1, <2>2, <2>3, <2>5
  <1> HIDE DEF directo, datos_, indirecto, Van
  <1>10. caido' \in BOOLEAN /\ (~caido' => SinBloque \notin Van)
    <2> DEFINE Q == SinBloque \in directo \union datos_ \union indirecto
    <2>1. caido' = Q
      BY <1>4, Zenon
    <2>2. Q \in BOOLEAN
      OBVIOUS
    <2>3. ~Q => SinBloque \notin Van
      BY <1>9
    <2> HIDE DEF Q
    <2> QED BY <2>1, <2>2, <2>3
  <1> QED BY <1>2, <1>3, <1>9, <1>10 DEF antes, ahora, Van

LEMMA LiberarBloques ==
  ASSUME IBloques, ~caido, NEW f \in existe, NEW t \in Nat, t < FCB[f].tam,
         liberar_bloques(f, t), existe' = existe
  PROVE  /\ IBloques'
         /\ \A g \in Archivos : \A i \in Lugares(g)' :
              i \in Lugares(g) /\ BloqueEn(g, i)' = BloqueEn(g, i)
  <1> DEFINE antes == Ocupa(FCB[f].tam)
             ahora == Ocupa(t)
             Van == {BloqueEn(f, i) : i \in Sitios(antes) \ Sitios(ahora)}
  <1>1. /\ antes \in Nat /\ ahora \in Nat /\ ahora <= antes
        /\ bitmap' = bitmap \ Van
        /\ FCB' = [FCB EXCEPT ![f].tam = t]
        /\ punteros' = punteros
        /\ caido' \in BOOLEAN
        /\ ~caido' => SinBloque \notin Van
    BY BloquesQueVan
  <1>2. /\ TypeOKB /\ Acotados /\ SinCrearVacios /\ ConIndirecto
        /\ SinCompartir /\ BitmapExacto /\ f \in Archivos
    BY DEF IBloques, TypeOKB
  <1>3. Van = {BloqueEn(f, i) : i \in Sitios(antes) \ Sitios(ahora)}
    OBVIOUS
  <1> HIDE DEF antes, ahora, Van
  <1>4. /\ FCB'[f].tam = t
        /\ \A g \in Archivos : /\ g # f => FCB'[g].tam = FCB[g].tam
                               /\ FCB'[g].directo = FCB[g].directo
                               /\ FCB'[g].indirecto = FCB[g].indirecto
        /\ FCB' \in [Archivos -> [tam : Nat, directo : Bloques \union {SinBloque},
                                  indirecto : Bloques \union {SinBloque}]]
    BY <1>1, <1>2 DEF TypeOKB
  <1>5. ASSUME NEW g \in Archivos, NEW i
        PROVE  BloqueEn(g, i)' = BloqueEn(g, i)
    BY <1>1, <1>4, LugaresSon
  <1>6. /\ Lugares(f) = Sitios(antes) /\ Lugares(f)' = Sitios(ahora)
        /\ Sitios(ahora) \subseteq Sitios(antes)
        /\ \A g \in Archivos : g # f => Lugares(g)' = Lugares(g)
    <2>1. Sitios(ahora) \subseteq Sitios(antes)
      BY <1>1 DEF Sitios
    <2> QED BY <1>2, <1>4, <2>1, LugaresSon DEF antes, ahora
  <1>7. \A g \in Archivos : \A i \in Lugares(g)' : i \in Lugares(g)
    BY <1>6
  <1>8. TypeOKB'
    BY <1>1, <1>2, <1>4 DEF TypeOKB
  <1>9. Acotados'
    <2> SUFFICES ASSUME NEW g \in Archivos
                 PROVE  Ocupa(FCB'[g].tam) <= BLOCK_SIZE + 1
      BY DEF Acotados, Ocupa
    <2>1. CASE g = f
      BY <1>1, <1>2, <1>4, <2>1, BloquesAssumption DEF Acotados, antes, ahora
    <2>2. CASE g # f
      BY <1>2, <1>4, <2>2 DEF Acotados
    <2> QED BY <2>1, <2>2
  <1>10. SinCrearVacios'
    BY <1>2, <1>4 DEF SinCrearVacios
  <1>11. ConIndirecto'
    <2> SUFFICES ASSUME NEW g \in Archivos, Ocupa(FCB'[g].tam) > 1
                 PROVE  FCB'[g].indirecto # SinBloque
      BY DEF ConIndirecto, Ocupa
    <2>1. Ocupa(FCB[g].tam) > 1
      <3>1. CASE g = f
        BY <1>1, <1>4, <3>1 DEF antes, ahora
      <3>2. CASE g # f
        BY <1>4, <3>2
      <3> QED BY <3>1, <3>2
    <2> QED BY <1>2, <1>4, <2>1 DEF ConIndirecto
  <1>12. SinCompartir'
    <2> SUFFICES ASSUME NEW g \in Archivos, NEW h \in Archivos,
                        NEW i \in Lugares(g)', NEW j \in Lugares(h)',
                        BloqueEn(g, i)' = BloqueEn(h, j)', BloqueEn(g, i)' # SinBloque
                 PROVE  g = h /\ i = j
      BY DEF SinCompartir
    <2> QED BY <1>2, <1>5, <1>7 DEF SinCompartir
  <1>13. BitmapExacto'
    <2>1. ASSUME NEW b \in bitmap'
          PROVE  /\ b # SinBloque
                 /\ \E g \in Archivos : \E i \in Lugares(g)' : BloqueEn(g, i)' = b
      <3>1. b \in bitmap /\ b \notin Van
        BY <1>1, <2>1
      <3>2. b # SinBloque /\ \E g \in Archivos : \E i \in Lugares(g) : BloqueEn(g, i) = b
        BY <1>2, <3>1, BitmapEs
      <3>3. PICK g \in Archivos : \E i \in Lugares(g) : BloqueEn(g, i) = b
        BY <3>2
      <3>4. PICK i \in Lugares(g) : BloqueEn(g, i) = b
        BY <3>3
      <3>5. i \in Lugares(g)'
        BY <1>3, <1>6, <3>1, <3>4
      <3> QED BY <1>5, <3>2, <3>4, <3>5
    <2>2. ASSUME NEW b, b # SinBloque, NEW g \in Archivos, NEW i \in Lugares(g)',
                 BloqueEn(g, i)' = b
          PROVE  b \in bitmap'
      <3>1. i \in Lugares(g) /\ BloqueEn(g, i) = b
        BY <1>5, <1>7, <2>2
      <3>2. b \in bitmap
        BY <1>2, <2>2, <3>1, BitmapEs
      <3>3. b \notin Van
        <4> SUFFICES ASSUME b \in Van PROVE FALSE
          OBVIOUS
        <4>1. PICK j \in Sitios(antes) \ Sitios(ahora) : BloqueEn(f, j) = b
          BY <1>3
        <4>2. j \in Lugares(f) /\ j \notin Lugares(f)'
          BY <1>6, <4>1
        <4>3. f = g /\ i = j
          BY <1>2, <2>2, <3>1, <4>1, <4>2 DEF SinCompartir
        <4> QED BY <4>2, <4>3
      <3> QED BY <1>1, <3>2, <3>3
    <2> QED BY <2>1, <2>2, BitmapEs
  <1> QED BY <1>5, <1>7, <1>8, <1>9, <1>10, <1>11, <1>12, <1>13 DEF IBloques

-----------------------------------------------------------------------------
(* The steps of the consumer thread.                                       *)

\* A request whose answer says only that nothing changed, or that a read or a
\* write used the block -1.
LEMMA SinAdministrar ==
  ASSUME IBloques, UNCHANGED <<bitmap, FCB, existe, punteros>>,
         caido' \in BOOLEAN, caido => caido'
  PROVE  /\ IBloques'
         /\ \A g \in Archivos : \A i : BloqueEn(g, i)' = BloqueEn(g, i)
         /\ \A g \in Archivos : Lugares(g)' = Lugares(g)
  <1>1. bitmap' = bitmap /\ FCB' = FCB /\ existe' = existe /\ punteros' = punteros
    OBVIOUS
  <1>2. \A g \in Archivos : \A i : BloqueEn(g, i)' = BloqueEn(g, i)
    BY <1>1, LugaresSon
  <1>3. \A g \in Archivos : Lugares(g)' = Lugares(g)
    BY <1>1, LugaresSon
  <1>4. TypeOKB' /\ Acotados' /\ SinCrearVacios' /\ ConIndirecto'
    BY <1>1 DEF IBloques, TypeOKB, Acotados, SinCrearVacios, ConIndirecto, Ocupa
  <1>5. SinCompartir'
    BY <1>2, <1>3 DEF IBloques, SinCompartir
  <1>6. BitmapExacto'
    <2>1. CASE caido'
      BY <2>1 DEF BitmapExacto
    <2>2. CASE ~caido'
      BY <1>1, <1>2, <1>3, <2>2, BitmapEs DEF IBloques
    <2> QED BY <2>1, <2>2
  <1> QED BY <1>2, <1>3, <1>4, <1>5, <1>6 DEF IBloques

LEMMA CrearArchivo ==
  ASSUME IBloques, NEW f \in Archivos, F_CREATE(f)
  PROVE  /\ IBloques'
         /\ \A g \in Archivos : /\ Lugares(g)' = Lugares(g)
                                /\ \A i \in Lugares(g) : BloqueEn(g, i)' = BloqueEn(g, i)
  <1>1. /\ f \notin existe /\ existe' = existe \union {f}
        /\ FCB' = [FCB EXCEPT ![f] = [tam |-> 0, directo |-> SinBloque,
                                      indirecto |-> SinBloque]]
        /\ bitmap' = bitmap /\ punteros' = punteros /\ caido' = caido
    BY DEF F_CREATE
  <1>2. FCB[f].tam = 0
    BY <1>1 DEF IBloques, SinCrearVacios
  <1>3. /\ \A g \in Archivos : FCB'[g].tam = FCB[g].tam
        /\ \A g \in Archivos : g # f => FCB'[g] = FCB[g]
    BY <1>1, <1>2 DEF IBloques, TypeOKB
  <1>4. Ocupa(0) = 0
    BY OcupaCasos
  <1>5. \A g \in Archivos : Lugares(g)' = Lugares(g)
    BY <1>3, LugaresSon
  <1>6. Lugares(f) = {}
    BY <1>2, <1>4, LugaresSon DEF Sitios
  <1>7. \A g \in Archivos : \A i \in Lugares(g) : BloqueEn(g, i)' = BloqueEn(g, i)
    BY <1>1, <1>3, <1>6, LugaresSon
  <1>8. TypeOKB' /\ SinCrearVacios'
    BY <1>1, <1>3 DEF IBloques, TypeOKB, SinCrearVacios
  <1>9. Acotados' /\ ConIndirecto'
    <2>1. ASSUME NEW g \in Archivos
          PROVE  /\ Ocupa(FCB'[g].tam) <= BLOCK_SIZE + 1
                 /\ ~caido' /\ Ocupa(FCB'[g].tam) > 1 => FCB'[g].indirecto # SinBloque
      <3>1. Ocupa(FCB'[g].tam) <= BLOCK_SIZE + 1
        BY <1>3 DEF IBloques, Acotados
      <3>2. CASE g = f
        BY <1>2, <1>3, <1>4, <3>1, <3>2
      <3>3. CASE g # f
        BY <1>1, <1>3, <3>1, <3>3 DEF IBloques, ConIndirecto
      <3> QED BY <3>2, <3>3
    <2> QED BY <2>1 DEF Acotados, ConIndirecto, Ocupa
  <1>10. SinCompartir'
    BY <1>1, <1>5, <1>7 DEF IBloques, SinCompartir
  <1>11. BitmapExacto'
    <2>1. CASE caido'
      BY <2>1 DEF BitmapExacto
    <2>2. CASE ~caido'
      BY <1>1, <1>5, <1>7, <2>2, BitmapEs DEF IBloques
    <2> QED BY <2>1, <2>2
  <1> QED BY <1>5, <1>7, <1>8, <1>9, <1>10, <1>11 DEF IBloques

\* No block of data a file keeps moves.
Conserva ==
  \A f \in Archivos : \A i \in Lugares(f) \ {0} :
    i \in Lugares(f)' => BloqueEn(f, i)' = BloqueEn(f, i)

LEMMA PasoDeBloques ==
  ASSUME IBloques, ~caido, NEW f \in Archivos,
         F_CREATE(f) \/ \E t \in Tamanios[f] : F_TRUNCATE(f, t)
  PROVE  IBloques' /\ Conserva
  <1>1. CASE F_CREATE(f)
    BY <1>1, CrearArchivo DEF Conserva
  <1>2. CASE \E t \in Tamanios[f] : F_TRUNCATE(f, t)
    <2>1. PICK t \in Tamanios[f] : F_TRUNCATE(f, t)
      BY <1>2
    <2>2. t \in Nat /\ f \in existe /\ existe' = existe /\ caido \in BOOLEAN
      BY <2>1, BloquesAssumption DEF F_TRUNCATE, IBloques, TypeOKB
    <2>3. CASE t > FCB[f].tam /\ t <= tam_max_arch /\ asignar_bloques(f, t)
      BY <2>2, <2>3, AsignarBloques DEF Conserva
    <2>4. CASE t < FCB[f].tam /\ liberar_bloques(f, t)
      BY <2>2, <2>4, LiberarBloques DEF Conserva
    <2>5. CASE UNCHANGED <<bitmap, FCB, punteros, caido>>
      BY <2>2, <2>5, SinAdministrar DEF Conserva
    <2> QED BY <2>1, <2>3, <2>4, <2>5 DEF F_TRUNCATE
  <1> QED BY <1>1, <1>2

LEMMA InicioIBloques ==
  ASSUME InitB
  PROVE  IBloques
  <1>1. 0 \in Bloques
    BY BloquesAssumption DEF Bloques
  <1>2. Ocupa(0) = 0
    BY OcupaCasos
  <1>3. \A f \in Archivos : Lugares(f) = {}
    BY <1>2, LugaresSon DEF InitB, Sitios
  <1>4. TypeOKB
    BY <1>1 DEF InitB, TypeOKB
  <1>5. Acotados /\ SinCrearVacios /\ ConIndirecto
    BY <1>2, BloquesAssumption DEF InitB, Acotados, SinCrearVacios, ConIndirecto
  <1>6. SinCompartir /\ BitmapExacto
    BY <1>3 DEF InitB, SinCompartir, BitmapExacto
  <1> QED BY <1>4, <1>5, <1>6 DEF IBloques

LEMMA PasoDeNextB == IBloques /\ [NextB]_varsB => IBloques' /\ Conserva
  <1> SUFFICES ASSUME IBloques, [NextB]_varsB
               PROVE  IBloques' /\ Conserva
    OBVIOUS
  <1>1. CASE NextB
    BY <1>1, PasoDeBloques DEF NextB
  <1>2. CASE UNCHANGED varsB
    BY <1>2, SinAdministrar DEF varsB, Conserva, IBloques, TypeOKB
  <1> QED BY <1>1, <1>2

LEMMA CaidoBooleano ==
  ASSUME NEW f, NEW p, NEW n, F_WRITE(f, p, n) \/ F_READ(f, p, n)
  PROVE  caido' \in BOOLEAN
  <1> DEFINE Q == \E k \in DOMAIN Accesos(p, n) : FueraDelArchivo(f, Accesos(p, n)[k])
             R == \E k \in DOMAIN Accesos(p, n) : Destino(f, Accesos(p, n)[k]) = SinBloque
             L == Llegan(p, n) > n
  <1>1. /\ F_WRITE(f, p, n) => caido' = Q
        /\ F_READ(f, p, n) => caido' \in IF R THEN {TRUE} ELSE IF L THEN BOOLEAN ELSE {FALSE}
    BY Zenon DEF F_WRITE, F_READ
  <1>2. Q \in BOOLEAN
    OBVIOUS
  <1> HIDE DEF Q, R, L
  <1> QED BY <1>1, <1>2

\* Reads and writes do not touch what asignar_bloques and liberar_bloques keep.
LEMMA PasoDeNextAB == IBloques /\ [NextAB]_varsAB => IBloques' /\ Conserva
  <1> SUFFICES ASSUME IBloques, [NextAB]_varsAB
               PROVE  IBloques' /\ Conserva
    OBVIOUS
  <1>1. CASE UNCHANGED varsAB
    BY <1>1, SinAdministrar DEF varsAB, varsB, Conserva, IBloques, TypeOKB
  <1>2. ASSUME ~caido, NEW f \in Archivos, Administrar(f)
        PROVE  IBloques' /\ Conserva
    BY <1>2, PasoDeBloques DEF Administrar
  <1>3. ASSUME ~caido, NEW f \in Archivos, NEW p, NEW n,
               FueraDeRango(f, p, n) \/ F_WRITE(f, p, n) \/ F_READ(f, p, n)
        PROVE  IBloques' /\ Conserva
    <2>1. UNCHANGED <<bitmap, FCB, existe, punteros>>
      BY <1>3 DEF FueraDeRango, F_WRITE, F_READ, varsB
    <2>2. caido' \in BOOLEAN
      <3>1. CASE FueraDeRango(f, p, n)
        BY <3>1 DEF FueraDeRango, varsB, IBloques, TypeOKB
      <3>2. CASE F_WRITE(f, p, n) \/ F_READ(f, p, n)
        BY <3>2, CaidoBooleano
      <3> QED BY <1>3, <3>1, <3>2
    <2> QED BY <1>3, <2>1, <2>2, SinAdministrar DEF Conserva
  <1> QED BY <1>1, <1>2, <1>3 DEF NextAB

LEMMA BloquesSiempre ==
  /\ SpecB => []IBloques
  /\ SpecAB => []IBloques
  <1>1. SpecB => []IBloques
    BY InicioIBloques, PasoDeNextB, PTL DEF SpecB
  <1>2. InitAB => IBloques
    BY InicioIBloques DEF InitAB
  <1>3. SpecAB => []IBloques
    BY <1>2, PasoDeNextAB, PTL DEF SpecAB
  <1> QED BY <1>1, <1>3

-----------------------------------------------------------------------------
(* What it is for.                                                         *)

\* Two files never share a block, nor has a file one twice, whatever was
\* truncated before and with the disk full or not (asignar_bloques,
\* liberar_bloques).
THEOREM NadieComparte ==
  /\ SpecB => []SinCompartir
  /\ SpecAB => []SinCompartir
  <1>1. IBloques => SinCompartir
    BY DEF IBloques
  <1> QED BY <1>1, BloquesSiempre, PTL

\* The bits of the bitmap are those of the blocks in use: none in use is given
\* away and none is lost (get_free_block, asignar_bloques, liberar_bloques).
THEOREM ElBitmapEsExacto ==
  /\ SpecB => []BitmapExacto
  /\ SpecAB => []BitmapExacto
  <1>1. IBloques => BitmapExacto
    BY DEF IBloques
  <1> QED BY <1>1, BloquesSiempre, PTL

\* F_TRUNCATE moves no block of data of any file, the truncated one included.
THEOREM NadaSeMueve ==
  /\ SpecB => TruncarConserva
  /\ SpecAB => TruncarConserva
  <1>1. SpecB => TruncarConserva
    <2>1. SpecB => [][Conserva]_varsB
      BY PasoDeNextB, BloquesSiempre, PTL DEF SpecB
    <2> QED BY <2>1, PTL DEF TruncarConserva, Conserva
  <1>2. SpecAB => TruncarConserva
    <2>1. SpecAB => [][Conserva]_varsB
      BY PasoDeNextAB, BloquesSiempre, PTL DEF SpecAB
    <2> QED BY <2>1, PTL DEF TruncarConserva, Conserva
  <1> QED BY <1>1, <1>2

-----------------------------------------------------------------------------
(* How a run of bytes is cut (Accesos).                                   *)

\* The place of a byte of a file: its block, and the cell in it.
Parte(x) == x \div BLOCK_SIZE + 1
Celda(x) == x % BLOCK_SIZE

LEMMA ParteDe ==
  ASSUME NEW q \in Nat, NEW c \in Indices, NEW x, x = BLOCK_SIZE * q + c
  PROVE  Parte(x) = q + 1 /\ Celda(x) = c
  <1>1. BLOCK_SIZE \in Nat \ {0} /\ c \in Nat /\ c < BLOCK_SIZE /\ x \in Nat
    BY BloquesAssumption DEF Indices
  <1>2. PICK b, d : b = BLOCK_SIZE /\ d = x \div b
    OBVIOUS
  <1>3. d \in Nat /\ b * d <= x /\ x < b * d + b
    BY <1>1, <1>2, Division
  <1>4. b * d < b * q + b /\ b * q < b * d + b
    BY <1>1, <1>2, <1>3
  <1>5. d = q
    BY <1>1, <1>2, <1>3, <1>4, Producto
  <1>6. x % b = x - b * (x \div b)
    BY <1>1, <1>2
  <1> QED BY <1>1, <1>2, <1>5, <1>6 DEF Parte, Celda

LEMMA PartesEs ==
  ASSUME NEW x \in Nat
  PROVE  /\ Parte(x) \in Nat \ {0} /\ Celda(x) \in Indices
         /\ x = BLOCK_SIZE * (Parte(x) - 1) + Celda(x)
  <1>1. PICK b, d : b = BLOCK_SIZE /\ d = x \div b
    OBVIOUS
  <1>2. b \in Nat \ {0}
    BY <1>1, BloquesAssumption
  <1>3. d \in Nat /\ b * d <= x /\ x < b * d + b
    BY <1>1, <1>2, Division
  <1>4. x % b = x - b * d
    BY <1>1, <1>2
  <1> QED BY <1>1, <1>2, <1>3, <1>4 DEF Parte, Celda, Indices

\* A byte below the size of a file is in one of its blocks.
LEMMA ParteDelArchivo ==
  ASSUME NEW t \in Nat, NEW x \in Nat, x < t
  PROVE  Parte(x) \in 1 .. Ocupa(t)
  <1>1. PICK b, q, c, n : b = BLOCK_SIZE /\ q = Parte(x) - 1 /\ c = Celda(x) /\ n = Ocupa(t)
    OBVIOUS
  <1>2. b \in Nat \ {0} /\ q \in Nat /\ c \in Nat /\ x = b * q + c
    BY <1>1, PartesEs, BloquesAssumption DEF Indices
  <1>3. n \in Nat /\ t <= b * n
    BY <1>1, OcupaEs
  <1>4. b * q + 1 <= b * n
    BY <1>2, <1>3
  <1>5. q + 1 <= n
    <2>1. b * (q + 1) = b * q + b
      BY <1>2
    <2>2. b * (q + 1) < b * n + b
      BY <1>2, <1>3, <1>4, <2>1
    <2> QED BY <1>2, <1>3, <2>2, Producto
  <1> QED BY <1>1, <1>2, <1>3, <1>5, PartesEs

\* The accesses of a run: the rest of its first block, e whole blocks, and the
\* sobrante s.
Corte(A, p, n, r, e, s) ==
  /\ r \in Nat \ {0} /\ e \in Nat /\ s \in Nat /\ s = n - r - e
  /\ Celda(p) + r <= BLOCK_SIZE /\ (n > r => Celda(p) + r = BLOCK_SIZE)
  /\ r + BLOCK_SIZE * e <= n /\ n < r + BLOCK_SIZE * e + BLOCK_SIZE
  /\ DOMAIN A = 1 .. Len(A) /\ Len(A) = IF s = 0 THEN e + 1 ELSE e + 2
  /\ A[1] = Acceso(Parte(p), Celda(p), r)
  /\ \A i \in 1 .. e : A[i + 1] = Acceso(Parte(p) + i, 0, BLOCK_SIZE)
  /\ s # 0 => A[e + 2] = Acceso(Parte(p) + e + 1, 0, s)

LEMMA AccesosSon ==
  ASSUME NEW p \in Nat, NEW n \in Nat \ {0}, NEW A, A = Accesos(p, n)
  PROVE  \E r, e, s : Corte(A, p, n, r, e, s)
  <1>1. PICK b, o, q : b = BLOCK_SIZE /\ o = Celda(p) /\ q = Parte(p)
    OBVIOUS
  <1>2. b \in Nat \ {0} /\ o \in Nat /\ o < b /\ q \in Nat \ {0}
    BY <1>1, PartesEs, BloquesAssumption DEF Celda, Indices
  <1>3. PICK r : r = IF n > b - o THEN b - o ELSE n
    OBVIOUS
  <1>4. r \in Nat \ {0} /\ o + r <= b /\ (n > r => o + r = b) /\ n - r \in Nat
    BY <1>2, <1>3
  <1>5. PICK u, e : u = n - r /\ e = u \div b
    OBVIOUS
  <1>6. u \in Nat /\ e \in Nat /\ b * e <= u /\ u < b * e + b
    BY <1>2, <1>4, <1>5, Division
  <1>7. PICK v : v = b * e
    OBVIOUS
  <1>8. v \in Nat /\ v <= u /\ u < v + b /\ e <= v
    BY <1>2, <1>6, <1>7
  <1>9. PICK s : s = n - r - e
    OBVIOUS
  <1>10. s \in Nat
    BY <1>4, <1>5, <1>6, <1>8, <1>9
  <1>11. PICK x, y, z : /\ x = <<Acceso(q, o, r)>> /\ y = [i \in 1 .. e |-> Acceso(q + i, 0, b)]
                        /\ z = IF s = 0 THEN <<>> ELSE <<Acceso(q + e + 1, 0, s)>>
    OBVIOUS
  <1>12. A = x \o y \o z
    BY <1>1, <1>3, <1>5, <1>9, <1>11 DEF Accesos, sobrante, Parte, Celda
  <1> DEFINE T == [bloque : Nat, offset : Nat, n : Nat]
  <1>13. /\ Acceso(q, o, r) \in T /\ Acceso(q + e + 1, 0, s) \in T
         /\ \A i \in 1 .. e : Acceso(q + i, 0, b) \in T
    BY <1>2, <1>4, <1>6, <1>10 DEF Acceso
  <1> HIDE DEF T
  <1>14. x \in Seq(T) /\ Len(x) = 1 /\ x[1] = Acceso(q, o, r)
    BY <1>11, <1>13
  <1>15. y \in Seq(T) /\ Len(y) = e /\ \A i \in 1 .. e : y[i] = Acceso(q + i, 0, b)
    BY <1>6, <1>11, <1>13
  <1>16. /\ z \in Seq(T) /\ Len(z) = IF s = 0 THEN 0 ELSE 1
         /\ s # 0 => z[1] = Acceso(q + e + 1, 0, s)
    BY <1>11, <1>13
  <1>17. PICK w : w = x \o y
    OBVIOUS
  <1>18. /\ w \in Seq(T) /\ Len(w) = 1 + e
         /\ \A i \in 1 .. 1 + e : w[i] = IF i <= 1 THEN x[i] ELSE y[i - 1]
    BY <1>14, <1>15, <1>17, ConcatProperties
  <1>19. A = w \o z
    BY <1>12, <1>17
  <1>20. PICK l : l = Len(w) + Len(z)
    OBVIOUS
  <1>21. /\ A \in Seq(T) /\ Len(A) = l
         /\ \A i \in 1 .. l : A[i] = IF i <= Len(w) THEN w[i] ELSE z[i - Len(w)]
    <2>1. /\ w \o z \in Seq(T) /\ Len(w \o z) = Len(w) + Len(z)
          /\ \A i \in 1 .. Len(w) + Len(z) :
               (w \o z)[i] = IF i <= Len(w) THEN w[i] ELSE z[i - Len(w)]
      <3>1. w \in Seq(T) /\ z \in Seq(T)
        BY <1>16, <1>18
      <3> QED BY <3>1, ConcatProperties, Zenon
    <2> QED BY <1>19, <1>20, <2>1, Zenon
  <1>22. l = IF s = 0 THEN e + 1 ELSE e + 2
    BY <1>6, <1>16, <1>18, <1>20
  <1>23. DOMAIN A = 1 .. Len(A)
    BY <1>21
  <1>24. A[1] = Acceso(q, o, r)
    <2>1. 1 \in 1 .. l /\ 1 \in 1 .. 1 + e /\ 1 <= Len(w)
      BY <1>6, <1>18, <1>22
    <2> QED BY <1>14, <1>18, <1>21, <2>1
  <1>25. ASSUME NEW i \in 1 .. e
         PROVE  A[i + 1] = Acceso(q + i, 0, b)
    <2>1. i + 1 \in 1 .. l /\ i + 1 \in 1 .. 1 + e /\ i + 1 <= Len(w) /\ ~(i + 1 <= 1)
      BY <1>6, <1>18, <1>22
    <2>2. A[i + 1] = w[i + 1] /\ w[i + 1] = y[(i + 1) - 1]
      BY <1>18, <1>21, <2>1
    <2> QED BY <1>15, <2>2
  <1>26. ASSUME s # 0
         PROVE  A[e + 2] = Acceso(q + e + 1, 0, s)
    <2>1. PICK i, y1 : i = e + 2 /\ y1 = Len(w)
      OBVIOUS
    <2>2. i \in 1 .. l /\ ~(i <= y1) /\ i - y1 = 1
      BY <1>6, <1>18, <1>22, <1>26, <2>1
    <2>3. A[i] = IF i <= y1 THEN w[i] ELSE z[i - y1]
      BY <1>21, <2>1, <2>2
    <2>4. A[i] = z[1]
      BY <2>2, <2>3
    <2> QED BY <1>16, <1>26, <2>1, <2>4
  <1>27. r + b * e <= n /\ n < r + b * e + b
    <2>1. r + v <= n /\ n < r + v + b
      BY <1>2, <1>4, <1>5, <1>8
    <2> QED BY <1>7, <2>1
  <1>28. Corte(A, p, n, r, e, s)
    BY <1>1, <1>4, <1>6, <1>9, <1>10, <1>21, <1>22, <1>23, <1>24, <1>25, <1>26, <1>27
    DEF Corte
  <1> QED BY <1>28

\* The bytes counted before each access are the sum h of the ones before it.
LEMMA CuentaDe ==
  ASSUME NEW A, Len(A) \in Nat, NEW h,
         h = [i \in 0 .. Len(A) |-> h[i]], h[0] = 0,
         \A i \in 1 .. Len(A) : h[i] = h[i - 1] + A[i].n
  PROVE  \A k \in 1 .. Len(A) + 1 : Contados(A, k) = h[k - 1]
  <1> DEFINE m == Len(A)
  <1>6. m \in Nat /\ m = Len(A)
    OBVIOUS
  <1> HIDE DEF m
  <1>7. h = [i \in 0 .. m |-> IF i = 0 THEN 0 ELSE h[i - 1] + A[i].n]
    <2>1. \A i \in 0 .. m : i = 0 \/ i \in 1 .. m
      BY <1>6
    <2>2. \A i \in 0 .. m : h[i] = IF i = 0 THEN 0 ELSE h[i - 1] + A[i].n
      BY <1>6, <2>1
    <2> QED BY <1>6, <2>2
  <1>1. PICK g : /\ g = [i \in 0 .. m |-> IF i = 0 THEN 0 ELSE g[i - 1] + A[i].n]
                 /\ \A k : Contados(A, k) = g[k - 1]
    BY <1>6, <1>7, Zenon DEF Contados
  <1> DEFINE S == {i \in Nat : i <= m => g[i] = h[i]}
  <1>2. 0 \in S
    BY <1>1
  <1>3. ASSUME NEW i \in S
        PROVE  i + 1 \in S
    <2>1. SUFFICES ASSUME i + 1 <= m
                   PROVE  g[i + 1] = h[i + 1]
      OBVIOUS
    <2>2. i + 1 \in 0 .. m /\ i + 1 # 0 /\ (i + 1) - 1 = i /\ g[i] = h[i]
      BY <1>6, <2>1
    <2>3. g[i + 1] = g[(i + 1) - 1] + A[i + 1].n
      BY <1>1, <2>2
    <2>4. h[i + 1] = h[(i + 1) - 1] + A[i + 1].n
      BY <1>7, <2>2
    <2> QED BY <2>2, <2>3, <2>4
  <1>4. S = Nat
    <2>1. S \in SUBSET Nat
      OBVIOUS
    <2> HIDE DEF S
    <2> QED BY <1>2, <1>3, <2>1, Induccion
  <1>5. ASSUME NEW k \in 1 .. m + 1
        PROVE  Contados(A, k) = h[k - 1]
    <2>1. k - 1 \in Nat /\ k - 1 <= m
      BY <1>6
    <2>2. k - 1 \in S
      BY <1>4, <2>1
    <2> QED BY <1>1, <2>1, <2>2
  <1> QED BY <1>5, <1>6

LEMMA ContadosDe ==
  ASSUME NEW p, NEW n, NEW A, NEW r, NEW e, NEW s, Corte(A, p, n, r, e, s)
  PROVE  \A k \in 1 .. Len(A) + 1 :
           Contados(A, k) = IF k = 1 THEN 0
                            ELSE IF k <= e + 2 THEN r + BLOCK_SIZE * (k - 2)
                            ELSE r + BLOCK_SIZE * e + s
  <1>1. PICK b, m : b = BLOCK_SIZE /\ m = Len(A)
    OBVIOUS
  <1>2. /\ b \in Nat \ {0} /\ r \in Nat /\ e \in Nat /\ s \in Nat
        /\ m = IF s = 0 THEN e + 1 ELSE e + 2
        /\ A[1].n = r /\ (\A i \in 1 .. e : A[i + 1].n = b) /\ (s # 0 => A[e + 2].n = s)
    <2>1. /\ r \in Nat /\ e \in Nat /\ s \in Nat
          /\ Len(A) = IF s = 0 THEN e + 1 ELSE e + 2
          /\ A[1] = Acceso(Parte(p), Celda(p), r)
          /\ \A i \in 1 .. e : A[i + 1] = Acceso(Parte(p) + i, 0, b)
          /\ s # 0 => A[e + 2] = Acceso(Parte(p) + e + 1, 0, s)
      BY <1>1, Zenon DEF Corte
    <2>3. A[1].n = r
      <3>1. PICK x, y : A[1] = Acceso(x, y, r)
        BY <2>1
      <3> QED BY <3>1 DEF Acceso
    <2>6. ASSUME NEW i \in 1 .. e
          PROVE  A[i + 1].n = b
      <3>1. PICK x : A[i + 1] = Acceso(x, 0, b)
        BY <2>1
      <3> QED BY <3>1 DEF Acceso
    <2>7. s # 0 => A[e + 2].n = s
      BY <2>1, SMT DEF Acceso
    <2>4. b \in Nat \ {0} /\ r \in Nat
      BY <1>1, <2>1, BloquesAssumption
    <2>5. m = IF s = 0 THEN e + 1 ELSE e + 2
      BY <1>1, <2>1, Zenon
    <2> QED BY <2>1, <2>3, <2>4, <2>5, <2>6, <2>7
  <1>3. PICK h : h = [i \in 0 .. m |-> IF i = 0 THEN 0
                                       ELSE IF i <= e + 1 THEN r + b * (i - 1)
                                       ELSE r + b * e + s]
    OBVIOUS
  <1>4. ASSUME NEW i \in 1 .. m
        PROVE  h[i] = h[i - 1] + A[i].n
    <2>1. i \in 0 .. m /\ i - 1 \in 0 .. m /\ i # 0
      BY <1>2
    <2>2. CASE i = 1
      <3>1. 1 \in 0 .. m /\ 0 \in 0 .. m /\ 1 <= e + 1 /\ 1 # 0 /\ 1 - 1 = 0
        BY <1>2
      <3>2. h[1] = r + b * 0 /\ h[0] = 0
        BY <1>3, <3>1
      <3>3. b * 0 = 0
        BY <1>2
      <3>4. h[1] = r
        BY <1>2, <3>2, <3>3
      <3>5. h[1] = h[1 - 1] + A[1].n
        BY <1>2, <3>1, <3>2, <3>4
      <3> QED BY <2>2, <3>5
    <2>3. CASE i # 1 /\ i <= e + 1
      <3>1. PICK c : c = i - 2
        OBVIOUS
      <3>2. c \in Nat /\ i - 1 \in 1 .. e /\ (i - 1) + 1 = i
        BY <1>2, <2>3, <3>1
      <3>3. h[i] = r + b * (c + 1) /\ h[i - 1] = r + b * c
        <4>1. i - 1 = c + 1 /\ (i - 1) - 1 = c /\ i - 1 <= e + 1 /\ i - 1 # 0
          BY <1>2, <2>3, <3>1
        <4> QED BY <1>3, <2>1, <2>3, <4>1
      <3>4. b * (c + 1) = b * c + b
        BY <1>2, <3>2
      <3>5. A[i].n = b
        BY <1>2, <3>2
      <3>6. b * c \in Nat
        BY <1>2, <3>2
      <3> QED BY <1>2, <3>3, <3>4, <3>5, <3>6
    <2>4. CASE ~(i <= e + 1)
      <3>1. i = e + 2 /\ s # 0 /\ i - 1 = e + 1 /\ (i - 1) - 1 = e
        BY <1>2, <2>4
      <3>2. h[i] = r + b * e + s /\ h[i - 1] = r + b * e
        BY <1>2, <1>3, <2>1, <2>4, <3>1
      <3> QED BY <1>2, <3>1, <3>2
    <2> QED BY <2>2, <2>3, <2>4
  <1>5. h[0] = 0
    BY <1>2, <1>3
  <1>6. h = [i \in 0 .. m |-> h[i]]
    BY <1>3
  <1>7. Len(A) \in Nat /\ m = Len(A)
    BY <1>1, <1>2
  <1>8. \A k \in 1 .. m + 1 : Contados(A, k) = h[k - 1]
    BY <1>4, <1>5, <1>6, <1>7, CuentaDe
  <1>9. ASSUME NEW k \in 1 .. m + 1
        PROVE  h[k - 1] = IF k = 1 THEN 0 ELSE IF k <= e + 2 THEN r + b * (k - 2)
                          ELSE r + b * e + s
    <2>1. /\ k - 1 \in 0 .. m /\ (k - 1) - 1 = k - 2 /\ (k - 1 = 0 <=> k = 1)
          /\ (k - 1 <= e + 1 <=> k <= e + 2)
      BY <1>2
    <2> QED BY <1>3, <2>1
  <1> QED BY <1>1, <1>8, <1>9

\* Access a reads or writes, of the run of n bytes from p, those after the first
\* desde: where they are in the file.  Its bytes that are of the run are in one
\* block.
EsParte(a, desde, p, n) ==
  /\ a.bloque \in Nat \ {0} /\ a.offset \in Indices /\ a.n \in Nat \ {0}
  /\ desde \in Nat /\ desde <= n
  /\ BLOCK_SIZE * (a.bloque - 1) + a.offset = p + desde
  /\ a.offset + a.n <= BLOCK_SIZE \/ a.offset + (n - desde) <= BLOCK_SIZE

\* The byte x of a run is where the access that counts it says.
LEMMA EnSuParte ==
  ASSUME NEW p \in Nat, NEW n \in Nat \ {0}, NEW a, NEW desde, EsParte(a, desde, p, n),
         NEW x \in Nat, x - p - desde \in 0 .. a.n - 1, x - p < n
  PROVE  Parte(x) = a.bloque /\ Celda(x) = a.offset + (x - p - desde)
  <1>1. PICK q, o, w : q = a.bloque - 1 /\ o = a.offset /\ w = BLOCK_SIZE
    OBVIOUS
  <1>2. /\ q \in Nat /\ o \in Nat /\ a.n \in Nat /\ desde \in Nat
        /\ w * q + o = p + desde /\ a.bloque = q + 1 /\ w \in Nat
        /\ o + a.n <= w \/ o + (n - desde) <= w
    BY <1>1, BloquesAssumption DEF EsParte, Indices
  <1>3. PICK c : c = o + (x - p - desde)
    OBVIOUS
  <1>4. c \in Indices
    BY <1>1, <1>2, <1>3 DEF Indices
  <1>5. x = BLOCK_SIZE * q + c
    <2>1. PICK v \in Nat : v = w * q
      BY <1>2
    <2>2. v + o = p + desde
      BY <1>2, <2>1
    <2>3. x = v + c
      BY <1>2, <1>3, <2>1, <2>2
    <2> QED BY <1>1, <2>1, <2>3
  <1>6. Parte(x) = q + 1 /\ Celda(x) = c
    BY <1>2, <1>4, <1>5, ParteDe
  <1> QED BY <1>1, <1>2, <1>3, <1>6

\* The accesses of a run follow one another from its first byte to its last, and
\* only the last may go past its block.
EnFila(A, p, n) ==
  /\ Len(A) \in Nat \ {0} /\ DOMAIN A = 1 .. Len(A) /\ Contados(A, 1) = 0
  /\ \A k \in 1 .. Len(A) :
       /\ EsParte(A[k], Contados(A, k), p, n)
       /\ Contados(A, k + 1) = Contados(A, k) + A[k].n
       /\ k < Len(A) \/ A[k].n <= BLOCK_SIZE => A[k].offset + A[k].n <= BLOCK_SIZE
  /\ Contados(A, Len(A) + 1) \in Nat /\ Contados(A, Len(A) + 1) >= n

LEMMA PartesDeAccesos ==
  ASSUME NEW p \in Nat, NEW n \in Nat \ {0}, NEW A, A = Accesos(p, n)
  PROVE  EnFila(A, p, n)
  <1>1. PICK r, e, s : Corte(A, p, n, r, e, s)
    BY AccesosSon
  <1>2. PICK b, m, o, q : b = BLOCK_SIZE /\ m = Len(A) /\ o = Celda(p) /\ q = Parte(p)
    OBVIOUS
  <1>3. PICK t : t = b * e
    OBVIOUS
  <1>4. /\ b \in Nat \ {0} /\ r \in Nat \ {0} /\ e \in Nat /\ s \in Nat /\ s = n - r - e
        /\ o \in Nat /\ o < b /\ o + r <= b /\ (n > r => o + r = b)
        /\ q \in Nat \ {0} /\ b * (q - 1) + o = p
        /\ m = IF s = 0 THEN e + 1 ELSE e + 2
    BY <1>1, <1>2, PartesEs, BloquesAssumption DEF Corte, Indices
  <1>5. t \in Nat /\ e <= t /\ r + t <= n /\ n < r + t + b
    BY <1>1, <1>2, <1>3, <1>4 DEF Corte
  <1>6. /\ A[1].bloque = q /\ A[1].offset = o /\ A[1].n = r
        /\ \A i \in 1 .. e : A[i + 1].bloque = q + i /\ A[i + 1].offset = 0 /\ A[i + 1].n = b
        /\ s # 0 => A[e + 2].bloque = q + e + 1 /\ A[e + 2].offset = 0 /\ A[e + 2].n = s
    <2>1. /\ A[1] = Acceso(q, o, r)
          /\ \A i \in 1 .. e : A[i + 1] = Acceso(q + i, 0, b)
          /\ s # 0 => A[e + 2] = Acceso(q + e + 1, 0, s)
      BY <1>1, <1>2, Zenon DEF Corte
    <2>2. \A x, y, z : /\ Acceso(x, y, z).bloque = x /\ Acceso(x, y, z).offset = y
                       /\ Acceso(x, y, z).n = z
      BY DEF Acceso
    <2> QED BY <2>1, <2>2
  <1> DEFINE C(k) == Contados(A, k)
  <1>7. \A k \in 1 .. m + 1 : C(k) = IF k = 1 THEN 0 ELSE IF k <= e + 2 THEN r + b * (k - 2)
                                     ELSE r + t + s
    BY <1>1, <1>2, <1>3, ContadosDe
  <1> HIDE DEF C
  <1>8. ASSUME NEW k \in 1 .. m
        PROVE  /\ EsParte(A[k], C(k), p, n) /\ C(k + 1) = C(k) + A[k].n
               /\ k < m \/ A[k].n <= b => A[k].offset + A[k].n <= b
    <2>1. CASE k = 1
      <3>1. C(k) = 0 /\ C(k + 1) = r
        <4>1. 1 \in 1 .. m + 1 /\ 2 \in 1 .. m + 1 /\ 2 <= e + 2 /\ b * (2 - 2) = 0
          BY <1>4
        <4> QED BY <1>4, <1>7, <2>1, <4>1
      <3>2. EsParte(A[1], 0, p, n)
        <4>1. b * (A[1].bloque - 1) + A[1].offset = p + 0
          BY <1>4, <1>6
        <4> QED BY <1>2, <1>4, <1>6, <4>1 DEF EsParte, Indices
      <3> QED BY <1>4, <1>6, <2>1, <3>1, <3>2
    <2>2. CASE k # 1 /\ k <= e + 1
      <3>1. PICK i : i = k - 2
        OBVIOUS
      <3>2. i \in Nat /\ i + 1 \in 1 .. e /\ k = i + 2 /\ (i + 1) + 1 = k /\ i + 1 <= e
        BY <1>4, <2>2, <3>1
      <3>3. PICK v \in Nat : v = b * i
        BY <1>4, <3>2
      <3>4. b * (i + 1) = v + b
        BY <1>4, <3>2, <3>3
      <3>5. v + b <= t
        <4>1. b * (i + 1) <= b * e
          BY <1>4, <3>2
        <4> QED BY <1>3, <3>4, <4>1
      <3>6. C(k) = r + v /\ C(k + 1) = r + v + b
        <4>1. /\ k \in 1 .. m + 1 /\ k + 1 \in 1 .. m + 1 /\ k <= e + 2 /\ k + 1 <= e + 2
              /\ k - 2 = i /\ (k + 1) - 2 = i + 1 /\ k # 1 /\ k + 1 # 1
          BY <1>4, <2>2, <3>1
        <4>2. C(k) = r + b * (k - 2) /\ C(k + 1) = r + b * ((k + 1) - 2)
          BY <1>7, <4>1
        <4>3. C(k) = r + v /\ C(k + 1) = r + (v + b)
          BY <3>3, <3>4, <4>1, <4>2
        <4> QED BY <1>4, <3>3, <4>3
      <3>7. A[k].bloque = q + (i + 1) /\ A[k].offset = 0 /\ A[k].n = b
        BY <1>6, <3>2
      <3>8. b * (A[k].bloque - 1) + A[k].offset = p + (r + v)
        <4>1. PICK u : u = b * (q - 1)
          OBVIOUS
        <4>2. b * ((q - 1) + (i + 1)) = u + (v + b)
          BY <1>4, <3>2, <3>4, <4>1
        <4>3. u + o = p /\ u \in Nat
          BY <1>4, <4>1
        <4>4. o + r = b
          BY <1>4, <1>5, <3>3, <3>5
        <4>5. A[k].bloque - 1 = (q - 1) + (i + 1)
          BY <1>4, <3>2, <3>7
        <4>6. b * (A[k].bloque - 1) = u + (v + b)
          BY <4>2, <4>5
        <4> QED BY <1>4, <3>3, <3>7, <4>3, <4>4, <4>6
      <3>9. EsParte(A[k], r + v, p, n)
        <4>1. A[k].bloque \in Nat \ {0} /\ r + v \in Nat /\ r + v <= n
          BY <1>4, <1>5, <3>2, <3>3, <3>5, <3>7
        <4> QED BY <1>2, <1>4, <3>7, <3>8, <4>1 DEF EsParte, Indices
      <3> QED BY <1>4, <3>3, <3>6, <3>7, <3>9
    <2>3. CASE ~(k <= e + 1)
      <3>1. k = e + 2 /\ s # 0 /\ k = m
        BY <1>4, <2>3
      <3>2. C(k) = r + t /\ C(k + 1) = r + t + s
        <4>1. /\ k \in 1 .. m + 1 /\ k + 1 \in 1 .. m + 1 /\ k <= e + 2 /\ ~(k + 1 <= e + 2)
              /\ k - 2 = e /\ k # 1 /\ k + 1 # 1
          BY <1>4, <3>1
        <4>2. C(k) = r + b * (k - 2) /\ C(k + 1) = r + t + s
          BY <1>7, <4>1
        <4> QED BY <1>3, <4>1, <4>2
      <3>3. A[k].bloque = q + e + 1 /\ A[k].offset = 0 /\ A[k].n = s
        BY <1>6, <3>1
      <3>4. b * (A[k].bloque - 1) + A[k].offset = p + (r + t)
        <4>1. PICK u : u = b * (q - 1)
          OBVIOUS
        <4>2. b * ((q - 1) + (e + 1)) = u + (t + b)
          BY <1>3, <1>4, <4>1
        <4>3. u + o = p /\ u \in Nat
          BY <1>4, <4>1
        <4>4. o + r = b
          BY <1>4, <3>1
        <4>5. A[k].bloque - 1 = (q - 1) + (e + 1)
          BY <1>4, <3>3
        <4>6. b * (A[k].bloque - 1) = u + (t + b)
          BY <4>2, <4>5
        <4> QED BY <1>4, <1>5, <3>3, <4>3, <4>4, <4>6
      <3>5. EsParte(A[k], r + t, p, n)
        <4>1. /\ A[k].bloque \in Nat \ {0} /\ r + t \in Nat /\ r + t <= n
              /\ A[k].offset + (n - (r + t)) <= b
          BY <1>4, <1>5, <3>3
        <4> QED BY <1>2, <1>4, <3>1, <3>3, <3>4, <4>1 DEF EsParte, Indices
      <3> QED BY <1>4, <1>5, <3>1, <3>2, <3>3, <3>5
    <2> QED BY <2>1, <2>2, <2>3
  <1>9. C(1) = 0
    BY <1>4, <1>7
  <1>10. C(m + 1) \in Nat /\ C(m + 1) >= n
    <2>1. CASE s = 0
      <3>1. m + 1 = e + 2 /\ e + 2 \in 1 .. m + 1 /\ e + 2 # 1 /\ (e + 2) - 2 = e
        BY <1>4, <2>1
      <3>2. C(m + 1) = r + b * ((e + 2) - 2)
        BY <1>7, <3>1
      <3>3. C(m + 1) = r + t
        BY <1>3, <3>1, <3>2
      <3> QED BY <1>4, <1>5, <2>1, <3>3
    <2>2. CASE s # 0
      <3>1. m + 1 \in 1 .. m + 1 /\ ~(m + 1 <= e + 2) /\ m + 1 # 1
        BY <1>4, <2>2
      <3>2. C(m + 1) = r + t + s
        BY <1>7, <3>1
      <3> QED BY <1>4, <1>5, <3>2
    <2> QED BY <2>1, <2>2
  <1>11. m \in Nat \ {0} /\ DOMAIN A = 1 .. m
    BY <1>1, <1>2, <1>4 DEF Corte
  <1> QED BY <1>2, <1>8, <1>9, <1>10, <1>11 DEF EnFila, C

\* An access counts each byte of the run.
LEMMA AlgunoLoCuenta ==
  ASSUME NEW p \in Nat, NEW n \in Nat, NEW A, EnFila(A, p, n), NEW j \in 0 .. n - 1
  PROVE  \E k \in 1 .. Len(A) : j - Contados(A, k) \in 0 .. A[k].n - 1
  <1> DEFINE m == Len(A)
             C(k) == Contados(A, k)
             S == {i \in Nat : i <= m /\ j < C(i + 1) =>
                     \E k \in 1 .. m : j - C(k) \in 0 .. A[k].n - 1}
  <1>1. /\ m \in Nat /\ C(1) = 0 /\ j < C(m + 1) /\ C(m + 1) \in Nat
        /\ \A k \in 1 .. m : C(k) \in Nat /\ A[k].n \in Nat /\ C(k + 1) = C(k) + A[k].n
    BY DEF EnFila, EsParte
  <1> HIDE DEF C, m
  <1>2. 0 \in S
    BY <1>1
  <1>3. ASSUME NEW i \in S
        PROVE  i + 1 \in S
    <2>1. SUFFICES ASSUME i + 1 <= m, j < C((i + 1) + 1)
                   PROVE  \E k \in 1 .. m : j - C(k) \in 0 .. A[k].n - 1
      OBVIOUS
    <2>2. CASE j < C(i + 1)
      BY <1>1, <2>1, <2>2
    <2>3. CASE ~(j < C(i + 1))
      <3>1. PICK k \in 1 .. m : k = i + 1
        BY <1>1, <2>1
      <3>2. C(k) \in Nat /\ A[k].n \in Nat /\ C(k + 1) = C(k) + A[k].n /\ j < C(k + 1)
        BY <1>1, <2>1, <3>1
      <3>3. j - C(k) \in 0 .. A[k].n - 1
        BY <2>3, <3>1, <3>2
      <3> QED BY <3>3
    <2> QED BY <2>2, <2>3
  <1>4. S = Nat
    <2>1. S \in SUBSET Nat
      OBVIOUS
    <2> HIDE DEF S
    <2> QED BY <1>2, <1>3, <2>1, Induccion
  <1>5. m \in S
    BY <1>1, <1>4
  <1>6. \E k \in 1 .. m : j - C(k) \in 0 .. A[k].n - 1
    BY <1>1, <1>5
  <1> QED BY <1>6 DEF C, m

-----------------------------------------------------------------------------
(* What the blocks hold.                                                   *)

Celdas == (Archivos \X Nat) \union {Basura}
EsDatos(d) == d \in [Bloques -> [Indices -> Celdas]]

\* What the cell of a byte of a file holds.
Guarda(d, f, x) == d[BloqueEn(f, Parte(x))][Celda(x)]

LEMMA DestinoEs ==
  ASSUME IBloques, ~caido, NEW f \in Archivos, NEW a,
         a.bloque \in 1 .. Ocupa(FCB[f].tam)
  PROVE  /\ Destino(f, a) = BloqueEn(f, a.bloque) /\ a.bloque \in Lugares(f)
         /\ Destino(f, a) \in Bloques \union {SinBloque}
  <1>1. PICK n, i : n = Ocupa(FCB[f].tam) /\ i = a.bloque
    OBVIOUS
  <1>2. FCB[f].tam \in Nat
    BY DEF IBloques, TypeOKB
  <1>3. n \in Nat /\ n <= BLOCK_SIZE + 1 /\ i \in 1 .. n
    BY <1>1, <1>2, OcupaEs DEF IBloques, Acotados
  <1>4. i \in Lugares(f)
    BY <1>1, <1>3, LugaresSon DEF Sitios
  <1>5. BloqueEn(f, i) \in Bloques \union {SinBloque}
    BY <1>4, BloquesDelDisco
  <1>6. Destino(f, a) = BloqueEn(f, i)
    <2>1. CASE i = 1
      BY <1>1, <2>1, LugaresSon DEF Destino
    <2>2. CASE i # 1
      <3>1. n > 1 /\ i - 2 \in Indices /\ i # 0
        BY <1>3, <2>2, BloquesAssumption DEF Indices
      <3>2. FCB[f].indirecto # SinBloque
        BY <1>1, <3>1 DEF IBloques, ConIndirecto
      <3>3. Destino(f, a) = punteros[FCB[f].indirecto][i - 2]
        BY <1>1, <2>2, <3>1, <3>2 DEF Destino
      <3> QED BY <2>2, <3>1, <3>3, LugaresSon
    <2> QED BY <2>1, <2>2
  <1> QED BY <1>1, <1>4, <1>5, <1>6

\* From d to e, the bytes lo to hi - 1 of the run of n bytes of f from p: those
\* that are of the run are in their places, and no other of any file changed.
Cambia(e, d, f, p, n, lo, hi) ==
  \A g \in Archivos : \A x \in Nat :
    x < FCB[g].tam /\ BloqueEn(g, Parte(x)) \in Bloques =>
      IF g = f /\ x - p \in lo .. hi - 1 THEN x - p < n => Guarda(e, g, x) = <<f, x>>
      ELSE Guarda(e, g, x) = Guarda(d, g, x)

LEMMA EscribirUno ==
  ASSUME IBloques, ~caido, NEW f \in Archivos, NEW p \in Nat, NEW n \in Nat \ {0},
         NEW k, NEW a, a = Accesos(p, n)[k],
         NEW desde, desde = Contados(Accesos(p, n), k), EsParte(a, desde, p, n),
         ~FueraDelArchivo(f, a), NEW d, EsDatos(d), NEW e, e = escribir_bloque(d, f, p, n, k)
  PROVE  EsDatos(e) /\ Cambia(e, d, f, p, n, desde, desde + a.n)
  <1>1. PICK b, q, o, m, w : /\ b = Destino(f, a) /\ q = a.bloque /\ o = a.offset /\ m = a.n
                             /\ w = BLOCK_SIZE
    OBVIOUS
  <1>2. /\ q \in Nat \ {0} /\ o \in Nat /\ m \in Nat \ {0} /\ desde \in Nat
        /\ w * (q - 1) + o = p + desde /\ w \in Nat \ {0}
    BY <1>1, BloquesAssumption DEF EsParte, Indices
  <1>3. FCB[f].tam \in Nat
    BY DEF IBloques, TypeOKB
  <1>4. ASSUME NEW x \in Nat, x - p \in desde .. desde + m - 1, x - p < n
        PROVE  Parte(x) = q /\ Celda(x) = o + (x - p - desde)
    <2>1. x - p - desde \in 0 .. a.n - 1
      BY <1>1, <1>2, <1>4
    <2> QED BY <1>1, <1>4, <2>1, EnSuParte
  <1>5. q \in 1 .. Ocupa(FCB[f].tam)
    <2>1. ~(a.bloque > Ocupa(FCB[f].tam))
      BY Zenon DEF FueraDelArchivo
    <2>2. Ocupa(FCB[f].tam) \in Nat
      BY <1>3, OcupaEs
    <2> QED BY <1>1, <1>2, <2>1, <2>2
  <1>6. b = BloqueEn(f, q) /\ q \in Lugares(f) /\ b \in Bloques /\ b # SinBloque
    BY <1>1, <1>5, DestinoEs DEF FueraDelArchivo
  <1>7. PICK z : z = [c \in Indices |->
                        IF c - o \in 0 .. m - 1
                        THEN IF desde + c - o < n THEN <<f, p + desde + c - o>> ELSE Basura
                        ELSE d[b][c]]
    OBVIOUS
  <1>8. e = [d EXCEPT ![b] = z]
    BY <1>1, <1>6, <1>7 DEF escribir_bloque, EsDatos
  <1>9. e[b] = z /\ \A y \in Bloques : y # b => e[y] = d[y]
    BY <1>6, <1>8 DEF EsDatos
  <1>10. EsDatos(e)
    <2>1. ASSUME NEW c \in Indices
          PROVE  z[c] \in Celdas
      <3>1. d[b][c] \in Celdas
        BY <1>6 DEF EsDatos
      <3>2. CASE c - o \in 0 .. m - 1 /\ desde + c - o < n
        <4>1. p + desde + c - o \in Nat /\ z[c] = <<f, p + desde + c - o>>
          BY <1>2, <1>7, <3>2 DEF Indices
        <4> QED BY <4>1 DEF Celdas
      <3>3. CASE ~(c - o \in 0 .. m - 1 /\ desde + c - o < n)
        BY <1>7, <3>1, <3>3 DEF Celdas
      <3> QED BY <3>2, <3>3
    <2>2. z \in [Indices -> Celdas]
      BY <1>7, <2>1
    <2> QED BY <1>6, <1>8, <2>2 DEF EsDatos
  <1>11. ASSUME NEW g \in Archivos, NEW x \in Nat, x < FCB[g].tam,
                BloqueEn(g, Parte(x)) \in Bloques
         PROVE  IF g = f /\ x - p \in desde .. desde + m - 1
                THEN x - p < n => Guarda(e, g, x) = <<f, x>>
                ELSE Guarda(e, g, x) = Guarda(d, g, x)
    <2>1. PICK y, c : y = BloqueEn(g, Parte(x)) /\ c = Celda(x)
      OBVIOUS
    <2>2. c \in Indices /\ x = w * (Parte(x) - 1) + c /\ y \in Bloques
      BY <1>1, <1>11, <2>1, PartesEs
    <2>3. CASE y # b
      <3>1. ~(g = f /\ x - p \in desde .. desde + m - 1 /\ x - p < n)
        BY <1>4, <1>6, <2>1, <2>3
      <3>2. e[y] = d[y]
        BY <1>9, <2>2, <2>3
      <3> QED BY <2>1, <3>1, <3>2 DEF Guarda
    <2>4. CASE y = b
      <3>1. FCB[g].tam \in Nat
        BY DEF IBloques, TypeOKB
      <3>2. Parte(x) \in Lugares(g)
        <4>1. Parte(x) \in 1 .. Ocupa(FCB[g].tam)
          BY <1>11, <3>1, ParteDelArchivo
        <4> QED BY <4>1, LugaresSon DEF Sitios
      <3>3. g = f /\ Parte(x) = q
        BY <1>6, <2>1, <2>4, <3>2 DEF IBloques, SinCompartir
      <3>4. c - o = x - p - desde /\ c \in Int
        BY <1>2, <2>2, <3>3 DEF Indices
      <3>5. e[y][c] = z[c]
        BY <1>9, <2>4
      <3>6. CASE x - p \in desde .. desde + m - 1 /\ x - p < n
        <4>1. c - o \in 0 .. m - 1 /\ desde + c - o < n /\ p + desde + c - o = x
          BY <1>2, <3>4, <3>6
        <4>2. z[c] = <<f, x>>
          BY <1>7, <2>2, <4>1
        <4> QED BY <2>1, <3>3, <3>5, <3>6, <4>2 DEF Guarda
      <3>7. CASE ~(x - p \in desde .. desde + m - 1)
        <4>1. ~(c - o \in 0 .. m - 1)
          BY <1>2, <3>4, <3>7
        <4>2. z[c] = d[b][c]
          BY <1>7, <2>2, <4>1
        <4> QED BY <2>1, <2>4, <3>5, <3>7, <4>2 DEF Guarda
      <3> QED BY <3>3, <3>6, <3>7
    <2> QED BY <2>3, <2>4
  <1>12. PICK hi : hi = desde + m
    OBVIOUS
  <1>13. Cambia(e, d, f, p, n, desde, hi)
    <2> SUFFICES ASSUME NEW g \in Archivos, NEW x \in Nat, x < FCB[g].tam,
                        BloqueEn(g, Parte(x)) \in Bloques
                 PROVE  IF g = f /\ x - p \in desde .. hi - 1
                        THEN x - p < n => Guarda(e, g, x) = <<f, x>>
                        ELSE Guarda(e, g, x) = Guarda(d, g, x)
      BY DEF Cambia
    <2>1. hi - 1 = desde + m - 1
      BY <1>2, <1>12
    <2>2. IF g = f /\ x - p \in desde .. desde + m - 1
          THEN x - p < n => Guarda(e, g, x) = <<f, x>>
          ELSE Guarda(e, g, x) = Guarda(d, g, x)
      BY <1>11
    <2> QED BY <2>1, <2>2
  <1> QED BY <1>1, <1>10, <1>12, <1>13

\* What two accesses that follow one another change.
LEMMA CambianSeguidos ==
  ASSUME NEW d, NEW u, NEW v, NEW f, NEW p \in Nat, NEW n, NEW c \in Nat, NEW k \in Nat,
         Cambia(u, d, f, p, n, 0, c), Cambia(v, u, f, p, n, c, c + k)
  PROVE  Cambia(v, d, f, p, n, 0, c + k)
  <1> SUFFICES ASSUME NEW g \in Archivos, NEW x \in Nat, x < FCB[g].tam,
                      BloqueEn(g, Parte(x)) \in Bloques
               PROVE  IF g = f /\ x - p \in 0 .. c + k - 1
                      THEN x - p < n => Guarda(v, g, x) = <<f, x>>
                      ELSE Guarda(v, g, x) = Guarda(d, g, x)
    BY DEF Cambia
  <1>1. /\ IF g = f /\ x - p \in 0 .. c - 1 THEN x - p < n => Guarda(u, g, x) = <<f, x>>
           ELSE Guarda(u, g, x) = Guarda(d, g, x)
        /\ IF g = f /\ x - p \in c .. c + k - 1 THEN x - p < n => Guarda(v, g, x) = <<f, x>>
           ELSE Guarda(v, g, x) = Guarda(u, g, x)
    BY DEF Cambia
  <1>2. x - p \in 0 .. c + k - 1 <=> x - p \in 0 .. c - 1 \/ x - p \in c .. c + k - 1
    OBVIOUS
  <1>3. ~(x - p \in 0 .. c - 1 /\ x - p \in c .. c + k - 1)
    OBVIOUS
  <1> QED BY <1>1, <1>2, <1>3

\* The turns of escribir_bloques.
LEMMA EscribirTodo ==
  ASSUME IBloques, ~caido, NEW f \in Archivos, NEW p \in Nat, NEW n \in Nat \ {0},
         EsDatos(datos), NEW A, A = Accesos(p, n),
         \A k \in DOMAIN A : ~FueraDelArchivo(f, A[k]), NEW e, e = escribir_bloques(f, p, n)
  PROVE  EsDatos(e) /\ Cambia(e, datos, f, p, n, 0, Contados(A, Len(A) + 1))
  <1>1. PICK m : m = Len(A)
    OBVIOUS
  <1> DEFINE C(k) == Contados(A, k)
             V == [Bloques -> [Indices -> Celdas]]
             Hace(d, k) == escribir_bloque(d, f, p, n, k)
  <1>2. /\ m \in Nat \ {0} /\ C(1) = 0 /\ DOMAIN A = 1 .. m
        /\ \A k \in 1 .. m : /\ EsParte(A[k], C(k), p, n) /\ C(k + 1) = C(k) + A[k].n
                             /\ C(k) \in Nat /\ A[k].n \in Nat
    <2>1. EnFila(A, p, n)
      BY PartesDeAccesos
    <2>2. \A k \in 1 .. m : EsParte(A[k], C(k), p, n) /\ C(k + 1) = C(k) + A[k].n
      BY <1>1, <2>1, Zenon DEF EnFila
    <2>3. \A k \in 1 .. m : C(k) \in Nat /\ A[k].n \in Nat
      BY <2>2 DEF EsParte
    <2>4. m \in Nat \ {0} /\ C(1) = 0 /\ DOMAIN A = 1 .. m
      BY <1>1, <2>1, Zenon DEF EnFila
    <2> QED BY <2>2, <2>3, <2>4
  <1>3. ASSUME NEW k \in 1 .. m, NEW d \in V
        PROVE  Hace(d, k) \in V /\ Cambia(Hace(d, k), d, f, p, n, C(k), C(k + 1))
    <2>1. PICK w, a, desde : /\ w = escribir_bloque(d, f, p, n, k)
                             /\ a = A[k] /\ desde = C(k)
      OBVIOUS
    <2>2. EsParte(a, desde, p, n) /\ ~FueraDelArchivo(f, a) /\ C(k + 1) = desde + a.n
      BY <1>2, <2>1
    <2>3. EsDatos(w) /\ Cambia(w, d, f, p, n, desde, desde + a.n)
      <3>1. a = Accesos(p, n)[k] /\ desde = Contados(Accesos(p, n), k) /\ EsDatos(d)
        BY <2>1 DEF EsDatos
      <3> QED BY <2>1, <2>2, <3>1, EscribirUno
    <2> QED BY <2>1, <2>2, <2>3 DEF EsDatos
  <1> HIDE DEF C, Hace, V
  <1>4. datos \in V
    BY DEF EsDatos, V
  <1>5. PICK G : G = [t \in (1 .. m) \X V |-> Hace(t[2], t[1])]
    OBVIOUS
  <1>6. \A i \in 1 .. m, v \in V : G[<<i, v>>] = Hace(v, i)
    BY <1>5
  <1>7. PICK h : Recorre(h, m, V, datos, G)
    <2>1. Cierra(m, V, G)
      BY <1>3, <1>6 DEF Cierra
    <2> QED BY <1>2, <1>4, <2>1, Vueltas
  <1>8. h = [k \in 0 .. m |-> IF k = 0 THEN datos ELSE Hace(h[k - 1], k)]
    <2>1. ASSUME NEW k \in 0 .. m
          PROVE  h[k] = IF k = 0 THEN datos ELSE Hace(h[k - 1], k)
      <3>1. CASE k = 0
        BY <1>7, <3>1 DEF Recorre
      <3>2. CASE k # 0
        <4>1. k \in 1 .. m /\ k - 1 \in 0 .. m
          BY <1>2, <3>2
        <4>2. h[k] = G[<<k, h[k - 1]>>] /\ h[k - 1] \in V
          BY <1>7, <4>1 DEF Recorre
        <4> QED BY <1>6, <3>2, <4>1, <4>2
      <3> QED BY <3>1, <3>2
    <2>2. h = [k \in 0 .. m |-> h[k]]
      BY <1>7 DEF Recorre
    <2> QED BY <2>1, <2>2
  <1>9. PICK g : /\ g = [k \in 0 .. m |-> IF k = 0 THEN datos ELSE Hace(g[k - 1], k)]
                 /\ e = g[m]
    BY <1>1, <1>8, Zenon DEF escribir_bloques, Hace
  <1> DEFINE S == {i \in Nat : i <= m => g[i] \in V /\ Cambia(g[i], datos, f, p, n, 0, C(i + 1))}
  <1>10. 0 \in S
    <2>1. g[0] = datos /\ C(0 + 1) = 0
      BY <1>2, <1>9
    <2>2. Cambia(datos, datos, f, p, n, 0, 0)
      BY DEF Cambia
    <2> QED BY <1>4, <2>1, <2>2
  <1>11. ASSUME NEW i \in S
         PROVE  i + 1 \in S
    <2>1. SUFFICES ASSUME i + 1 <= m
                   PROVE  /\ g[i + 1] \in V
                          /\ Cambia(g[i + 1], datos, f, p, n, 0, C((i + 1) + 1))
      OBVIOUS
    <2>2. PICK k : k = i + 1
      OBVIOUS
    <2>3. k \in 1 .. m /\ k \in 0 .. m /\ k # 0 /\ k - 1 = i /\ i <= m
      BY <1>2, <2>1, <2>2
    <2>4. g[i] \in V /\ Cambia(g[i], datos, f, p, n, 0, C(k))
      BY <2>2, <2>3
    <2>5. g[k] = Hace(g[i], k)
      BY <1>9, <2>3
    <2>6. g[k] \in V /\ Cambia(g[k], g[i], f, p, n, C(k), C(k + 1))
      BY <1>3, <2>3, <2>4, <2>5
    <2>7. C(k) \in Nat /\ A[k].n \in Nat /\ C(k + 1) = C(k) + A[k].n
      BY <1>2, <2>3
    <2>8. Cambia(g[k], datos, f, p, n, 0, C(k + 1))
      BY <2>4, <2>6, <2>7, CambianSeguidos
    <2> QED BY <2>2, <2>6, <2>8
  <1>12. S = Nat
    <2>1. S \in SUBSET Nat
      OBVIOUS
    <2> HIDE DEF S
    <2> QED BY <1>10, <1>11, <2>1, Induccion
  <1>13. m \in S
    BY <1>2, <1>12
  <1>14. g[m] \in V /\ Cambia(g[m], datos, f, p, n, 0, C(m + 1))
    BY <1>2, <1>13
  <1> QED BY <1>1, <1>9, <1>14 DEF C, V, EsDatos

\* A byte that is where it should be is read, if its access is copied.
LEMMA Leer ==
  ASSUME IBloques, ~caido, NEW f \in Archivos, NEW p \in Nat, NEW n \in Nat \ {0},
         NEW j \in 0 .. n - 1, j < Llegan(p, n), p + j < FCB[f].tam,
         BloqueEn(f, Parte(p + j)) \in Bloques, Guarda(datos, f, p + j) = <<f, p + j>>
  PROVE  leer_bloques(f, p, n)[j] = <<f, p + j>>
  <1> DEFINE A == Accesos(p, n)
  <1>1. A = Accesos(p, n)
    OBVIOUS
  <1> HIDE DEF A
  <1>2. EnFila(A, p, n)
    BY <1>1, PartesDeAccesos
  <1> DEFINE Cual == CHOOSE k \in DOMAIN A : j - Contados(A, k) \in 0 .. A[k].n - 1
             Byte == IF \/ A[Cual].offset + A[Cual].n > BLOCK_SIZE
                        \/ Destino(f, A[Cual]) = SinBloque THEN Basura
                     ELSE datos[Destino(f, A[Cual])]
                               [A[Cual].offset + j - Contados(A, Cual)]
  <1>3. leer_bloques(f, p, n)[j] = Byte
    BY Zenon DEF A, leer_bloques
  <1>4. PICK k : k = Cual
    OBVIOUS
  <1>5. k \in 1 .. Len(A) /\ j - Contados(A, k) \in 0 .. A[k].n - 1
    <2>1. DOMAIN A = 1 .. Len(A) /\ n \in Nat
      BY <1>2 DEF EnFila
    <2>2. \E i \in DOMAIN A : j - Contados(A, i) \in 0 .. A[i].n - 1
      BY <1>2, <2>1, AlgunoLoCuenta
    <2> QED BY <1>4, <2>1, <2>2, Zenon
  <1>6. PICK a, desde : a = A[k] /\ desde = Contados(A, k)
    OBVIOUS
  <1>7. EsParte(a, desde, p, n) /\ j - desde \in 0 .. a.n - 1
    BY <1>2, <1>5, <1>6 DEF EnFila
  <1>8. PICK x : x = p + j
    OBVIOUS
  <1>9. x \in Nat /\ x < FCB[f].tam /\ FCB[f].tam \in Nat
    BY <1>8 DEF IBloques, TypeOKB
  <1>10. Parte(x) = a.bloque /\ Celda(x) = a.offset + j - desde
    <2>1. a.offset \in Nat /\ desde \in Nat
      BY <1>7 DEF EsParte, Indices
    <2>2. x - p - desde \in 0 .. a.n - 1 /\ x - p - desde = j - desde /\ x - p < n
      BY <1>7, <1>8, <2>1
    <2>3. Parte(x) = a.bloque /\ Celda(x) = a.offset + (x - p - desde)
      BY <1>7, <1>9, <2>2, EnSuParte
    <2> QED BY <2>1, <2>2, <2>3
  <1>11. a.bloque \in 1 .. Ocupa(FCB[f].tam)
    BY <1>9, <1>10, ParteDelArchivo
  <1>12. Destino(f, a) = BloqueEn(f, Parte(x)) /\ Destino(f, a) \in Bloques
    BY <1>8, <1>10, <1>11, DestinoEs
  <1>13. Destino(f, a) # SinBloque
    BY <1>12, BloquesAssumption DEF Bloques, SinBloque
  <1>14. ~(a.offset + a.n > BLOCK_SIZE)
    <2>1. k < Len(A) \/ A[k].n <= BLOCK_SIZE
      <3>1. CASE k # Len(A)
        <4>1. Len(A) \in Nat
          BY <1>2 DEF EnFila
        <4> QED BY <1>5, <3>1, <4>1
      <3>2. CASE k = Len(A) /\ A[k].n > BLOCK_SIZE
        <4>1. Llegan(p, n) = Contados(A, Len(A))
          BY <1>1, <3>2 DEF Llegan
        <4>2. j < desde
          BY <1>6, <3>2, <4>1
        <4> QED BY <1>7, <4>2 DEF EsParte
      <3>3. A[k].n \in Nat
        BY <1>6, <1>7 DEF EsParte
      <3> QED BY <3>1, <3>2, <3>3, BloquesAssumption
    <2>2. a.offset + a.n <= BLOCK_SIZE
      BY <1>2, <1>5, <1>6, <2>1 DEF EnFila
    <2> QED BY <1>7, <2>2, BloquesAssumption DEF EsParte, Indices
  <1>15. datos[Destino(f, a)][a.offset + j - desde] = <<f, x>>
    BY <1>8, <1>10, <1>12 DEF Guarda
  <1>16. Byte = datos[Destino(f, a)][a.offset + j - desde]
    BY <1>4, <1>6, <1>13, <1>14
  <1> HIDE DEF Byte
  <1> QED BY <1>3, <1>8, <1>15, <1>16

-----------------------------------------------------------------------------
(* What was written is in its place.                                       *)

EnSuCelda(f, x) ==
  /\ x \in Nat /\ x < FCB[f].tam /\ BloqueEn(f, Parte(x)) \in Bloques
  /\ Guarda(datos, f, x) = <<f, x>>

ILeido ==
  /\ escrito = [f \in Archivos |-> escrito[f]]
  /\ ~caido => /\ EsDatos(datos)
               /\ \A f \in Archivos : \A x \in escrito[f] : EnSuCelda(f, x)

LEMMA InicioILeido ==
  ASSUME InitAB
  PROVE  ILeido
  <1>1. EsDatos(datos)
    BY DEF InitAB, EsDatos, Celdas
  <1>2. escrito = [f \in Archivos |-> {}]
    BY DEF InitAB
  <1>3. escrito = [f \in Archivos |-> escrito[f]] /\ \A f \in Archivos : escrito[f] = {}
    BY <1>2
  <1> QED BY <1>1, <1>3 DEF ILeido

\* A file that is created or truncated changes no other.
LEMMA SoloElSuyo ==
  ASSUME IBloques, NEW f \in Archivos,
         F_CREATE(f) \/ \E t \in Tamanios[f] : F_TRUNCATE(f, t)
  PROVE  FCB'[f].tam \in Nat /\ \A g \in Archivos : g # f => FCB'[g] = FCB[g]
  <1>1. FCB = [g \in Archivos |-> FCB[g]] /\ FCB[f].tam \in Nat
    BY DEF IBloques, TypeOKB
  <1>2. CASE F_CREATE(f)
    BY <1>1, <1>2 DEF F_CREATE
  <1>3. CASE \E t \in Tamanios[f] : F_TRUNCATE(f, t)
    <2>1. PICK t \in Tamanios[f] : F_TRUNCATE(f, t)
      BY <1>3
    <2>2. t \in Nat
      BY BloquesAssumption
    <2>3. CASE asignar_bloques(f, t)
      <3>1. PICK s, ya, n, d, p, u : Asigna(f, t, s, ya, n, d, p, u)
        BY <1>1, <2>2, <2>3, AsignarHace
      <3>2. PICK v, w : FCB' = [FCB EXCEPT ![f] = [tam |-> t, directo |-> v,
                                                   indirecto |-> w]]
        BY <3>1, Zenon DEF Asigna
      <3> QED BY <1>1, <2>2, <3>2
    <2>4. CASE liberar_bloques(f, t)
      <3>1. FCB' = [FCB EXCEPT ![f].tam = t]
        BY <2>4, Zenon DEF liberar_bloques
      <3>2. FCB[f] \in [tam : Nat, directo : Bloques \union {SinBloque},
                        indirecto : Bloques \union {SinBloque}]
        BY DEF IBloques, TypeOKB
      <3> QED BY <1>1, <2>2, <3>1, <3>2
    <2>5. CASE FCB' = FCB
      BY <1>1, <2>5
    <2> QED BY <2>1, <2>3, <2>4, <2>5 DEF F_TRUNCATE
  <1> QED BY <1>2, <1>3

LEMMA AdministrarConserva ==
  ASSUME IBloques, ILeido, ~caido, NEW f \in Archivos, Administrar(f)
  PROVE  ILeido'
  <1>1. /\ escrito' = [escrito EXCEPT ![f] = {x \in @ : x < FCB'[f].tam}]
        /\ datos' = datos
        /\ F_CREATE(f) \/ \E t \in Tamanios[f] : F_TRUNCATE(f, t)
    BY DEF Administrar
  <1>2. IBloques' /\ Conserva
    BY <1>1, PasoDeBloques
  <1>3. FCB'[f].tam \in Nat /\ \A g \in Archivos : g # f => FCB'[g] = FCB[g]
    BY <1>1, SoloElSuyo
  <1>4. escrito = [g \in Archivos |-> escrito[g]]
    BY DEF ILeido
  <1>5. escrito' = [g \in Archivos |-> escrito'[g]]
    BY <1>1, <1>4
  <1>6. ASSUME NEW g \in Archivos, NEW x \in escrito'[g]
        PROVE  EnSuCelda(g, x)'
    <2>1. x \in escrito[g] /\ (g = f => x < FCB'[f].tam)
      BY <1>1, <1>4, <1>6
    <2>2. EnSuCelda(g, x)
      BY <2>1 DEF ILeido
    <2>3. x \in Nat /\ x < FCB[g].tam /\ x < FCB'[g].tam
      BY <1>3, <2>1, <2>2 DEF EnSuCelda
    <2>4. FCB[g].tam \in Nat /\ FCB'[g].tam \in Nat
      BY <1>2 DEF IBloques, TypeOKB
    <2>5. Parte(x) \in 1 .. Ocupa(FCB[g].tam) /\ Parte(x) \in 1 .. Ocupa(FCB'[g].tam)
      BY <2>3, <2>4, ParteDelArchivo
    <2>6. Parte(x) \in Lugares(g) \ {0} /\ Parte(x) \in Lugares(g)'
      BY <2>5, LugaresSon DEF Sitios
    <2>7. BloqueEn(g, Parte(x))' = BloqueEn(g, Parte(x))
      BY <1>2, <2>6 DEF Conserva
    <2>8. PICK b, c : /\ b = BloqueEn(g, Parte(x)) /\ c = Celda(x)
                      /\ b \in Bloques /\ datos[b][c] = <<g, x>>
      BY <2>2 DEF EnSuCelda, Guarda
    <2>9. Guarda(datos, g, x)' = datos'[b][c]
      <3>1. Parte(x)' = Parte(x) /\ Celda(x)' = Celda(x)
        BY DEF Parte, Celda
      <3> QED BY <2>7, <2>8, <3>1 DEF Guarda
    <2> QED BY <1>1, <2>3, <2>7, <2>8, <2>9 DEF EnSuCelda, Parte
  <1> QED BY <1>1, <1>5, <1>6 DEF ILeido, EsDatos

\* A write to its own blocks leaves its bytes in their places; what it counted
\* past them is no longer there, and the rest of every file is where it was.
LEMMA EscribirConserva ==
  ASSUME IBloques, ILeido, ~caido, NEW f \in Archivos, NEW p \in Nat, NEW n \in Nat \ {0},
         p + n <= FCB[f].tam, NEW A, A = Accesos(p, n),
         \A k \in DOMAIN A : ~FueraDelArchivo(f, A[k]), NEW total, total = Contados(A, Len(A) + 1), NEW e, e = escribir_bloques(f, p, n)
  PROVE  /\ EsDatos(e)
         /\ \A g \in Archivos :
              \A x \in (escrito[g] \ (IF g = f THEN p .. p + total - 1 ELSE {}))
                         \union (IF g = f THEN p .. p + n - 1 ELSE {}) :
                /\ x \in Nat /\ x < FCB[g].tam /\ BloqueEn(g, Parte(x)) \in Bloques
                /\ Guarda(e, g, x) = <<g, x>>
  <1>1. FCB[f].tam \in Nat /\ EsDatos(datos)
    BY DEF IBloques, TypeOKB, ILeido
  <1>2. EsDatos(e) /\ Cambia(e, datos, f, p, n, 0, total)
    BY <1>1, EscribirTodo
  <1>3. EnFila(A, p, n) /\ total \in Nat /\ total >= n
    BY PartesDeAccesos DEF EnFila
  <1>4. ASSUME NEW x \in p .. p + n - 1
        PROVE  x \in Nat /\ x < FCB[f].tam /\ BloqueEn(f, Parte(x)) \in Bloques
    <2>1. x \in Nat /\ x < FCB[f].tam /\ x - p \in 0 .. n - 1
      BY <1>1
    <2>2. PICK k \in 1 .. Len(A) : x - p - Contados(A, k) \in 0 .. A[k].n - 1
      BY <1>3, <2>1, AlgunoLoCuenta
    <2>3. EsParte(A[k], Contados(A, k), p, n) /\ k \in DOMAIN A
      BY <1>3, <2>2 DEF EnFila
    <2>4. Parte(x) = A[k].bloque
      BY <2>1, <2>2, <2>3, EnSuParte
    <2>5. A[k].bloque \in 1 .. Ocupa(FCB[f].tam)
      BY <1>1, <2>1, <2>4, ParteDelArchivo
    <2>6. /\ Destino(f, A[k]) = BloqueEn(f, Parte(x))
          /\ Destino(f, A[k]) \in Bloques \union {SinBloque}
      BY <2>4, <2>5, DestinoEs
    <2>7. Destino(f, A[k]) # SinBloque
      BY <2>3 DEF FueraDelArchivo
    <2> QED BY <2>1, <2>6, <2>7
  <1>5. ASSUME NEW g \in Archivos,
               NEW x \in (escrito[g] \ (IF g = f THEN p .. p + total - 1 ELSE {}))
                           \union (IF g = f THEN p .. p + n - 1 ELSE {})
        PROVE  /\ x \in Nat /\ x < FCB[g].tam /\ BloqueEn(g, Parte(x)) \in Bloques
               /\ Guarda(e, g, x) = <<g, x>>
    <2>1. CASE g = f /\ x \in p .. p + n - 1
      <3>1. x - p \in 0 .. total - 1 /\ x - p < n
        BY <1>3, <2>1
      <3> QED BY <1>2, <1>4, <2>1, <3>1 DEF Cambia
    <2>2. CASE ~(g = f /\ x \in p .. p + n - 1)
      <3>1. x \in escrito[g] /\ ~(g = f /\ x \in p .. p + total - 1)
        BY <2>2
      <3>2. EnSuCelda(g, x)
        BY <3>1 DEF ILeido
      <3>3. ~(g = f /\ x - p \in 0 .. total - 1)
        BY <1>3, <3>1, <3>2 DEF EnSuCelda
      <3>4. Guarda(e, g, x) = Guarda(datos, g, x)
        BY <1>2, <3>2, <3>3 DEF Cambia, EnSuCelda
      <3> QED BY <3>2, <3>4 DEF EnSuCelda
    <2> QED BY <2>1, <2>2
  <1> QED BY <1>2, <1>5

LEMMA PasoDeILeido == IBloques /\ ILeido /\ [NextAB]_varsAB => ILeido'
  <1> SUFFICES ASSUME IBloques, ILeido, [NextAB]_varsAB
               PROVE  ILeido'
    OBVIOUS
  <1>1. ASSUME UNCHANGED <<bitmap, FCB, existe, punteros, datos, escrito>>,
               caido => caido', caido' \in BOOLEAN
        PROVE  ILeido'
    <2>1. \A g \in Archivos : \A i : BloqueEn(g, i)' = BloqueEn(g, i)
      BY <1>1, SinAdministrar
    <2>2. ASSUME NEW g \in Archivos, NEW x, EnSuCelda(g, x)
          PROVE  EnSuCelda(g, x)'
      BY <1>1, <2>1, <2>2 DEF EnSuCelda, Guarda, Parte, Celda
    <2> QED BY <1>1, <2>2 DEF ILeido, EsDatos
  <1>2. CASE UNCHANGED varsAB
    <2>1. UNCHANGED <<bitmap, FCB, existe, punteros, caido, datos, escrito>>
      BY <1>2 DEF varsAB, varsB
    <2> QED BY <1>1, <2>1 DEF IBloques, TypeOKB
  <1>3. ASSUME ~caido, NEW f \in Archivos, Administrar(f)
        PROVE  ILeido'
    BY <1>3, AdministrarConserva
  <1>4. ASSUME ~caido, NEW f \in Archivos, NEW p \in Punteros, NEW n \in Cantidades
        PROVE  FueraDeRango(f, p, n) \/ F_WRITE(f, p, n) \/ F_READ(f, p, n) => ILeido'
    <2>1. p \in Nat /\ n \in Nat \ {0}
      BY AccesoAssumption
    <2>2. F_WRITE(f, p, n) \/ F_READ(f, p, n) => caido' \in BOOLEAN
      BY CaidoBooleano
    <2>5. CASE FueraDeRango(f, p, n)
      <3>1. UNCHANGED <<bitmap, FCB, existe, punteros, caido, datos, escrito>>
        BY <2>5 DEF FueraDeRango, varsB
      <3> QED BY <1>1, <3>1 DEF IBloques, TypeOKB
    <2>6. CASE F_READ(f, p, n)
      <3>1. UNCHANGED <<bitmap, FCB, existe, punteros, datos, escrito>>
        BY <2>6 DEF F_READ
      <3> QED BY <1>1, <1>4, <2>2, <2>6, <3>1
    <2>7. CASE F_WRITE(f, p, n)
      <3>1. PICK e, A, total : /\ e = escribir_bloques(f, p, n) /\ A = Accesos(p, n)
                               /\ total = Contados(A, Len(A) + 1)
        OBVIOUS
      <3>2. /\ p + n <= FCB[f].tam /\ datos' = e
            /\ escrito' = [escrito EXCEPT ![f] =
                 (@ \ (p .. p + total - 1)) \union (p .. p + n - 1)]
            /\ caido' = (\E k \in DOMAIN A : FueraDelArchivo(f, A[k]))
            /\ UNCHANGED <<bitmap, FCB, existe, punteros>>
        BY <2>7, <3>1, Zenon DEF F_WRITE
      <3>3. escrito = [g \in Archivos |-> escrito[g]]
        BY DEF ILeido
      <3>4. /\ escrito' = [g \in Archivos |-> escrito'[g]]
            /\ \A g \in Archivos :
                 escrito'[g] = (escrito[g] \ (IF g = f THEN p .. p + total - 1 ELSE {}))
                                 \union (IF g = f THEN p .. p + n - 1 ELSE {})
        BY <3>2, <3>3
      <3>5. CASE caido'
        BY <3>4, <3>5 DEF ILeido
      <3>6. CASE ~caido'
        <4>0. \A k \in DOMAIN A : ~FueraDelArchivo(f, A[k])
          BY <3>2, <3>6
        <4>1. /\ EsDatos(e)
              /\ \A g \in Archivos :
                   \A x \in (escrito[g] \ (IF g = f THEN p .. p + total - 1 ELSE {}))
                              \union (IF g = f THEN p .. p + n - 1 ELSE {}) :
                     /\ x \in Nat /\ x < FCB[g].tam /\ BloqueEn(g, Parte(x)) \in Bloques
                     /\ Guarda(e, g, x) = <<g, x>>
          BY <1>4, <2>1, <3>1, <3>2, <4>0, EscribirConserva
        <4>2. \A g \in Archivos : \A i : BloqueEn(g, i)' = BloqueEn(g, i)
          BY <3>2, LugaresSon
        <4>3. ASSUME NEW g \in Archivos, NEW x \in escrito'[g]
              PROVE  EnSuCelda(g, x)'
          <5>1. /\ x \in Nat /\ x < FCB[g].tam /\ BloqueEn(g, Parte(x)) \in Bloques
                /\ Guarda(e, g, x) = <<g, x>>
            BY <3>4, <4>1, <4>3
          <5>2. PICK b, c : /\ b = BloqueEn(g, Parte(x)) /\ c = Celda(x)
                            /\ b \in Bloques /\ e[b][c] = <<g, x>>
            BY <5>1 DEF Guarda
          <5>3. Guarda(datos, g, x)' = datos'[b][c] /\ BloqueEn(g, Parte(x))' = b
            <6>1. Parte(x)' = Parte(x) /\ Celda(x)' = Celda(x)
              BY DEF Parte, Celda
            <6> QED BY <4>2, <5>2, <6>1 DEF Guarda
          <5> QED BY <3>2, <5>1, <5>2, <5>3 DEF EnSuCelda
        <4>4. EsDatos(datos)'
          BY <3>2, <4>1 DEF EsDatos
        <4> QED BY <3>4, <4>3, <4>4 DEF ILeido
      <3> QED BY <3>5, <3>6
    <2> QED BY <2>5, <2>6, <2>7
  <1> QED BY <1>2, <1>3, <1>4 DEF NextAB

\* Whatever the lengths of the runs, a read returns what was last written at every
\* position it copies, however the files grew and shrank in between
\* (escribir_bloques, leer_bloques, F_WRITE, F_READ).
THEOREM LoEscritoSeLee == SpecAB => []LeeLoEscrito
  <1>1. InitAB => ILeido
    BY InicioILeido
  <1>2. IBloques /\ ILeido /\ [NextAB]_varsAB => ILeido'
    BY PasoDeILeido
  <1>3. SpecAB => []IBloques
    BY BloquesSiempre
  <1>4. SpecAB => []ILeido
    BY <1>1, <1>2, <1>3, PTL DEF SpecAB
  <1>5. IBloques /\ ILeido => LeeLoEscrito
    <2> SUFFICES ASSUME IBloques, ILeido, ~caido, NEW f \in existe,
                        NEW p \in Punteros, NEW n \in Cantidades, NEW j \in 0 .. n - 1,
                        p + j \in escrito[f], j < Llegan(p, n)
                 PROVE  leer_bloques(f, p, n)[j] = <<f, p + j>>
      BY DEF LeeLoEscrito
    <2>1. f \in Archivos /\ p \in Nat /\ n \in Nat \ {0}
      BY AccesoAssumption DEF IBloques, TypeOKB
    <2>2. EnSuCelda(f, p + j)
      BY <2>1 DEF ILeido
    <2> QED BY <2>1, <2>2, Leer DEF EnSuCelda
  <1> QED BY <1>3, <1>4, <1>5, PTL
=============================================================================

--------------------------- MODULE MemoriaProofs ----------------------------
(* The segment administration of Memoria: where the bytes of the user      *)
(* space are, for any memory, algorithm, sizes and number of processes.    *)
(* A process that ends is where the code loses and repeats holes, so what  *)
(* is proved of it needs at most two segments for each process besides     *)
(* segmento_0; the rest holds for any number until a process ends.         *)
EXTENDS Memoria, SequenceTheorems, FiniteSetTheorems, WellFoundedInduction, TLAPS

-----------------------------------------------------------------------------
(* Loops: a counter from 0, and what each turn leaves.                     *)

Menor == {ss \in Nat \X Nat : ss[1] < ss[2]}

LEMMA Minimo ==
  ASSUME NEW S \in SUBSET Nat, S # {}
  PROVE  \E b \in S : \A c \in S : b <= c
  <1>1. IsWellFoundedOn(OpToRel(<, Nat), Nat) /\ OpToRel(<, Nat) = Menor
    BY NatLessThanWellFounded DEF OpToRel, Menor
  <1>2. PICK b \in S : \A c \in S : ~(<<c, b>> \in Menor)
    <2>1. IsWellFoundedOn(Menor, Nat)
      BY <1>1
    <2> QED BY <2>1, WFMin
  <1>3. ASSUME NEW c \in S
        PROVE  b <= c
    <2>1. b \in Nat /\ c \in Nat
      OBVIOUS
    <2>2. c < b => <<c, b>> \in Menor
      BY <2>1 DEF Menor
    <2> QED BY <1>2, <2>1, <2>2
  <1> QED BY <1>3

\* What holds for 0, and for n + 1 if it holds for n, holds for every n.
LEMMA Induccion ==
  ASSUME NEW S \in SUBSET Nat, 0 \in S, \A n \in S : n + 1 \in S
  PROVE  S = Nat
  <1>1. SUFFICES ASSUME Nat \ S # {}
                 PROVE  FALSE
    OBVIOUS
  <1>2. PICK b \in Nat \ S : \A c \in Nat \ S : b <= c
    BY <1>1, Minimo
  <1>3. b - 1 \in Nat /\ ~(b <= b - 1)
    BY <1>2
  <1> QED BY <1>2, <1>3

\* A loop of n turns from b, where G is what a turn does: it has a result after
\* each of them.
Cierra(n, V, G) == \A i \in 1 .. n : \A v \in V : G[<<i, v>>] \in V
Recorre(h, n, V, b, G) ==
  h \in [0 .. n -> V] /\ h[0] = b /\ \A i \in 1 .. n : h[i] = G[<<i, h[i - 1]>>]

LEMMA Vueltas ==
  ASSUME NEW n \in Nat, NEW V, NEW b \in V, NEW G, Cierra(n, V, G)
  PROVE  \E h : Recorre(h, n, V, b, G)
  <1> DEFINE Va(m, h) == h[0] = b /\ \A i \in 1 .. m : h[i] = G[<<i, h[i - 1]>>]
             S == {m \in Nat : m <= n => \E h \in [0 .. m -> V] : Va(m, h)}
  <1>1. 0 \in S
    <2>1. Va(0, [i \in 0 .. 0 |-> b]) /\ [i \in 0 .. 0 |-> b] \in [0 .. 0 -> V]
      OBVIOUS
    <2> QED BY <2>1
  <1>2. ASSUME NEW m \in S
        PROVE  m + 1 \in S
    <2>1. SUFFICES ASSUME m + 1 <= n
                   PROVE  \E h \in [0 .. m + 1 -> V] : Va(m + 1, h)
      BY DEF S
    <2>2. PICK h \in [0 .. m -> V] : Va(m, h)
      BY <2>1
    <2>3. m + 1 \in 1 .. n /\ h[m] \in V
      BY <2>1, <2>2
    <2>4. PICK x \in V : x = G[<<m + 1, h[m]>>]
      BY <2>3 DEF Cierra
    <2>5. PICK k : k = [i \in 0 .. m + 1 |-> IF i <= m THEN h[i] ELSE x]
      OBVIOUS
    <2>6. k \in [0 .. m + 1 -> V]
      BY <2>2, <2>5
    <2>7. \A i \in 0 .. m : k[i] = h[i]
      BY <2>5
    <2>8. k[m + 1] = G[<<m + 1, k[m]>>]
      <3>1. m + 1 \in 0 .. m + 1 /\ m \in 0 .. m /\ ~(m + 1 <= m)
        OBVIOUS
      <3>2. k[m + 1] = x /\ k[m] = h[m]
        BY <2>5, <2>7, <3>1
      <3> QED BY <2>4, <3>2
    <2>9. ASSUME NEW i \in 1 .. m + 1
          PROVE  k[i] = G[<<i, k[i - 1]>>]
      <3>1. CASE i = m + 1
        BY <2>8, <3>1
      <3>2. CASE i \in 1 .. m
        <4>1. i \in 0 .. m /\ i - 1 \in 0 .. m
          BY <3>2
        <4> QED BY <2>2, <2>7, <3>2, <4>1
      <3> QED BY <3>1, <3>2
    <2>10. k[0] = b
      BY <2>2, <2>7
    <2> QED BY <2>6, <2>9, <2>10
  <1>3. n \in S
    <2>1. S \in SUBSET Nat
      OBVIOUS
    <2> QED BY <1>1, <1>2, <2>1, Induccion
  <1> QED BY <1>3 DEF Recorre

-----------------------------------------------------------------------------
(* Lists.                                                                  *)

EsSegmento == [pid : Procesos \union {Global}, id : Nat, base : Nat, tamanio : Nat]
EsHueco == [obj : Nat, base : Nat, tamanio : Nat]

\* l without its k-th entry.
Sin(l, k) == [j \in 1 .. Len(l) - 1 |-> IF j < k THEN l[j] ELSE l[j + 1]]

LEMMA QuitarEs ==
  ASSUME NEW X, NEW l \in Seq(X), NEW k \in 1 .. Len(l)
  PROVE  /\ RemoveAt(l, k) = Sin(l, k)
         /\ Sin(l, k) \in Seq(X) /\ Len(Sin(l, k)) = Len(l) - 1
  <1>1. Len(l) \in Nat /\ \A i \in 1 .. Len(l) : l[i] \in X
    OBVIOUS
  <1>2. PICK a, b : a = SubSeq(l, 1, k - 1) /\ b = SubSeq(l, k + 1, Len(l))
    OBVIOUS
  <1>3. /\ a \in Seq(X) /\ Len(a) = k - 1 /\ \A j \in 1 .. k - 1 : a[j] = l[j]
        /\ b \in Seq(X) /\ Len(b) = Len(l) - k
        /\ \A j \in 1 .. Len(l) - k : b[j] = l[k + j]
    BY <1>1, <1>2
  <1>4. /\ a \o b \in Seq(X) /\ Len(a \o b) = Len(l) - 1
        /\ \A j \in 1 .. Len(l) - 1 :
             (a \o b)[j] = IF j <= k - 1 THEN a[j] ELSE b[j - (k - 1)]
    <2>1. a \o b \in Seq(X) /\ Len(a \o b) = Len(a) + Len(b)
      BY <1>3, ConcatProperties
    <2>2. Len(a) \in Nat /\ Len(b) \in Nat /\ Len(a) + Len(b) = Len(l) - 1
      BY <1>1, <1>3
    <2>3. \A j \in 1 .. Len(a) + Len(b) :
            (a \o b)[j] = IF j <= Len(a) THEN a[j] ELSE b[j - Len(a)]
      BY <1>3, ConcatProperties
    <2> QED BY <1>3, <2>1, <2>2, <2>3
  <1>5. ASSUME NEW j \in 1 .. Len(l) - 1
        PROVE  (a \o b)[j] = IF j < k THEN l[j] ELSE l[j + 1]
    <2>1. CASE j < k
      BY <1>3, <1>4, <2>1
    <2>2. CASE ~(j < k)
      <3>1. j - (k - 1) \in 1 .. Len(l) - k /\ ~(j <= k - 1) /\ k + (j - (k - 1)) = j + 1
        BY <1>1, <2>2
      <3> QED BY <1>3, <1>4, <2>2, <3>1
    <2> QED BY <2>1, <2>2
  <1>6. a \o b = [j \in 1 .. Len(a \o b) |-> (a \o b)[j]]
    <2>1. PICK s : s = a \o b
      OBVIOUS
    <2>2. s \in Seq(X)
      BY <1>4, <2>1
    <2>3. s = [j \in 1 .. Len(s) |-> s[j]]
      BY <2>2
    <2> QED BY <2>1, <2>3
  <1>7. a \o b = Sin(l, k)
    BY <1>4, <1>5, <1>6 DEF Sin
  <1> QED BY <1>2, <1>4, <1>7 DEF RemoveAt

\* list_remove_element takes one entry, the first one that is e.
LEMMA QuitarPrimero ==
  ASSUME NEW X, NEW l \in Seq(X), NEW e, \E i \in 1 .. Len(l) : l[i] = e
  PROVE  \E k \in 1 .. Len(l) : l[k] = e /\ RemoveFirst(l, e) = Sin(l, k)
  <1> DEFINE I == {i \in 1 .. Len(l) : l[i] = e}
             m == Min(I)
  <1>1. I \in SUBSET Nat /\ I # {}
    OBVIOUS
  <1>2. \E b \in I : \A c \in I : b <= c
    BY <1>1, Minimo
  <1>3. m \in I
    BY <1>2 DEF Min
  <1>4. RemoveFirst(l, e) = RemoveAt(l, m)
    <2>1. SelectInSeq(l, LAMBDA v : v = e) = m
      BY <1>1 DEF SelectInSeq
    <2> QED BY <1>1, <2>1 DEF RemoveFirst
  <1> HIDE DEF m
  <1> QED BY <1>3, <1>4, QuitarEs

\* Where the entries of Sin(l, k) were.
LEMMA EntradasSin ==
  ASSUME NEW X, NEW l \in Seq(X), NEW k \in 1 .. Len(l)
  PROVE  /\ DOMAIN Sin(l, k) = 1 .. Len(l) - 1 /\ DOMAIN l = 1 .. Len(l)
         /\ \A j \in 1 .. Len(l) - 1 : \E i \in 1 .. Len(l) :
              i = (IF j < k THEN j ELSE j + 1) /\ i # k /\ Sin(l, k)[j] = l[i]
         /\ \A i \in 1 .. Len(l) : i # k =>
              \E j \in 1 .. Len(l) - 1 : Sin(l, k)[j] = l[i]
  <1>1. Len(l) \in Nat /\ DOMAIN l = 1 .. Len(l)
    OBVIOUS
  <1>2. \A j \in 1 .. Len(l) - 1 : Sin(l, k)[j] = IF j < k THEN l[j] ELSE l[j + 1]
    BY DEF Sin
  <1>3. ASSUME NEW i \in 1 .. Len(l), i # k
        PROVE  \E j \in 1 .. Len(l) - 1 : Sin(l, k)[j] = l[i]
    <2>1. CASE i < k
      <3>1. i \in 1 .. Len(l) - 1
        BY <1>1, <2>1
      <3> QED BY <1>2, <2>1, <3>1
    <2>2. CASE i > k
      <3>1. i - 1 \in 1 .. Len(l) - 1 /\ ~(i - 1 < k) /\ (i - 1) + 1 = i
        BY <1>1, <2>2
      <3> QED BY <1>2, <3>1
    <2> QED BY <1>1, <1>3, <2>1, <2>2
  <1>4. ASSUME NEW j \in 1 .. Len(l) - 1
        PROVE  \E i \in 1 .. Len(l) :
                 i = (IF j < k THEN j ELSE j + 1) /\ i # k /\ Sin(l, k)[j] = l[i]
    <2>1. PICK i : i = IF j < k THEN j ELSE j + 1
      OBVIOUS
    <2>2. i \in 1 .. Len(l) /\ i # k
      BY <1>1, <2>1
    <2> QED BY <1>2, <2>1, <2>2
  <1> QED BY <1>1, <1>3, <1>4 DEF Sin

-----------------------------------------------------------------------------
(* Lists of holes that cover no byte twice.                                *)

Cubre(l) == UNION {Bytes(l[i]) : i \in DOMAIN l}

HuecosBien(l) ==
  /\ l \in Seq(EsHueco)
  /\ \A i, j \in DOMAIN l : i # j => l[i].obj # l[j].obj /\ Disjuntos(l[i], l[j])

LEMMA HuecoEs ==
  ASSUME NEW o \in Nat, NEW b \in Nat, NEW t \in Nat
  PROVE  /\ Hueco(o, b, t) \in EsHueco /\ Bytes(Hueco(o, b, t)) = b .. b + t - 1
         /\ Hueco(o, b, t).obj = o /\ Hueco(o, b, t).base = b /\ Hueco(o, b, t).tamanio = t
  BY DEF Hueco, EsHueco, Bytes

\* The hole a segment leaves.
LEMMA HuecoDeSegmento ==
  ASSUME NEW s \in EsSegmento, NEW o \in Nat
  PROVE  /\ Hueco(o, s.base, s.tamanio) \in EsHueco
         /\ Hueco(o, s.base, s.tamanio).obj = o
         /\ Bytes(Hueco(o, s.base, s.tamanio)) = Bytes(s)
  BY DEF Hueco, EsHueco, EsSegmento, Bytes

LEMMA DeHueco ==
  ASSUME NEW h \in EsHueco
  PROVE  /\ h.obj \in Nat /\ h.base \in Nat /\ h.tamanio \in Nat
         /\ h = Hueco(h.obj, h.base, h.tamanio)
  BY DEF EsHueco, Hueco

\* A new hole apart from the others.
LEMMA ConOtroHueco ==
  ASSUME NEW l, HuecosBien(l), NEW h \in EsHueco,
         \A i \in DOMAIN l : l[i].obj # h.obj, Bytes(h) \intersect Cubre(l) = {}
  PROVE  HuecosBien(Append(l, h)) /\ Cubre(Append(l, h)) = Cubre(l) \union Bytes(h)
  <1>1. l \in Seq(EsHueco) /\ Len(l) \in Nat /\ DOMAIN l = 1 .. Len(l)
    BY DEF HuecosBien
  <1>2. PICK m, n : m = Append(l, h) /\ n = Len(l) + 1
    OBVIOUS
  <1>3. /\ m \in Seq(EsHueco) /\ DOMAIN m = 1 .. n /\ m[n] = h
        /\ \A i \in 1 .. Len(l) : m[i] = l[i]
    BY <1>1, <1>2
  <1>4. \A i \in 1 .. n : i = n \/ i \in 1 .. Len(l)
    BY <1>1, <1>2
  <1>5. n \in 1 .. n /\ 1 .. Len(l) \subseteq 1 .. n
    BY <1>1, <1>2
  <1>6. \A i \in DOMAIN l : Disjuntos(l[i], h) /\ Disjuntos(h, l[i])
    BY DEF Disjuntos, Cubre
  <1>7. HuecosBien(m)
    BY <1>1, <1>3, <1>4, <1>6 DEF HuecosBien
  <1>8. Cubre(m) = Cubre(l) \union Bytes(h)
    BY <1>1, <1>3, <1>4, <1>5 DEF Cubre
  <1> QED BY <1>2, <1>7, <1>8

\* One hole less.
LEMMA SinUnHueco ==
  ASSUME NEW l, HuecosBien(l), NEW k \in DOMAIN l
  PROVE  HuecosBien(Sin(l, k)) /\ Cubre(Sin(l, k)) = Cubre(l) \ Bytes(l[k])
  <1>1. l \in Seq(EsHueco) /\ DOMAIN l = 1 .. Len(l) /\ k \in 1 .. Len(l) /\ Len(l) \in Nat
    BY DEF HuecosBien
  <1>2. PICK m, n : m = Sin(l, k) /\ n = Len(l) - 1
    OBVIOUS
  <1>3. m \in Seq(EsHueco) /\ DOMAIN m = 1 .. n
    BY <1>1, <1>2, QuitarEs, EntradasSin
  <1>4. \A j \in 1 .. n : \E i \in 1 .. Len(l) :
          i = (IF j < k THEN j ELSE j + 1) /\ i # k /\ m[j] = l[i]
    BY <1>1, <1>2, EntradasSin
  <1>5. \A i \in 1 .. Len(l) : i # k => \E j \in 1 .. n : m[j] = l[i]
    BY <1>1, <1>2, EntradasSin
  <1>6. ASSUME NEW i \in 1 .. n, NEW j \in 1 .. n, i # j
        PROVE  m[i].obj # m[j].obj /\ Disjuntos(m[i], m[j])
    <2>1. PICK a \in 1 .. Len(l) : a = (IF i < k THEN i ELSE i + 1) /\ m[i] = l[a]
      BY <1>4
    <2>2. PICK b \in 1 .. Len(l) : b = (IF j < k THEN j ELSE j + 1) /\ m[j] = l[b]
      BY <1>4
    <2>3. a # b
      BY <1>1, <1>6, <2>1, <2>2
    <2> QED BY <1>1, <2>1, <2>2, <2>3 DEF HuecosBien
  <1>7. HuecosBien(m)
    BY <1>3, <1>6 DEF HuecosBien
  <1>8. \A x : x \in Cubre(m) <=> \E i \in 1 .. Len(l) : i # k /\ x \in Bytes(l[i])
    BY <1>3, <1>4, <1>5 DEF Cubre
  <1>9. \A i \in 1 .. Len(l) : i # k => Bytes(l[i]) \intersect Bytes(l[k]) = {}
    BY <1>1 DEF HuecosBien, Disjuntos
  <1>10. \A x : x \in Cubre(l) <=> \E i \in 1 .. Len(l) : x \in Bytes(l[i])
    BY <1>1 DEF Cubre
  <1>11. Cubre(m) = Cubre(l) \ Bytes(l[k])
    BY <1>1, <1>8, <1>9, <1>10
  <1> QED BY <1>2, <1>7, <1>11

\* A hole that changes, apart from the others.
LEMMA HuecoCambiado ==
  ASSUME NEW l, HuecosBien(l), NEW k \in DOMAIN l, NEW b \in Nat, NEW t \in Nat,
         Bytes(Hueco(l[k].obj, b, t)) \intersect Cubre(Sin(l, k)) = {}
  PROVE  LET m == Escribir(l, l[k].obj, b, t) IN
         /\ HuecosBien(m) /\ m[k] = Hueco(l[k].obj, b, t)
         /\ DOMAIN m = DOMAIN l /\ \A i \in DOMAIN l : i # k => m[i] = l[i]
         /\ Cubre(m) = Cubre(Sin(l, k)) \union Bytes(m[k])
  <1>1. l \in Seq(EsHueco) /\ DOMAIN l = 1 .. Len(l) /\ k \in 1 .. Len(l) /\ Len(l) \in Nat
    BY DEF HuecosBien
  <1>2. PICK h, m : h = Hueco(l[k].obj, b, t) /\ m = Escribir(l, l[k].obj, b, t)
    OBVIOUS
  <1>3. l[k] \in EsHueco
    BY <1>1
  <1>4. h \in EsHueco /\ h.obj = l[k].obj
    BY <1>2, <1>3, DeHueco, HuecoEs
  <1>5. m = [i \in 1 .. Len(l) |-> IF i = k THEN h ELSE l[i]]
    <2>1. \A i \in 1 .. Len(l) : l[i].obj = l[k].obj <=> i = k
      BY <1>1 DEF HuecosBien
    <2> QED BY <1>1, <1>2, <2>1 DEF Escribir
  <1>6. /\ m \in Seq(EsHueco) /\ DOMAIN m = 1 .. Len(l) /\ m[k] = h
        /\ \A i \in 1 .. Len(l) : i # k => m[i] = l[i]
    <2>1. \A i \in 1 .. Len(l) : l[i] \in EsHueco
      BY <1>1
    <2>2. m \in [1 .. Len(l) -> EsHueco]
      BY <1>4, <1>5, <2>1
    <2> QED BY <1>1, <1>5, <2>2
  <1>7. \A i \in 1 .. Len(l) : i # k => Bytes(l[i]) \subseteq Cubre(Sin(l, k))
    <2>1. \A i \in 1 .. Len(l) : i # k => \E j \in DOMAIN Sin(l, k) : Sin(l, k)[j] = l[i]
      <3>1. DOMAIN Sin(l, k) = 1 .. Len(l) - 1
        BY DEF Sin
      <3>2. \A i \in 1 .. Len(l) : i # k => \E j \in 1 .. Len(l) - 1 : Sin(l, k)[j] = l[i]
        BY <1>1, EntradasSin
      <3> QED BY <3>1, <3>2
    <2> QED BY <2>1 DEF Cubre
  <1>8. \A i \in 1 .. Len(l) : i # k => Disjuntos(l[i], h) /\ Disjuntos(h, l[i])
    BY <1>2, <1>7 DEF Disjuntos
  <1>9. HuecosBien(m)
    <2>1. ASSUME NEW i \in 1 .. Len(l), NEW j \in 1 .. Len(l), i # j
          PROVE  m[i].obj # m[j].obj /\ Disjuntos(m[i], m[j])
      <3>1. l[i].obj # l[j].obj /\ Disjuntos(l[i], l[j])
        BY <1>1, <2>1 DEF HuecosBien
      <3>2. CASE i = k
        BY <1>4, <1>6, <1>8, <2>1, <3>1, <3>2
      <3>3. CASE j = k
        BY <1>4, <1>6, <1>8, <2>1, <3>1, <3>3
      <3>4. CASE i # k /\ j # k
        BY <1>6, <3>1, <3>4
      <3> QED BY <3>2, <3>3, <3>4
    <2> QED BY <1>6, <2>1 DEF HuecosBien
  <1>10. Cubre(m) = Cubre(Sin(l, k)) \union Bytes(h)
    <2>1. \A j \in DOMAIN Sin(l, k) : \E i \in 1 .. Len(l) : i # k /\ Sin(l, k)[j] = l[i]
      <3>1. DOMAIN Sin(l, k) = 1 .. Len(l) - 1
        BY DEF Sin
      <3>2. ASSUME NEW j \in 1 .. Len(l) - 1
            PROVE  \E i \in 1 .. Len(l) : i # k /\ Sin(l, k)[j] = l[i]
        <4>1. PICK i \in 1 .. Len(l) :
                i = (IF j < k THEN j ELSE j + 1) /\ i # k /\ Sin(l, k)[j] = l[i]
          BY <1>1, EntradasSin
        <4> QED BY <4>1
      <3> QED BY <3>1, <3>2
    <2>2. \A x : x \in Cubre(Sin(l, k)) <=> \E i \in 1 .. Len(l) : i # k /\ x \in Bytes(l[i])
      <3>1. \A x : x \in Cubre(Sin(l, k)) => \E i \in 1 .. Len(l) : i # k /\ x \in Bytes(l[i])
        BY <2>1 DEF Cubre
      <3> QED BY <1>7, <3>1
    <2>3. \A x : x \in Cubre(m) <=> \E i \in 1 .. Len(l) : x \in Bytes(m[i])
      BY <1>6 DEF Cubre
    <2> QED BY <1>1, <1>6, <2>2, <2>3
  <1> QED BY <1>1, <1>2, <1>6, <1>9, <1>10

\* One turn of buddySystem keeps the bytes the holes cover, and they stay apart.
LEMMA UnirBien ==
  ASSUME NEW l, HuecosBien(l), NEW i \in Nat, i >= 1
  PROVE  HuecosBien(Unir(l, i)) /\ Cubre(Unir(l, i)) = Cubre(l)
  <1>1. l \in Seq(EsHueco) /\ DOMAIN l = 1 .. Len(l) /\ Len(l) \in Nat
    BY DEF HuecosBien
  <1>2. CASE i >= Len(l) \/ l[i].base + l[i].tamanio # l[i + 1].base
    BY <1>2 DEF Unir
  <1>3. CASE ~(i >= Len(l)) /\ l[i].base + l[i].tamanio = l[i + 1].base
    <2>1. PICK k : k = i + 1
      OBVIOUS
    <2>2. i \in 1 .. Len(l) /\ k \in 1 .. Len(l) /\ i # k
      BY <1>1, <1>3, <2>1
    <2>3. l[i] \in EsHueco /\ l[k] \in EsHueco
      BY <1>1, <2>2
    <2>4. PICK b, t, u : b = l[i].base /\ t = l[i].tamanio /\ u = l[k].tamanio
      OBVIOUS
    <2>5. b \in Nat /\ t \in Nat /\ u \in Nat /\ l[k].obj \in Nat /\ l[k].base = b + t
      BY <1>3, <2>1, <2>3, <2>4, DeHueco
    <2>17. PICK v \in Nat : v = u + t
      BY <2>5
    <2>6. PICK h, m : h = Hueco(l[k].obj, b, v) /\ m = Escribir(l, l[k].obj, b, v)
      OBVIOUS
    <2>7. Bytes(h) = Bytes(l[i]) \union Bytes(l[k])
      <3>1. Bytes(h) = b .. b + v - 1
        <4>1. h = [obj |-> l[k].obj, base |-> b, tamanio |-> v]
          BY <2>6 DEF Hueco
        <4> QED BY <4>1 DEF Bytes
      <3>2. Bytes(l[i]) = b .. b + t - 1 /\ Bytes(l[k]) = b + t .. b + t + u - 1
        BY <2>4, <2>5 DEF Bytes
      <3> QED BY <2>5, <2>17, <3>1, <3>2
    <2>8. PICK r : r = Sin(l, i)
      OBVIOUS
    <2>9. HuecosBien(r) /\ Cubre(r) = Cubre(l) \ Bytes(l[i])
      BY <1>1, <2>2, <2>8, SinUnHueco
    <2>10. /\ DOMAIN r = 1 .. Len(l) - 1 /\ i \in DOMAIN r /\ r[i] = l[k]
           /\ \A j \in DOMAIN r : r[j] = IF j < i THEN l[j] ELSE l[j + 1]
      <3>1. DOMAIN r = 1 .. Len(l) - 1
            /\ \A j \in 1 .. Len(l) - 1 : r[j] = IF j < i THEN l[j] ELSE l[j + 1]
        BY <2>8 DEF Sin
      <3>2. i \in 1 .. Len(l) - 1 /\ ~(i < i)
        BY <1>1, <1>3
      <3> QED BY <2>1, <3>1, <3>2
    <2>11. PICK x : x = Escribir(r, r[i].obj, b, v)
      OBVIOUS
    <2>12. HuecosBien(x) /\ Cubre(x) = Cubre(l)
      <3>1. Cubre(Sin(r, i)) = (Cubre(l) \ Bytes(l[i])) \ Bytes(l[k])
        BY <2>9, <2>10, SinUnHueco
      <3>2. Hueco(r[i].obj, b, v) = h
        BY <2>5, <2>6, <2>10
      <3>3. /\ HuecosBien(x) /\ x[i] = h
            /\ Cubre(x) = Cubre(Sin(r, i)) \union Bytes(x[i])
        <4>1. Bytes(Hueco(r[i].obj, b, v)) \intersect Cubre(Sin(r, i)) = {}
          BY <2>7, <3>1, <3>2
        <4>2. LET y == Escribir(r, r[i].obj, b, v) IN
              /\ HuecosBien(y) /\ y[i] = Hueco(r[i].obj, b, v)
              /\ Cubre(y) = Cubre(Sin(r, i)) \union Bytes(y[i])
          <5>1. HuecosBien(r) /\ i \in DOMAIN r /\ b \in Nat /\ v \in Nat
            BY <2>5, <2>9, <2>10
          <5> QED BY <4>1, <5>1, HuecoCambiado
        <4> QED BY <2>11, <3>2, <4>2
      <3>4. Bytes(l[i]) \subseteq Cubre(l) /\ Bytes(l[k]) \subseteq Cubre(l)
        BY <1>1, <2>2 DEF Cubre
      <3> QED BY <2>7, <3>1, <3>3, <3>4
    <2>13. Unir(l, i) = RemoveFirst(m, l[i])
      BY <1>3, <2>1, <2>4, <2>6, <2>17 DEF Unir
    <2>14. /\ m \in Seq(EsHueco) /\ Len(m) = Len(l) /\ m[k] = h
           /\ \A j \in 1 .. Len(l) : j # k => m[j] = l[j]
           /\ \A j \in 1 .. Len(l) : m[j].obj = l[j].obj
      <3>1. m = [j \in 1 .. Len(l) |-> IF j = k THEN h ELSE l[j]]
        <4>1. \A j \in 1 .. Len(l) : l[j].obj = l[k].obj <=> j = k
          BY <1>1, <2>2 DEF HuecosBien
        <4> QED BY <1>1, <2>6, <4>1 DEF Escribir
      <3>2. h \in EsHueco /\ h.obj = l[k].obj
        <4>1. h = [obj |-> l[k].obj, base |-> b, tamanio |-> v]
          BY <2>6 DEF Hueco
        <4> QED BY <2>5, <2>17, <4>1 DEF EsHueco
      <3>3. m \in [1 .. Len(l) -> EsHueco]
        <4>1. \A j \in 1 .. Len(l) : l[j] \in EsHueco
          BY <1>1
        <4> QED BY <3>1, <3>2, <4>1
      <3>4. m \in Seq(EsHueco) /\ Len(m) = Len(l)
        BY <1>1, <3>3
      <3> QED BY <2>2, <3>1, <3>2, <3>4
    <2>15. RemoveFirst(m, l[i]) = Sin(m, i)
      <3>1. \E j \in 1 .. Len(m) : m[j] = l[i]
        BY <2>2, <2>14
      <3>2. PICK j \in 1 .. Len(m) : m[j] = l[i] /\ RemoveFirst(m, l[i]) = Sin(m, j)
        BY <2>14, <3>1, QuitarPrimero
      <3>3. l[j].obj = l[i].obj
        BY <2>14, <3>2
      <3>4. j = i
        BY <1>1, <2>2, <2>14, <3>2, <3>3 DEF HuecosBien
      <3> QED BY <3>2, <3>4
    <2>16. Sin(m, i) = x
      <3>1. Sin(m, i) = [j \in 1 .. Len(l) - 1 |-> IF j < i THEN m[j] ELSE m[j + 1]]
        BY <2>14 DEF Sin
      <3>2. x = [j \in 1 .. Len(l) - 1 |-> IF r[j].obj = r[i].obj THEN h ELSE r[j]]
        BY <2>6, <2>10, <2>11 DEF Escribir
      <3>3. ASSUME NEW j \in 1 .. Len(l) - 1
            PROVE  (IF j < i THEN m[j] ELSE m[j + 1])
                     = IF r[j].obj = r[i].obj THEN h ELSE r[j]
        <4>1. r[j].obj = r[i].obj <=> j = i
          BY <2>9, <2>10 DEF HuecosBien
        <4>2. CASE j = i
          <5>1. ~(j < i) /\ m[j + 1] = h
            BY <2>1, <2>14, <4>2
          <5> QED BY <4>1, <4>2, <5>1
        <4>3. CASE j < i
          <5>1. j \in 1 .. Len(l) /\ j # k /\ j # i
            BY <1>1, <2>1, <4>3
          <5> QED BY <2>10, <2>14, <4>1, <4>3, <5>1
        <4>4. CASE j > i
          <5>1. j + 1 \in 1 .. Len(l) /\ j + 1 # k /\ j # i /\ ~(j < i)
            BY <1>1, <2>1, <4>4
          <5> QED BY <2>10, <2>14, <4>1, <5>1
        <4> QED BY <1>1, <2>2, <4>2, <4>3, <4>4
      <3> QED BY <3>1, <3>2, <3>3
    <2> QED BY <2>12, <2>13, <2>15, <2>16
  <1> QED BY <1>1, <1>2, <1>3

\* The types, whatever the holes cover.
LEMMA QuitarTipo ==
  ASSUME NEW X, NEW l \in Seq(X), NEW e
  PROVE  RemoveFirst(l, e) \in Seq(X)
  <1>1. CASE \E i \in 1 .. Len(l) : l[i] = e
    BY <1>1, QuitarPrimero, QuitarEs
  <1>2. CASE ~(\E i \in 1 .. Len(l) : l[i] = e)
    BY <1>2 DEF RemoveFirst
  <1> QED BY <1>1, <1>2

LEMMA EscribirTipo ==
  ASSUME NEW l \in Seq(EsHueco), NEW o \in Nat, NEW b \in Nat, NEW t \in Nat
  PROVE  Escribir(l, o, b, t) \in Seq(EsHueco)
  <1>1. Hueco(o, b, t) \in EsHueco
    BY HuecoEs
  <1>2. \A i \in 1 .. Len(l) : l[i] \in EsHueco
    OBVIOUS
  <1>3. Escribir(l, o, b, t) = [i \in 1 .. Len(l) |-> IF l[i].obj = o THEN Hueco(o, b, t) ELSE l[i]]
    BY DEF Escribir
  <1>4. Escribir(l, o, b, t) \in [1 .. Len(l) -> EsHueco]
    BY <1>1, <1>2, <1>3
  <1>5. Len(l) \in Nat
    OBVIOUS
  <1> QED BY <1>4, <1>5

LEMMA UnirTipo ==
  ASSUME NEW l \in Seq(EsHueco), NEW i \in Nat, i >= 1
  PROVE  Unir(l, i) \in Seq(EsHueco)
  <1>1. CASE i >= Len(l) \/ l[i].base + l[i].tamanio # l[i + 1].base
    BY <1>1 DEF Unir
  <1>2. CASE ~(i >= Len(l)) /\ l[i].base + l[i].tamanio = l[i + 1].base
    <2>1. PICK k : k = i + 1
      OBVIOUS
    <2>2. i \in 1 .. Len(l) /\ k \in 1 .. Len(l)
      BY <1>2, <2>1
    <2>3. l[i] \in EsHueco /\ l[k] \in EsHueco
      BY <2>2
    <2>4. PICK o, b, t : o = l[k].obj /\ b = l[i].base /\ t = l[k].tamanio + l[i].tamanio
      OBVIOUS
    <2>5. o \in Nat /\ b \in Nat /\ t \in Nat
      BY <2>3, <2>4, DeHueco
    <2>6. Escribir(l, o, b, t) \in Seq(EsHueco)
      BY <2>5, EscribirTipo
    <2>7. Unir(l, i) = RemoveFirst(Escribir(l, o, b, t), l[i])
      BY <1>2, <2>1, <2>4 DEF Unir
    <2> QED BY <2>6, <2>7, QuitarTipo
  <1> QED BY <1>1, <1>2

\* buddySystem, turn by turn.
LEMMA PasadaEs ==
  ASSUME NEW l \in Seq(EsHueco)
  PROVE  /\ Pasada(l) \in [0 .. Len(l) -> Seq(EsHueco)]
         /\ Pasada(l)[0] = l
         /\ \A i \in 1 .. Len(l) : Pasada(l)[i] = Unir(Pasada(l)[i - 1], i)
  <1>1. PICK n \in Nat : n = Len(l)
    OBVIOUS
  <1>2. PICK G : G = [x \in (1 .. n) \X Seq(EsHueco) |-> Unir(x[2], x[1])]
    OBVIOUS
  <1>3. ASSUME NEW i \in 1 .. n, NEW v \in Seq(EsHueco)
        PROVE  G[<<i, v>>] = Unir(v, i) /\ G[<<i, v>>] \in Seq(EsHueco)
    <2>1. i \in Nat /\ i >= 1
      OBVIOUS
    <2>2. G[<<i, v>>] = Unir(v, i)
      BY <1>2
    <2> QED BY <2>1, <2>2, UnirTipo
  <1>4. PICK h : Recorre(h, n, Seq(EsHueco), l, G)
    <2>1. Cierra(n, Seq(EsHueco), G)
      BY <1>3 DEF Cierra
    <2> QED BY <2>1, Vueltas
  <1>5. \A i \in 1 .. n : h[i - 1] \in Seq(EsHueco)
    BY <1>4 DEF Recorre
  <1>6. h = [i \in 0 .. n |-> IF i = 0 THEN l ELSE Unir(h[i - 1], i)]
    <2>1. \A i \in 0 .. n : h[i] = IF i = 0 THEN l ELSE Unir(h[i - 1], i)
      <3>1. ASSUME NEW i \in 1 .. n
            PROVE  h[i] = Unir(h[i - 1], i)
        BY <1>3, <1>4, <1>5 DEF Recorre
      <3> QED BY <1>4, <3>1 DEF Recorre
    <2> QED BY <1>4, <2>1 DEF Recorre
  <1>7. Pasada(l) = CHOOSE g : g = [i \in 0 .. n |-> IF i = 0 THEN l ELSE Unir(g[i - 1], i)]
    BY <1>1 DEF Pasada
  <1>8. PICK g : /\ g = Pasada(l)
                 /\ g = [i \in 0 .. n |-> IF i = 0 THEN l ELSE Unir(g[i - 1], i)]
    BY <1>6, <1>7
  <1>9. g[0] = l /\ \A i \in 1 .. n : g[i] = Unir(g[i - 1], i)
    BY <1>8
  <1>10. \A i \in 0 .. n : g[i] \in Seq(EsHueco)
    <2> DEFINE S == {i \in Nat : i <= n => g[i] \in Seq(EsHueco)}
    <2>1. 0 \in S
      BY <1>9
    <2>2. ASSUME NEW i \in S
          PROVE  i + 1 \in S
      <3>1. SUFFICES ASSUME i + 1 <= n
                     PROVE  g[i + 1] \in Seq(EsHueco)
        OBVIOUS
      <3>2. i + 1 \in Nat /\ i + 1 >= 1 /\ (i + 1) - 1 = i /\ i + 1 \in 1 .. n
        BY <3>1
      <3>3. PICK j \in 1 .. n : j = i + 1
        BY <3>2
      <3>4. g[j] = Unir(g[i], j) /\ g[i] \in Seq(EsHueco)
        BY <1>9, <3>1, <3>2, <3>3
      <3> QED BY <3>2, <3>3, <3>4, UnirTipo
    <2>3. S = Nat
      <3>1. S \in SUBSET Nat
        OBVIOUS
      <3> QED BY <2>1, <2>2, <3>1, Induccion
    <2>4. \A i \in 0 .. n : i \in S /\ i <= n
      BY <2>3
    <2> QED BY <2>4
  <1>11. g \in [0 .. n -> Seq(EsHueco)]
    BY <1>8, <1>10
  <1> QED BY <1>1, <1>8, <1>9, <1>11

LEMMA PasadaBien ==
  ASSUME NEW l, HuecosBien(l)
  PROVE  HuecosBien(Pasada(l)[Len(l)]) /\ Cubre(Pasada(l)[Len(l)]) = Cubre(l)
  <1>1. l \in Seq(EsHueco)
    BY DEF HuecosBien
  <1>2. PICK n, g : n = Len(l) /\ g = Pasada(l) /\ n \in Nat
    BY <1>1
  <1>3. g[0] = l /\ \A i \in 1 .. n : g[i] = Unir(g[i - 1], i)
    BY <1>1, <1>2, PasadaEs
  <1> DEFINE S == {i \in Nat : i <= n => HuecosBien(g[i]) /\ Cubre(g[i]) = Cubre(l)}
  <1>4. 0 \in S
    BY <1>3
  <1>5. ASSUME NEW i \in S
        PROVE  i + 1 \in S
    <2>1. SUFFICES ASSUME i + 1 <= n
                   PROVE  HuecosBien(g[i + 1]) /\ Cubre(g[i + 1]) = Cubre(l)
      OBVIOUS
    <2>2. PICK j \in 1 .. n : j = i + 1 /\ j - 1 = i /\ j \in Nat /\ j >= 1
      BY <2>1
    <2>3. g[j] = Unir(g[i], j) /\ HuecosBien(g[i]) /\ Cubre(g[i]) = Cubre(l)
      <3>1. g[j] = Unir(g[j - 1], j)
        BY <1>3
      <3>2. i <= n
        BY <1>2, <2>1
      <3> QED BY <2>2, <3>1, <3>2
    <2>4. HuecosBien(Unir(g[i], j)) /\ Cubre(Unir(g[i], j)) = Cubre(g[i])
      BY <2>2, <2>3, UnirBien
    <2> QED BY <2>2, <2>3, <2>4
  <1>6. S = Nat
    <2>1. S \in SUBSET Nat
      OBVIOUS
    <2> QED BY <1>4, <1>5, <2>1, Induccion
  <1>7. HuecosBien(g[n]) /\ Cubre(g[n]) = Cubre(l)
    <2>1. n \in S /\ n <= n
      BY <1>2, <1>6
    <2> QED BY <2>1
  <1> QED BY <1>2, <1>7

-----------------------------------------------------------------------------
(* list_sort.                                                              *)

\* The orders of P with one index more.
Siguen(l, P) ==
  {Append(o[1], o[2]) :
     o \in {x \in P \X DOMAIN l :
              /\ x[2] \notin Range(x[1])
              /\ \A j \in DOMAIN l \ Range(x[1]) : l[x[2]].base <= l[j].base}}

\* o takes m of the n indices of l, once each, always one of the lowest left.
Ordena(o, m, l, n) ==
  /\ o \in [1 .. m -> 1 .. n]
  /\ \A i, j \in 1 .. m : i # j => o[i] # o[j]
  /\ \A i \in 1 .. m : \A j \in 1 .. n :
       (\A k \in 1 .. i - 1 : o[k] # j) => l[o[i]].base <= l[j].base

LEMMA SiguenOrdena ==
  ASSUME NEW X, NEW l \in Seq(X), NEW n, n = Len(l), NEW m \in Nat, NEW P,
         \A o \in P : Ordena(o, m, l, n), NEW q \in Siguen(l, P)
  PROVE  Ordena(q, m + 1, l, n) /\ q \in Seq(1 .. n)
  <1>1. DOMAIN l = 1 .. n /\ n \in Nat
    OBVIOUS
  <1>2. PICK o \in P, x \in 1 .. n :
          /\ q = Append(o, x) /\ x \notin Range(o)
          /\ \A j \in DOMAIN l \ Range(o) : l[x].base <= l[j].base
    <2>1. PICK y \in P \X DOMAIN l :
            /\ y[2] \notin Range(y[1]) /\ q = Append(y[1], y[2])
            /\ \A j \in DOMAIN l \ Range(y[1]) : l[y[2]].base <= l[j].base
      BY DEF Siguen
    <2>2. y[1] \in P /\ y[2] \in 1 .. n
      BY <1>1, <2>1
    <2> QED BY <2>1, <2>2
  <1>3. Ordena(o, m, l, n)
    BY <1>2
  <1>4. o \in Seq(1 .. n) /\ Len(o) = m /\ Range(o) = {o[k] : k \in 1 .. m}
    BY <1>3 DEF Ordena, Range
  <1>5. PICK u \in Nat : u = m + 1
    OBVIOUS
  <1>6. /\ q \in Seq(1 .. n) /\ q \in [1 .. u -> 1 .. n] /\ q[u] = x
        /\ \A k \in 1 .. m : q[k] = o[k]
    <2>1. q \in Seq(1 .. n) /\ Len(q) = u /\ q[u] = x /\ \A k \in 1 .. m : q[k] = o[k]
      BY <1>2, <1>4, <1>5
    <2>2. q \in [1 .. Len(q) -> 1 .. n]
      BY <2>1
    <2> QED BY <2>1, <2>2
  <1>7. \A k \in 1 .. u : k = u \/ k \in 1 .. m
    BY <1>5
  <1>8. \A i, j \in 1 .. u : i # j => q[i] # q[j]
    BY <1>2, <1>3, <1>4, <1>6, <1>7 DEF Ordena
  <1>9. ASSUME NEW i \in 1 .. u, NEW j \in 1 .. n, \A k \in 1 .. i - 1 : q[k] # j
        PROVE  l[q[i]].base <= l[j].base
    <2>1. CASE i = u
      <3>1. \A k \in 1 .. m : o[k] # j
        BY <1>5, <1>6, <1>9, <2>1
      <3>2. j \in DOMAIN l \ Range(o)
        BY <1>1, <1>4, <3>1
      <3> QED BY <1>2, <1>6, <2>1, <3>2
    <2>2. CASE i \in 1 .. m
      <3>1. \A k \in 1 .. i - 1 : k \in 1 .. m
        BY <2>2
      <3>2. \A k \in 1 .. i - 1 : o[k] # j
        BY <1>6, <1>9, <3>1
      <3> QED BY <1>3, <1>6, <2>2, <3>2 DEF Ordena
    <2> QED BY <1>7, <2>1, <2>2
  <1>10. Ordena(q, u, l, n)
    BY <1>6, <1>8, <1>9 DEF Ordena
  <1> QED BY <1>5, <1>6, <1>10

LEMMA PrimerosEs ==
  ASSUME NEW X, NEW l \in Seq(X)
  PROVE  \A o \in Primeros(l)[Len(l)] : Ordena(o, Len(l), l, Len(l))
  <1>1. PICK n : n = Len(l) /\ n \in Nat /\ DOMAIN l = 1 .. n
    OBVIOUS
  <1>2. PICK V, G : /\ V = SUBSET [1 .. n -> 1 .. n]
                    /\ G = [x \in (1 .. n) \X (SUBSET Seq(1 .. n)) |-> Siguen(l, x[2])]
    OBVIOUS
  <1>3. ASSUME NEW i \in 1 .. n, NEW v \in SUBSET Seq(1 .. n)
        PROVE  G[<<i, v>>] = Siguen(l, v) /\ G[<<i, v>>] \in SUBSET Seq(1 .. n)
    <2>1. G[<<i, v>>] = Siguen(l, v)
      BY <1>2
    <2>2. ASSUME NEW q \in Siguen(l, v)
          PROVE  q \in Seq(1 .. n)
      <3>1. PICK y \in v \X DOMAIN l : q = Append(y[1], y[2])
        BY DEF Siguen
      <3>2. y[1] \in Seq(1 .. n) /\ y[2] \in 1 .. n
        BY <1>1, <3>1
      <3> QED BY <3>1, <3>2
    <2> QED BY <2>1, <2>2
  <1>4. PICK h : Recorre(h, n, SUBSET Seq(1 .. n), {<<>>}, G)
    <2>1. Cierra(n, SUBSET Seq(1 .. n), G)
      BY <1>3 DEF Cierra
    <2>2. {<<>>} \in SUBSET Seq(1 .. n)
      OBVIOUS
    <2> QED BY <1>1, <2>1, <2>2, Vueltas
  <1>5. h = [i \in 0 .. n |-> IF i = 0 THEN {<<>>} ELSE Siguen(l, h[i - 1])]
    <2>1. ASSUME NEW i \in 1 .. n
          PROVE  h[i] = Siguen(l, h[i - 1])
      <3>1. h[i - 1] \in SUBSET Seq(1 .. n)
        BY <1>1, <1>4 DEF Recorre
      <3> QED BY <1>3, <1>4, <3>1 DEF Recorre
    <2>2. \A i \in 0 .. n : h[i] = IF i = 0 THEN {<<>>} ELSE Siguen(l, h[i - 1])
      BY <1>4, <2>1 DEF Recorre
    <2> QED BY <1>4, <2>2 DEF Recorre
  <1>6. Primeros(l) =
          CHOOSE g : g = [i \in 0 .. n |-> IF i = 0 THEN {<<>>} ELSE Siguen(l, g[i - 1])]
    BY <1>1 DEF Primeros, Siguen
  <1>7. PICK g : /\ g = Primeros(l)
                 /\ g = [i \in 0 .. n |-> IF i = 0 THEN {<<>>} ELSE Siguen(l, g[i - 1])]
    BY <1>5, <1>6
  <1>8. g[0] = {<<>>} /\ \A i \in 1 .. n : g[i] = Siguen(l, g[i - 1])
    <2>1. 0 \in 0 .. n /\ \A i \in 1 .. n : i \in 0 .. n /\ i # 0
      BY <1>1
    <2> QED BY <1>7, <2>1
  <1> DEFINE S == {m \in Nat : m <= n => \A o \in g[m] : Ordena(o, m, l, n)}
  <1>9. 0 \in S
    <2>1. Ordena(<<>>, 0, l, n)
      BY DEF Ordena
    <2> QED BY <1>8, <2>1
  <1>10. ASSUME NEW m \in S
         PROVE  m + 1 \in S
    <2>1. SUFFICES ASSUME m + 1 <= n, NEW o \in g[m + 1]
                   PROVE  Ordena(o, m + 1, l, n)
      OBVIOUS
    <2>2. PICK j \in 1 .. n : j = m + 1 /\ j - 1 = m
      BY <1>1, <2>1
    <2>3. g[j] = Siguen(l, g[m])
      BY <1>8, <2>2
    <2>4. \A p \in g[m] : Ordena(p, m, l, n)
      BY <1>1, <2>1
    <2> QED BY <1>1, <2>1, <2>2, <2>3, <2>4, SiguenOrdena
  <1>11. n \in S /\ n <= n
    <2>1. S \in SUBSET Nat
      OBVIOUS
    <2>2. S = Nat
      BY <1>9, <1>10, <2>1, Induccion
    <2> QED BY <1>1, <2>2
  <1> QED BY <1>1, <1>7, <1>11

\* m has the entries of l, each one once.
Reordena(m, l, o) ==
  /\ o \in [1 .. Len(l) -> 1 .. Len(l)]
  /\ \A i \in 1 .. Len(l) : m[i] = l[o[i]]
  /\ \A i, j \in 1 .. Len(l) : i # j => o[i] # o[j]
  /\ \A j \in 1 .. Len(l) : \E i \in 1 .. Len(l) : o[i] = j

\* Sorting takes every entry once, and the lowest one first.
LEMMA OrdenadaEs ==
  ASSUME NEW X, NEW l \in Seq(X), NEW m \in EnOrdenDeBase(l)
  PROVE  /\ m \in Seq(X) /\ Len(m) = Len(l)
         /\ \E o : Reordena(m, l, o)
         /\ \A j \in 1 .. Len(l) : m[1].base <= l[j].base
  <1>1. PICK n : n = Len(l) /\ n \in Nat /\ DOMAIN l = 1 .. n
    OBVIOUS
  <1>2. PICK o \in Primeros(l)[n] : m = [i \in 1 .. n |-> l[o[i]]]
    BY <1>1 DEF EnOrdenDeBase
  <1>3. Ordena(o, n, l, n)
    BY <1>1, <1>2, PrimerosEs
  <1>4. o \in [1 .. n -> 1 .. n] /\ \A i, j \in 1 .. n : i # j => o[i] # o[j]
    BY <1>3 DEF Ordena
  <1>5. \A i \in 1 .. n : m[i] = l[o[i]] /\ m[i] \in X
    <2>1. \A i \in 1 .. n : o[i] \in 1 .. n
      BY <1>4
    <2>2. \A j \in 1 .. n : l[j] \in X
      BY <1>1
    <2> QED BY <1>2, <2>1, <2>2
  <1>6. m \in Seq(X) /\ Len(m) = n
    BY <1>1, <1>2, <1>5
  <1>7. \A j \in 1 .. n : \E i \in 1 .. n : o[i] = j
    <2>1. o \in Injection(1 .. n, 1 .. n)
      BY <1>4 DEF Injection, IsInjective
    <2>2. IsFiniteSet(1 .. n)
      BY <1>1, FS_Interval
    <2>3. o \in Surjection(1 .. n, 1 .. n)
      BY <2>1, <2>2, FS_Injection
    <2> QED BY <2>3 DEF Surjection
  <1>8. ASSUME NEW j \in 1 .. n
        PROVE  m[1].base <= l[j].base
    <2>1. 1 \in 1 .. n /\ ~(\E k \in 1 .. 1 - 1 : TRUE)
      BY <1>1
    <2>2. l[o[1]].base <= l[j].base
      BY <1>3, <2>1 DEF Ordena
    <2> QED BY <1>5, <2>1, <2>2
  <1>9. /\ \A i \in 1 .. n : m[i] = l[o[i]]
        /\ \A i, j \in 1 .. n : i # j => o[i] # o[j]
        /\ \A j \in 1 .. n : \E i \in 1 .. n : o[i] = j
    BY <1>4, <1>5, <1>7
  <1>10. o \in [1 .. Len(l) -> 1 .. Len(l)]
    BY <1>1, <1>4
  <1>11. Reordena(m, l, o)
    BY <1>1, <1>9, <1>10 DEF Reordena
  <1> QED BY <1>1, <1>6, <1>8, <1>11

-----------------------------------------------------------------------------
(* buddySystem.                                                            *)

LEMMA OrdenadaBien ==
  ASSUME NEW l, HuecosBien(l), NEW m \in EnOrdenDeBase(l)
  PROVE  HuecosBien(m) /\ Cubre(m) = Cubre(l)
  <1>1. l \in Seq(EsHueco) /\ DOMAIN l = 1 .. Len(l) /\ Len(l) \in Nat
    BY DEF HuecosBien
  <1>2. PICK n : n = Len(l)
    OBVIOUS
  <1>3. m \in Seq(EsHueco) /\ Len(m) = n /\ \E o : Reordena(m, l, o)
    <2>1. l \in Seq(EsHueco)
      BY <1>1
    <2>2. m \in Seq(EsHueco) /\ Len(m) = Len(l) /\ \E o : Reordena(m, l, o)
      BY <2>1, OrdenadaEs
    <2> QED BY <1>2, <2>2
  <1>20. PICK o : Reordena(m, l, o)
    BY <1>3
  <1>4. /\ o \in [1 .. n -> 1 .. n]
        /\ \A i \in 1 .. n : m[i] = l[o[i]]
        /\ \A i, j \in 1 .. n : i # j => o[i] # o[j]
        /\ \A j \in 1 .. n : \E i \in 1 .. n : o[i] = j
    BY <1>2, <1>20 DEF Reordena
  <1>5. DOMAIN m = 1 .. n /\ \A i \in 1 .. n : o[i] \in 1 .. n
    <2>1. DOMAIN m = 1 .. Len(m)
      BY <1>3
    <2> QED BY <1>3, <1>4, <2>1
  <1>6. HuecosBien(m)
    <2>1. ASSUME NEW i \in 1 .. n, NEW j \in 1 .. n, i # j
          PROVE  m[i].obj # m[j].obj /\ Disjuntos(m[i], m[j])
      <3>1. o[i] \in DOMAIN l /\ o[j] \in DOMAIN l /\ o[i] # o[j]
        BY <1>1, <1>2, <1>4, <1>5, <2>1
      <3>2. l[o[i]].obj # l[o[j]].obj /\ Disjuntos(l[o[i]], l[o[j]])
        BY <3>1 DEF HuecosBien
      <3> QED BY <1>4, <3>2
    <2> QED BY <1>3, <1>5, <2>1 DEF HuecosBien
  <1>7. Cubre(m) = Cubre(l)
    <2>1. \A x : x \in Cubre(m) <=> \E i \in 1 .. n : x \in Bytes(l[o[i]])
      BY <1>4, <1>5 DEF Cubre
    <2>2. \A x : x \in Cubre(l) <=> \E j \in 1 .. n : x \in Bytes(l[j])
      BY <1>1, <1>2 DEF Cubre
    <2>3. \A x : x \in Cubre(m) <=> x \in Cubre(l)
      BY <1>4, <1>5, <2>1, <2>2
    <2> QED BY <2>3
  <1> QED BY <1>6, <1>7

\* Joining the holes covers the same bytes, and they stay apart.
LEMMA BuddyBien ==
  ASSUME NEW l, HuecosBien(l), NEW r \in buddySystem(l)
  PROVE  HuecosBien(r) /\ Cubre(r) = Cubre(l)
  <1>1. PICK m \in EnOrdenDeBase(l) : r = Pasada(m)[Len(m)]
    BY DEF buddySystem
  <1>2. HuecosBien(m) /\ Cubre(m) = Cubre(l)
    BY OrdenadaBien
  <1> QED BY <1>1, <1>2, PasadaBien

LEMMA BuddyTipo ==
  ASSUME NEW l \in Seq(EsHueco), NEW r \in buddySystem(l)
  PROVE  r \in Seq(EsHueco)
  <1>1. PICK m \in EnOrdenDeBase(l) : r = Pasada(m)[Len(m)]
    BY DEF buddySystem
  <1>2. m \in Seq(EsHueco)
    BY OrdenadaEs
  <1>3. Pasada(m) \in [0 .. Len(m) -> Seq(EsHueco)] /\ Len(m) \in 0 .. Len(m)
    BY <1>2, PasadaEs
  <1> QED BY <1>1, <1>3

\* A new object.
LEMMA ObjetoEs ==
  ASSUME NEW l \in Seq(EsHueco)
  PROVE  ObjetoNuevo(l) \in Nat /\ \A i \in DOMAIN l : l[i].obj # ObjetoNuevo(l)
  <1>1. PICK n : n = Len(l) /\ n \in Nat /\ DOMAIN l = 1 .. n
    OBVIOUS
  <1>2. \E o \in 1 .. n + 1 : \A i \in 1 .. n : l[i].obj # o
    <2>1. SUFFICES ASSUME \A o \in 1 .. n + 1 : \E i \in 1 .. n : l[i].obj = o
                   PROVE  FALSE
      OBVIOUS
    <2>2. PICK f : f = [o \in 1 .. n + 1 |-> CHOOSE i \in 1 .. n : l[i].obj = o]
      OBVIOUS
    <2>3. \A o \in 1 .. n + 1 : f[o] \in 1 .. n /\ l[f[o]].obj = o
      BY <2>1, <2>2
    <2>4. f \in [1 .. n + 1 -> 1 .. n]
      BY <2>2, <2>3
    <2>5. /\ IsFiniteSet(1 .. n + 1) /\ Cardinality(1 .. n + 1) = n + 1
          /\ IsFiniteSet(1 .. n) /\ Cardinality(1 .. n) = n
      <3>1. 1 \in Int /\ n + 1 \in Int /\ n \in Int /\ ~(1 > n + 1) /\ (1 > n => n = 0)
        BY <1>1
      <3>2. /\ IsFiniteSet(1 .. n) /\ Cardinality(1 .. n) = IF 1 > n THEN 0 ELSE n - 1 + 1
        BY <3>1, FS_Interval
      <3>3. PICK k : k = n + 1 /\ k \in Int
        BY <3>1
      <3>4. /\ IsFiniteSet(1 .. k) /\ Cardinality(1 .. k) = IF 1 > k THEN 0 ELSE k - 1 + 1
        BY <3>1, <3>3, FS_Interval
      <3> QED BY <1>1, <3>1, <3>2, <3>3, <3>4
    <2>6. \E x, y \in 1 .. n + 1 : x # y /\ f[x] = f[y]
      <3>1. Cardinality(1 .. n) < Cardinality(1 .. n + 1)
        BY <1>1, <2>5
      <3> QED BY <2>4, <2>5, <3>1, FS_PigeonHole
    <2> QED BY <2>3, <2>6
  <1>3. ObjetoNuevo(l) \in 1 .. n + 1 /\ \A i \in 1 .. n : l[i].obj # ObjetoNuevo(l)
    BY <1>1, <1>2 DEF ObjetoNuevo
  <1> QED BY <1>1, <1>3


-----------------------------------------------------------------------------
(* Lists of segments; those of the processes of V, and segmento_0, count.  *)

De(l, V) == {i \in DOMAIN l : l[i].pid \in V \union {Global}}
Ocupado(l, V) == UNION {Bytes(l[i]) : i \in De(l, V)}
SegmentosBien(l, V) == \A i, j \in De(l, V) : i # j => Disjuntos(l[i], l[j])

LEMMA SegmentoEs ==
  ASSUME NEW s \in EsSegmento
  PROVE  /\ s.pid \in Procesos \union {Global} /\ s.id \in Nat
         /\ s.base \in Nat /\ s.tamanio \in Nat
         /\ Bytes(s) = s.base .. s.base + s.tamanio - 1
  BY DEF EsSegmento, Bytes

\* A new segment where no other is.
LEMMA ConOtroSegmento ==
  ASSUME NEW l \in Seq(EsSegmento), NEW V, SegmentosBien(l, V), NEW s \in EsSegmento,
         s.pid \in V \union {Global}, Bytes(s) \intersect Ocupado(l, V) = {}
  PROVE  /\ SegmentosBien(Append(l, s), V)
         /\ Ocupado(Append(l, s), V) = Ocupado(l, V) \union Bytes(s)
  <1>1. Len(l) \in Nat /\ DOMAIN l = 1 .. Len(l)
    OBVIOUS
  <1>2. PICK m, n : m = Append(l, s) /\ n = Len(l) + 1
    OBVIOUS
  <1>3. DOMAIN m = 1 .. n /\ m[n] = s /\ \A i \in 1 .. Len(l) : m[i] = l[i]
    BY <1>1, <1>2
  <1>4. n \in 1 .. n /\ n \notin 1 .. Len(l) /\ \A i : i \in 1 .. n <=> i = n \/ i \in 1 .. Len(l)
    BY <1>1, <1>2
  <1>5. De(m, V) = De(l, V) \union {n}
    BY <1>1, <1>3, <1>4 DEF De
  <1>6. \A i \in De(l, V) : m[i] = l[i] /\ i # n
    BY <1>1, <1>3, <1>4 DEF De
  <1>7. \A i \in De(l, V) : Disjuntos(l[i], s) /\ Disjuntos(s, l[i])
    BY DEF Disjuntos, Ocupado
  <1>8. SegmentosBien(m, V)
    BY <1>3, <1>5, <1>6, <1>7 DEF SegmentosBien
  <1>9. Ocupado(m, V) = Ocupado(l, V) \union Bytes(s)
    BY <1>3, <1>5, <1>6 DEF Ocupado
  <1> QED BY <1>2, <1>8, <1>9

\* One segment less.
LEMMA SinUnSegmento ==
  ASSUME NEW l \in Seq(EsSegmento), NEW V, SegmentosBien(l, V), NEW k \in De(l, V)
  PROVE  /\ SegmentosBien(Sin(l, k), V)
         /\ Ocupado(Sin(l, k), V) = Ocupado(l, V) \ Bytes(l[k])
  <1>1. DOMAIN l = 1 .. Len(l) /\ k \in 1 .. Len(l) /\ Len(l) \in Nat
    BY DEF De
  <1>2. PICK m, n : m = Sin(l, k) /\ n = Len(l) - 1
    OBVIOUS
  <1>3. DOMAIN m = 1 .. n
    BY <1>1, <1>2, EntradasSin
  <1>4. \A j \in 1 .. n : \E i \in 1 .. Len(l) :
          i = (IF j < k THEN j ELSE j + 1) /\ i # k /\ m[j] = l[i]
    BY <1>1, <1>2, EntradasSin
  <1>5. \A i \in 1 .. Len(l) : i # k => \E j \in 1 .. n : m[j] = l[i]
    BY <1>1, <1>2, EntradasSin
  <1>6. ASSUME NEW i \in De(m, V), NEW j \in De(m, V), i # j
        PROVE  Disjuntos(m[i], m[j])
    <2>0. i \in 1 .. n /\ j \in 1 .. n
      BY <1>3 DEF De
    <2>1. PICK a \in 1 .. Len(l) : a = (IF i < k THEN i ELSE i + 1) /\ m[i] = l[a]
      BY <1>4, <2>0
    <2>2. PICK b \in 1 .. Len(l) : b = (IF j < k THEN j ELSE j + 1) /\ m[j] = l[b]
      BY <1>4, <2>0
    <2>3. a # b
      BY <1>1, <1>6, <2>0, <2>1, <2>2
    <2>4. a \in De(l, V) /\ b \in De(l, V)
      BY <1>1, <2>1, <2>2 DEF De
    <2> QED BY <2>1, <2>2, <2>3, <2>4 DEF SegmentosBien
  <1>7. \A x : x \in Ocupado(m, V) <=> \E i \in De(l, V) : i # k /\ x \in Bytes(l[i])
    <2>1. \A j \in De(m, V) : \E i \in De(l, V) : i # k /\ m[j] = l[i]
      BY <1>1, <1>3, <1>4 DEF De
    <2>2. \A i \in De(l, V) : i # k => \E j \in De(m, V) : m[j] = l[i]
      BY <1>1, <1>3, <1>5 DEF De
    <2> QED BY <2>1, <2>2 DEF Ocupado
  <1>8. \A i \in De(l, V) : i # k => Bytes(l[i]) \intersect Bytes(l[k]) = {}
    BY DEF SegmentosBien, Disjuntos
  <1>9. \A x : x \in Ocupado(l, V) <=> \E i \in De(l, V) : x \in Bytes(l[i])
    BY DEF Ocupado
  <1>10. Ocupado(m, V) = Ocupado(l, V) \ Bytes(l[k])
    BY <1>7, <1>8, <1>9
  <1>11. SegmentosBien(m, V)
    BY <1>6 DEF SegmentosBien
  <1> QED BY <1>2, <1>10, <1>11

\* Fewer processes.
LEMMA MenosProcesos ==
  ASSUME NEW l \in Seq(EsSegmento), NEW V, SegmentosBien(l, V), NEW W, W \subseteq V
  PROVE  SegmentosBien(l, W) /\ Ocupado(l, W) \subseteq Ocupado(l, V)
  <1>1. De(l, W) \subseteq De(l, V)
    BY DEF De
  <1> QED BY <1>1 DEF SegmentosBien, Ocupado

\* A process that has no segment.
LEMMA ProcesoNuevo ==
  ASSUME NEW l \in Seq(EsSegmento), NEW V, NEW p, \A i \in DOMAIN l : l[i].pid # p
  PROVE  De(l, V \union {p}) = De(l, V)
  BY DEF De

-----------------------------------------------------------------------------
(* The sums.                                                               *)

\* The bytes of the first k entries.
Hasta(l, k) == UNION {Bytes(l[i]) : i \in 1 .. k}

LEMMA RangoFinito ==
  ASSUME NEW b \in Nat, NEW t \in Nat
  PROVE  IsFiniteSet(b .. b + t - 1) /\ Cardinality(b .. b + t - 1) = t
  <1>1. PICK e \in Int : e = b + t - 1
    OBVIOUS
  <1>2. /\ IsFiniteSet(b .. e)
        /\ Cardinality(b .. e) = IF b > e THEN 0 ELSE e - b + 1
    BY <1>1, FS_Interval
  <1> QED BY <1>1, <1>2

\* One entry more adds its size.
LEMMA HastaUnoMas ==
  ASSUME NEW l, NEW n, DOMAIN l = 1 .. n, n \in Nat,
         \A i \in 1 .. n : l[i].base \in Nat /\ l[i].tamanio \in Nat,
         \A i, j \in 1 .. n : i # j => Disjuntos(l[i], l[j]),
         NEW k \in 1 .. n, IsFiniteSet(Hasta(l, k - 1))
  PROVE  /\ IsFiniteSet(Hasta(l, k))
         /\ Cardinality(Hasta(l, k)) = Cardinality(Hasta(l, k - 1)) + l[k].tamanio
  <1>1. PICK A, B : A = Hasta(l, k - 1) /\ B = Bytes(l[k])
    OBVIOUS
  <1>2. IsFiniteSet(B) /\ Cardinality(B) = l[k].tamanio
    BY <1>1, RangoFinito DEF Bytes
  <1>3. Hasta(l, k) = A \union B
    <2>1. \A i : i \in 1 .. k <=> i = k \/ i \in 1 .. k - 1
      OBVIOUS
    <2> QED BY <1>1, <2>1 DEF Hasta
  <1>4. A \intersect B = {}
    <2>1. \A i \in 1 .. k - 1 : i \in 1 .. n /\ i # k
      OBVIOUS
    <2>2. \A i \in 1 .. k - 1 : Bytes(l[i]) \intersect B = {}
      BY <1>1, <2>1 DEF Disjuntos
    <2> QED BY <1>1, <2>2 DEF Hasta
  <1>5. IsFiniteSet(A)
    BY <1>1
  <1>6. /\ IsFiniteSet(A \union B)
        /\ Cardinality(A \union B) =
             Cardinality(A) + Cardinality(B) - Cardinality(A \intersect B)
    BY <1>2, <1>5, FS_Union
  <1>7. Cardinality(A \intersect B) = 0
    BY <1>4, FS_EmptySet
  <1>8. Cardinality(A) \in Nat /\ Cardinality(B) \in Nat
    BY <1>2, <1>5, FS_CardinalityType
  <1>9. Cardinality(A \union B) = Cardinality(A) + l[k].tamanio
    BY <1>2, <1>6, <1>7, <1>8
  <1> QED BY <1>1, <1>3, <1>6, <1>9

\* How Desplazamiento and EspacioLibre add.
LEMMA DesplazamientoEs ==
  ASSUME NEW X, NEW l \in Seq(X), \A i \in 1 .. Len(l) : l[i].tamanio \in Nat
  PROVE  /\ Desplazamiento(l) \in [0 .. Len(l) -> Nat]
         /\ Desplazamiento(l)[0] = 0
         /\ \A i \in 1 .. Len(l) :
              Desplazamiento(l)[i] = Desplazamiento(l)[i - 1] + l[i].tamanio
  <1>1. PICK n : n = Len(l) /\ n \in Nat
    OBVIOUS
  <1>2. PICK G : G = [x \in (1 .. n) \X Nat |-> x[2] + l[x[1]].tamanio]
    OBVIOUS
  <1>3. ASSUME NEW i \in 1 .. n, NEW v \in Nat
        PROVE  G[<<i, v>>] = v + l[i].tamanio /\ G[<<i, v>>] \in Nat
    <2>1. G[<<i, v>>] = v + l[i].tamanio
      BY <1>2
    <2>2. l[i].tamanio \in Nat
      BY <1>1
    <2> QED BY <2>1, <2>2
  <1>4. PICK h : Recorre(h, n, Nat, 0, G)
    <2>1. Cierra(n, Nat, G)
      BY <1>3 DEF Cierra
    <2> QED BY <1>1, <2>1, Vueltas
  <1>5. \A i \in 1 .. n : h[i - 1] \in Nat
    <2>1. h \in [0 .. n -> Nat]
      BY <1>4 DEF Recorre
    <2>2. \A i \in 0 .. n : h[i] \in Nat
      BY <2>1
    <2>3. \A i \in 1 .. n : i - 1 \in 0 .. n
      BY <1>1
    <2> QED BY <2>2, <2>3
  <1>6. h = [i \in 0 .. n |-> IF i = 0 THEN 0 ELSE h[i - 1] + l[i].tamanio]
    <2>1. ASSUME NEW i \in 1 .. n
          PROVE  h[i] = h[i - 1] + l[i].tamanio
      BY <1>3, <1>4, <1>5 DEF Recorre
    <2>2. \A i \in 0 .. n : h[i] = IF i = 0 THEN 0 ELSE h[i - 1] + l[i].tamanio
      BY <1>4, <2>1 DEF Recorre
    <2> QED BY <1>4, <2>2 DEF Recorre
  <1>7. Desplazamiento(l) =
          CHOOSE g : g = [i \in 0 .. n |-> IF i = 0 THEN 0 ELSE g[i - 1] + l[i].tamanio]
    BY <1>1 DEF Desplazamiento
  <1>8. PICK g : /\ g = Desplazamiento(l)
                 /\ g = [i \in 0 .. n |-> IF i = 0 THEN 0 ELSE g[i - 1] + l[i].tamanio]
    BY <1>6, <1>7
  <1>9. g[0] = 0 /\ \A i \in 1 .. n : g[i] = g[i - 1] + l[i].tamanio
    BY <1>1, <1>8
  <1>10. \A i \in 0 .. n : g[i] \in Nat
    <2> DEFINE S == {i \in Nat : i <= n => g[i] \in Nat}
    <2>1. 0 \in S
      BY <1>9
    <2>2. ASSUME NEW i \in S
          PROVE  i + 1 \in S
      <3>1. SUFFICES ASSUME i + 1 <= n
                     PROVE  g[i + 1] \in Nat
        OBVIOUS
      <3>2. PICK j \in 1 .. n : j = i + 1 /\ j - 1 = i
        BY <1>1, <3>1
      <3>3. g[j] = g[i] + l[j].tamanio /\ g[i] \in Nat /\ l[j].tamanio \in Nat
        BY <1>1, <1>9, <3>1, <3>2
      <3> QED BY <3>2, <3>3
    <2>3. S = Nat
      <3>1. S \in SUBSET Nat
        OBVIOUS
      <3> QED BY <2>1, <2>2, <3>1, Induccion
    <2>4. \A i \in 0 .. n : i \in S /\ i <= n
      BY <1>1, <2>3
    <2> QED BY <2>4
  <1>11. g \in [0 .. n -> Nat]
    BY <1>8, <1>10
  <1> QED BY <1>1, <1>8, <1>9, <1>11

LEMMA EspacioLibreEs ==
  ASSUME NEW X, NEW l \in Seq(X), \A i \in 1 .. Len(l) : l[i].tamanio \in Nat
  PROVE  /\ EspacioLibre(l) \in [0 .. Len(l) -> Nat]
         /\ EspacioLibre(l)[0] = 0
         /\ \A i \in 1 .. Len(l) :
              EspacioLibre(l)[i] = (EspacioLibre(l)[i - 1] + l[i].tamanio) % Modulo
  <1>1. PICK n : n = Len(l) /\ n \in Nat
    OBVIOUS
  <1>0. Modulo \in Nat /\ Modulo > 0
    BY MemoriaAssumption
  <1>2. PICK G : G = [x \in (1 .. n) \X Nat |-> (x[2] + l[x[1]].tamanio) % Modulo]
    OBVIOUS
  <1>3. ASSUME NEW i \in 1 .. n, NEW v \in Nat
        PROVE  G[<<i, v>>] = (v + l[i].tamanio) % Modulo /\ G[<<i, v>>] \in Nat
    <2>1. G[<<i, v>>] = (v + l[i].tamanio) % Modulo
      BY <1>2
    <2>2. l[i].tamanio \in Nat
      BY <1>1
    <2>3. v + l[i].tamanio \in Nat
      BY <2>2
    <2> QED BY <1>0, <2>1, <2>3
  <1>4. PICK h : Recorre(h, n, Nat, 0, G)
    <2>1. Cierra(n, Nat, G)
      BY <1>3 DEF Cierra
    <2> QED BY <1>1, <2>1, Vueltas
  <1>5. \A i \in 1 .. n : h[i - 1] \in Nat
    <2>1. h \in [0 .. n -> Nat]
      BY <1>4 DEF Recorre
    <2>2. \A i \in 0 .. n : h[i] \in Nat
      BY <2>1
    <2>3. \A i \in 1 .. n : i - 1 \in 0 .. n
      BY <1>1
    <2> QED BY <2>2, <2>3
  <1>6. h = [i \in 0 .. n |-> IF i = 0 THEN 0 ELSE (h[i - 1] + l[i].tamanio) % Modulo]
    <2>1. ASSUME NEW i \in 1 .. n
          PROVE  h[i] = (h[i - 1] + l[i].tamanio) % Modulo
      BY <1>3, <1>4, <1>5 DEF Recorre
    <2>2. \A i \in 0 .. n : h[i] = IF i = 0 THEN 0 ELSE (h[i - 1] + l[i].tamanio) % Modulo
      BY <1>4, <2>1 DEF Recorre
    <2> QED BY <1>4, <2>2 DEF Recorre
  <1>7. EspacioLibre(l) =
          CHOOSE g : g = [i \in 0 .. n |-> IF i = 0 THEN 0 ELSE (g[i - 1] + l[i].tamanio) % Modulo]
    BY <1>1 DEF EspacioLibre
  <1>8. PICK g : /\ g = EspacioLibre(l)
                 /\ g = [i \in 0 .. n |-> IF i = 0 THEN 0 ELSE (g[i - 1] + l[i].tamanio) % Modulo]
    BY <1>6, <1>7
  <1>9. g[0] = 0 /\ \A i \in 1 .. n : g[i] = (g[i - 1] + l[i].tamanio) % Modulo
    BY <1>1, <1>8
  <1>10. \A i \in 0 .. n : g[i] \in Nat
    <2> DEFINE S == {i \in Nat : i <= n => g[i] \in Nat}
    <2>1. 0 \in S
      BY <1>9
    <2>2. ASSUME NEW i \in S
          PROVE  i + 1 \in S
      <3>1. SUFFICES ASSUME i + 1 <= n
                     PROVE  g[i + 1] \in Nat
        OBVIOUS
      <3>2. PICK j \in 1 .. n : j = i + 1 /\ j - 1 = i
        BY <1>1, <3>1
      <3>3. g[j] = (g[i] + l[j].tamanio) % Modulo /\ g[i] \in Nat /\ l[j].tamanio \in Nat
        BY <1>1, <1>9, <3>1, <3>2
      <3>4. g[i] + l[j].tamanio \in Nat
        BY <3>3
      <3>5. (g[i] + l[j].tamanio) % Modulo \in Nat
        BY <1>0, <3>4
      <3> QED BY <3>2, <3>3, <3>5
    <2>3. S = Nat
      <3>1. S \in SUBSET Nat
        OBVIOUS
      <3> QED BY <2>1, <2>2, <3>1, Induccion
    <2>4. \A i \in 0 .. n : i \in S /\ i <= n
      BY <1>1, <2>3
    <2> QED BY <2>4
  <1>11. g \in [0 .. n -> Nat]
    BY <1>8, <1>10
  <1> QED BY <1>1, <1>8, <1>9, <1>11

\* What the loop of comprobar_Creacion_de_Seg has added up is never more than the
\* bytes of the holes it has seen.
LEMMA EspacioEsBytes ==
  ASSUME NEW l, HuecosBien(l)
  PROVE  /\ IsFiniteSet(Cubre(l))
         /\ \A k \in DOMAIN l : EspacioLibre(l)[k] <= Cardinality(Cubre(l))
  <1>1. PICK n, e : n = Len(l) /\ e = EspacioLibre(l)
    OBVIOUS
  <1>2. l \in Seq(EsHueco) /\ DOMAIN l = 1 .. n /\ n \in Nat
    BY <1>1 DEF HuecosBien
  <1>3. \A i \in 1 .. n : l[i].base \in Nat /\ l[i].tamanio \in Nat
    BY <1>2, DeHueco
  <1>4. \A i, j \in 1 .. n : i # j => Disjuntos(l[i], l[j])
    BY <1>2 DEF HuecosBien
  <1>5. /\ e \in [0 .. n -> Nat] /\ e[0] = 0
        /\ \A i \in 1 .. n : e[i] = (e[i - 1] + l[i].tamanio) % Modulo
    BY <1>1, <1>2, <1>3, EspacioLibreEs
  <1>6. Modulo \in Nat /\ Modulo > 0
    BY MemoriaAssumption
  <1> DEFINE S == {k \in Nat : k <= n => /\ IsFiniteSet(Hasta(l, k))
                                         /\ e[k] <= Cardinality(Hasta(l, k))}
  <1>7. 0 \in S
    <2>1. Hasta(l, 0) = {}
      BY DEF Hasta
    <2>2. IsFiniteSet(Hasta(l, 0)) /\ Cardinality(Hasta(l, 0)) = 0
      BY <2>1, FS_EmptySet
    <2> QED BY <1>5, <2>2
  <1>8. ASSUME NEW m \in S
        PROVE  m + 1 \in S
    <2>1. SUFFICES ASSUME m + 1 <= n
                   PROVE  /\ IsFiniteSet(Hasta(l, m + 1))
                          /\ e[m + 1] <= Cardinality(Hasta(l, m + 1))
      OBVIOUS
    <2>2. PICK k \in 1 .. n : k = m + 1 /\ k - 1 = m
      BY <1>2, <2>1
    <2>3. IsFiniteSet(Hasta(l, m)) /\ e[m] <= Cardinality(Hasta(l, m))
      BY <1>2, <2>1
    <2>4. IsFiniteSet(Hasta(l, k - 1))
      BY <2>2, <2>3
    <2>5. /\ IsFiniteSet(Hasta(l, k))
          /\ Cardinality(Hasta(l, k)) = Cardinality(Hasta(l, k - 1)) + l[k].tamanio
      BY <1>2, <1>3, <1>4, <2>4, HastaUnoMas
    <2>6. Cardinality(Hasta(l, m)) \in Nat
      BY <2>3, FS_CardinalityType
    <2>7. PICK a \in Nat : a = e[m] + l[k].tamanio
      <3>1. e[m] \in Nat /\ l[k].tamanio \in Nat
        <4>1. m \in 0 .. n
          BY <1>2, <2>1
        <4> QED BY <1>3, <1>5, <4>1
      <3> QED BY <3>1
    <2>8. a % Modulo <= a
      BY <1>6
    <2>9. e[k] = a % Modulo
      BY <1>5, <2>2, <2>7
    <2>10. e[m] \in Nat /\ l[k].tamanio \in Nat
      <3>1. m \in 0 .. n
        BY <1>2, <2>1
      <3> QED BY <1>3, <1>5, <3>1
    <2>12. Cardinality(Hasta(l, k)) = Cardinality(Hasta(l, m)) + l[k].tamanio
      BY <2>2, <2>5
    <2>13. a % Modulo \in Int
      BY <1>6
    <2>14. e[k] <= Cardinality(Hasta(l, k))
      BY <2>3, <2>6, <2>7, <2>8, <2>9, <2>10, <2>12, <2>13
    <2> QED BY <2>2, <2>5, <2>14
  <1>9. \A k \in 0 .. n : IsFiniteSet(Hasta(l, k)) /\ e[k] <= Cardinality(Hasta(l, k))
    <2>1. S \in SUBSET Nat
      OBVIOUS
    <2>2. S = Nat
      BY <1>7, <1>8, <2>1, Induccion
    <2>3. \A k \in 0 .. n : k \in S /\ k <= n
      BY <1>2, <2>2
    <2> QED BY <2>3
  <1>10. Hasta(l, n) = Cubre(l)
    BY <1>2 DEF Hasta, Cubre
  <1>11. IsFiniteSet(Cubre(l))
    <2>1. n \in 0 .. n
      BY <1>2
    <2> QED BY <1>9, <1>10, <2>1
  <1>12. ASSUME NEW k \in 1 .. n
         PROVE  e[k] <= Cardinality(Cubre(l))
    <2>1. k \in 0 .. n
      BY <1>2
    <2>2. Hasta(l, k) \subseteq Cubre(l)
      <3>1. \A i \in 1 .. k : i \in 1 .. n
        BY <1>2
      <3> QED BY <1>2, <3>1 DEF Hasta, Cubre
    <2>3. Cardinality(Hasta(l, k)) <= Cardinality(Cubre(l))
      BY <1>11, <2>2, FS_Subset
    <2>4. e[k] <= Cardinality(Hasta(l, k)) /\ IsFiniteSet(Hasta(l, k)) /\ e[k] \in Nat
      BY <1>5, <1>9, <2>1
    <2>5. Cardinality(Hasta(l, k)) \in Nat /\ Cardinality(Cubre(l)) \in Nat
      BY <1>11, <2>4, FS_CardinalityType
    <2> QED BY <2>3, <2>4, <2>5
  <1> QED BY <1>1, <1>2, <1>11, <1>12

-----------------------------------------------------------------------------
(* compactar.                                                              *)

\* d never goes down.
Sube(d, n) == \A i, j \in 0 .. n : i <= j => d[i] <= d[j]

LEMMA DesplazamientoSube ==
  ASSUME NEW n \in Nat, NEW d \in [0 .. n -> Nat], \A i \in 1 .. n : d[i - 1] <= d[i]
  PROVE  Sube(d, n)
  <1> DEFINE S == {j \in Nat : j <= n => \A i \in 0 .. n : i <= j => d[i] <= d[j]}
  <1>1. 0 \in S
    <2>1. \A i \in 0 .. n : i <= 0 => i = 0
      OBVIOUS
    <2>2. d[0] \in Nat
      OBVIOUS
    <2> QED BY <2>1, <2>2
  <1>2. ASSUME NEW m \in S
        PROVE  m + 1 \in S
    <2>1. SUFFICES ASSUME m + 1 <= n, NEW i \in 0 .. n, i <= m + 1
                   PROVE  d[i] <= d[m + 1]
      OBVIOUS
    <2>2. PICK j \in 1 .. n : j = m + 1 /\ j - 1 = m
      BY <2>1
    <2>3. d[m] <= d[j] /\ d[m] \in Nat /\ d[j] \in Nat /\ d[i] \in Nat
      <3>1. m \in 0 .. n /\ j \in 0 .. n
        BY <2>2
      <3>2. d[j - 1] <= d[j]
        OBVIOUS
      <3> QED BY <2>2, <3>1, <3>2
    <2>4. CASE i = m + 1
      BY <2>2, <2>3, <2>4
    <2>5. CASE i <= m
      <3>1. d[i] <= d[m]
        BY <2>1, <2>5
      <3> QED BY <2>2, <2>3, <3>1
    <2> QED BY <2>1, <2>4, <2>5
  <1>3. S = Nat
    <2>1. S \in SUBSET Nat
      OBVIOUS
    <2> QED BY <1>1, <1>2, <2>1, Induccion
  <1>4. ASSUME NEW i \in 0 .. n, NEW j \in 0 .. n, i <= j
        PROVE  d[i] <= d[j]
    <2>1. j \in Nat /\ j <= n
      OBVIOUS
    <2>2. j \in S
      BY <1>3, <2>1
    <2> QED BY <1>4, <2>1, <2>2
  <1> QED BY <1>4 DEF Sube

\* What the segments of m are once they are put one after the other.
Seguidos(r, m, d, n) ==
  /\ r \in Seq(EsSegmento) /\ Len(r) = n
  /\ \A i \in 1 .. n : /\ r[i].pid = m[i].pid /\ r[i].id = m[i].id
                       /\ r[i].base = d[i - 1] /\ r[i].tamanio = m[i].tamanio
                       /\ r[i].base \in Nat /\ r[i].tamanio \in Nat

LEMMA RebasadosEs ==
  ASSUME NEW m \in Seq(EsSegmento)
  PROVE  Seguidos(Rebasados(m), m, Desplazamiento(m), Len(m))
  <1>1. PICK n, d : n = Len(m) /\ d = Desplazamiento(m)
    OBVIOUS
  <1>2. n \in Nat /\ DOMAIN m = 1 .. n /\ \A i \in 1 .. n : m[i] \in EsSegmento
    BY <1>1
  <1>3. d \in [0 .. n -> Nat]
    <2>1. \A i \in 1 .. Len(m) : m[i].tamanio \in Nat
      BY <1>1, <1>2, SegmentoEs
    <2> QED BY <1>1, <2>1, DesplazamientoEs
  <1>4. PICK r : r = Rebasados(m)
    OBVIOUS
  <1>5. r = [i \in 1 .. n |-> [m[i] EXCEPT !.base = d[i - 1]]]
    BY <1>1, <1>2, <1>4 DEF Rebasados
  <1>6. ASSUME NEW i \in 1 .. n
        PROVE  /\ r[i] \in EsSegmento
               /\ r[i].pid = m[i].pid /\ r[i].id = m[i].id
               /\ r[i].base = d[i - 1] /\ r[i].tamanio = m[i].tamanio
    <2>1. i - 1 \in 0 .. n
      BY <1>2
    <2>2. PICK b \in Nat : b = d[i - 1]
      BY <1>3, <2>1
    <2>3. r[i] = [m[i] EXCEPT !.base = b]
      BY <1>5, <2>2
    <2>4. m[i] \in EsSegmento
      BY <1>2
    <2> QED BY <2>2, <2>3, <2>4 DEF EsSegmento
  <1>7. r \in Seq(EsSegmento) /\ Len(r) = n
    BY <1>2, <1>5, <1>6
  <1>8. \A i \in 1 .. n : r[i].base \in Nat /\ r[i].tamanio \in Nat
    BY <1>6, SegmentoEs
  <1> QED BY <1>1, <1>4, <1>6, <1>7, <1>8 DEF Seguidos

\* The bytes of r[i] go from d[i - 1] to d[i].
Contiguos(r, d, n) ==
  /\ \A i, j \in 1 .. n : i # j => Disjuntos(r[i], r[j])
  /\ \A k \in 0 .. n : Hasta(r, k) = 0 .. d[k] - 1

LEMMA SeguidosBytes ==
  ASSUME NEW n \in Nat, NEW m, NEW r, NEW d \in [0 .. n -> Nat], d[0] = 0,
         Seguidos(r, m, d, n), \A i \in 1 .. n : d[i] = d[i - 1] + m[i].tamanio
  PROVE  Contiguos(r, d, n)
  <1>1. \A i \in 0 .. n : d[i] \in Nat
    OBVIOUS
  <1>2. \A i \in 1 .. n : i \in 0 .. n /\ i - 1 \in 0 .. n
    OBVIOUS
  <1>3. \A i \in 1 .. n : r[i].base = d[i - 1] /\ r[i].tamanio = m[i].tamanio /\ r[i].tamanio \in Nat
    BY DEF Seguidos
  <1>4. ASSUME NEW i \in 1 .. n
        PROVE  d[i - 1] <= d[i]
    <2>1. PICK a, b, t : a = d[i - 1] /\ b = d[i] /\ t = m[i].tamanio
      OBVIOUS
    <2>2. a \in Nat /\ b \in Nat /\ t \in Nat
      BY <1>1, <1>2, <1>3, <2>1
    <2>3. b = a + t
      BY <2>1
    <2> QED BY <2>1, <2>2, <2>3
  <1>5. Sube(d, n)
    BY <1>4, DesplazamientoSube
  <1>6. ASSUME NEW i \in 1 .. n, NEW x
        PROVE  x \in Bytes(r[i]) <=> x \in Int /\ d[i - 1] <= x /\ x < d[i]
    <2>1. PICK a, b, t : a = d[i - 1] /\ b = d[i] /\ t = m[i].tamanio
      OBVIOUS
    <2>2. a \in Nat /\ b \in Nat /\ t \in Nat /\ b = a + t /\ Bytes(r[i]) = a .. a + t - 1
      BY <1>1, <1>2, <1>3, <2>1 DEF Bytes
    <2>3. x \in a .. a + t - 1 <=> x \in Int /\ a <= x /\ x < b
      BY <2>2
    <2> QED BY <2>1, <2>2, <2>3
  <1>7. ASSUME NEW i \in 1 .. n, NEW j \in 1 .. n, i < j
        PROVE  Bytes(r[i]) \intersect Bytes(r[j]) = {}
    <2>1. PICK k : k = j - 1
      OBVIOUS
    <2>2. k \in 0 .. n /\ i \in 0 .. n /\ i <= k
      BY <1>7, <2>1
    <2>3. d[i] <= d[k] /\ d[i] \in Nat /\ d[k] \in Nat
      BY <1>1, <1>5, <2>2 DEF Sube
    <2>4. \A x : x \in Bytes(r[i]) => x \in Int /\ x < d[i]
      BY <1>6
    <2>5. \A x : x \in Bytes(r[j]) => x \in Int /\ d[k] <= x
      BY <1>6, <2>1
    <2>6. \A x : ~(x \in Bytes(r[i]) /\ x \in Bytes(r[j]))
      BY <2>3, <2>4, <2>5
    <2> QED BY <2>6
  <1>8. \A i, j \in 1 .. n : i # j => Disjuntos(r[i], r[j])
    <2>1. ASSUME NEW i \in 1 .. n, NEW j \in 1 .. n, i # j
          PROVE  Disjuntos(r[i], r[j])
      <3>1. i < j \/ j < i
        BY <2>1
      <3> QED BY <1>7, <3>1 DEF Disjuntos
    <2> QED BY <2>1
  <1>9. \A k \in 0 .. n : Hasta(r, k) = 0 .. d[k] - 1
    <2> DEFINE S == {k \in Nat : k <= n => \A x : x \in Hasta(r, k) <=> x \in Int /\ 0 <= x /\ x < d[k]}
    <2>1. 0 \in S
      <3>1. Hasta(r, 0) = {}
        BY DEF Hasta
      <3> QED BY <3>1
    <2>2. ASSUME NEW k \in S
          PROVE  k + 1 \in S
      <3>1. SUFFICES ASSUME k + 1 <= n, NEW x
                     PROVE  x \in Hasta(r, k + 1) <=> x \in Int /\ 0 <= x /\ x < d[k + 1]
        OBVIOUS
      <3>2. PICK j \in 1 .. n : j = k + 1 /\ j - 1 = k
        BY <3>1
      <3>3. Hasta(r, j) = Hasta(r, k) \union Bytes(r[j])
        <4>1. \A i : i \in 1 .. j <=> i = j \/ i \in 1 .. k
          BY <3>2
        <4> QED BY <4>1 DEF Hasta
      <3>4. x \in Bytes(r[j]) <=> x \in Int /\ d[k] <= x /\ x < d[j]
        BY <1>6, <3>2
      <3>5. x \in Hasta(r, k) <=> x \in Int /\ 0 <= x /\ x < d[k]
        BY <3>1
      <3>6. d[k] \in Nat /\ d[j] \in Nat /\ d[k] <= d[j]
        BY <1>1, <1>2, <1>4, <3>2
      <3>7. x \in Hasta(r, j) <=> x \in Int /\ 0 <= x /\ x < d[j]
        BY <3>3, <3>4, <3>5, <3>6
      <3> QED BY <3>2, <3>7
    <2>3. S = Nat
      <3>1. S \in SUBSET Nat
        OBVIOUS
      <3> QED BY <2>1, <2>2, <3>1, Induccion
    <2>4. ASSUME NEW k \in 0 .. n
          PROVE  Hasta(r, k) = 0 .. d[k] - 1
      <3>1. \A x : x \in Hasta(r, k) <=> x \in Int /\ 0 <= x /\ x < d[k]
        BY <2>3
      <3>2. \A x : x \in 0 .. d[k] - 1 <=> x \in Int /\ 0 <= x /\ x < d[k]
        BY <1>1
      <3> QED BY <3>1, <3>2
    <2> QED BY <2>4
  <1> QED BY <1>8, <1>9 DEF Contiguos

\* Segments that share no byte take as many as their sizes add.
LEMMA SumaEs ==
  ASSUME NEW m \in Seq(EsSegmento), \A i, j \in 1 .. Len(m) : i # j => Disjuntos(m[i], m[j])
  PROVE  /\ IsFiniteSet(Hasta(m, Len(m)))
         /\ Cardinality(Hasta(m, Len(m))) = Desplazamiento(m)[Len(m)]
  <1>1. PICK n, d : n = Len(m) /\ d = Desplazamiento(m)
    OBVIOUS
  <1>2. n \in Nat /\ DOMAIN m = 1 .. n
    BY <1>1
  <1>3. \A i \in 1 .. n : m[i].base \in Nat /\ m[i].tamanio \in Nat
    BY <1>1, SegmentoEs
  <1>4. d[0] = 0 /\ \A i \in 1 .. n : d[i] = d[i - 1] + m[i].tamanio
    BY <1>1, <1>3, DesplazamientoEs
  <1> DEFINE S == {k \in Nat : k <= n => /\ IsFiniteSet(Hasta(m, k))
                                         /\ Cardinality(Hasta(m, k)) = d[k]}
  <1>5. 0 \in S
    <2>1. Hasta(m, 0) = {}
      BY DEF Hasta
    <2>2. IsFiniteSet(Hasta(m, 0)) /\ Cardinality(Hasta(m, 0)) = 0
      BY <2>1, FS_EmptySet
    <2> QED BY <1>4, <2>2
  <1>6. ASSUME NEW i \in S
        PROVE  i + 1 \in S
    <2>1. SUFFICES ASSUME i + 1 <= n
                   PROVE  /\ IsFiniteSet(Hasta(m, i + 1))
                          /\ Cardinality(Hasta(m, i + 1)) = d[i + 1]
      OBVIOUS
    <2>2. PICK k \in 1 .. n : k = i + 1 /\ k - 1 = i
      BY <1>2, <2>1
    <2>3. IsFiniteSet(Hasta(m, i)) /\ Cardinality(Hasta(m, i)) = d[i]
      BY <1>2, <2>1
    <2>4. IsFiniteSet(Hasta(m, k - 1))
      BY <2>2, <2>3
    <2>5. \A a, b \in 1 .. n : a # b => Disjuntos(m[a], m[b])
      BY <1>1
    <2>6. /\ IsFiniteSet(Hasta(m, k))
          /\ Cardinality(Hasta(m, k)) = Cardinality(Hasta(m, k - 1)) + m[k].tamanio
      BY <1>2, <1>3, <2>4, <2>5, HastaUnoMas
    <2>7. Cardinality(Hasta(m, k)) = d[k]
      BY <1>4, <2>2, <2>3, <2>6
    <2> QED BY <2>2, <2>6, <2>7
  <1>7. n \in S /\ n <= n
    <2>1. S \in SUBSET Nat
      OBVIOUS
    <2>2. S = Nat
      BY <1>5, <1>6, <2>1, Induccion
    <2> QED BY <1>2, <2>2
  <1> QED BY <1>1, <1>7

\* One hole alone.
LEMMA UnHueco ==
  ASSUME NEW h \in EsHueco
  PROVE  HuecosBien(<<h>>) /\ Cubre(<<h>>) = Bytes(h) /\ Len(<<h>>) = 1 /\ <<h>>[1] = h
  <1>1. PICK l : l = <<h>>
    OBVIOUS
  <1>2. l \in Seq(EsHueco) /\ DOMAIN l = 1 .. 1 /\ l[1] = h /\ Len(l) = 1
    BY <1>1
  <1>3. \A i \in 1 .. 1 : i = 1
    OBVIOUS
  <1>4. HuecosBien(l)
    BY <1>2, <1>3 DEF HuecosBien
  <1>5. Cubre(l) = Bytes(h)
    BY <1>2, <1>3 DEF Cubre
  <1> QED BY <1>1, <1>2, <1>4, <1>5

\* The hole that is left begins where the last segment ends.
LEMMA HuecoNuevoEs ==
  ASSUME NEW o \in Nat, NEW m \in Seq(EsSegmento)
  PROVE  /\ HuecoNuevo(o, m) \in EsHueco
         /\ Desplazamiento(m)[Len(m)] \in Nat
         /\ HuecoNuevo(o, m).base = Desplazamiento(m)[Len(m)]
         /\ HuecoNuevo(o, m).tamanio = (TamMemoria - Desplazamiento(m)[Len(m)]) % Modulo
  <1>1. PICK n, d : n = Len(m) /\ d = Desplazamiento(m)
    OBVIOUS
  <1>2. d \in [0 .. n -> Nat]
    <2>1. \A i \in 1 .. Len(m) : m[i].tamanio \in Nat
      BY SegmentoEs
    <2> QED BY <1>1, <2>1, DesplazamientoEs
  <1>3. n \in 0 .. n
    BY <1>1
  <1>4. PICK b \in Nat : b = d[n]
    BY <1>2, <1>3
  <1>5. PICK t : t = (TamMemoria - b) % Modulo
    OBVIOUS
  <1>6. t \in Nat
    <2>1. TamMemoria \in Nat /\ Modulo \in Nat /\ Modulo > 0
      BY MemoriaAssumption
    <2> QED BY <1>4, <1>5, <2>1
  <1>7. HuecoNuevo(o, m) = Hueco(o, b, t)
    BY <1>1, <1>4, <1>5 DEF HuecoNuevo
  <1>8. Hueco(o, b, t) \in EsHueco /\ Hueco(o, b, t).base = b /\ Hueco(o, b, t).tamanio = t
    <2>1. b \in Nat
      BY <1>4
    <2> QED BY <1>6, <2>1, HuecoEs
  <1> QED BY <1>1, <1>4, <1>5, <1>7, <1>8

\* After compacting no byte is in two segments, nor in a segment and the hole.
LEMMA CompactarBien ==
  ASSUME NEW m \in Seq(EsSegmento), NEW V, NEW o \in Nat
  PROVE  /\ Rebasados(m) \in Seq(EsSegmento)
         /\ SegmentosBien(Rebasados(m), V)
         /\ HuecosBien(<<HuecoNuevo(o, m)>>)
         /\ Cubre(<<HuecoNuevo(o, m)>>) \intersect Ocupado(Rebasados(m), V) = {}
  <1>1. PICK n, d, r, h : /\ n = Len(m) /\ d = Desplazamiento(m) /\ r = Rebasados(m)
                          /\ h = HuecoNuevo(o, m)
    OBVIOUS
  <1>2. n \in Nat /\ \A i \in 1 .. n : m[i] \in EsSegmento
    BY <1>1
  <1>3. /\ d \in [0 .. n -> Nat] /\ d[0] = 0
        /\ \A i \in 1 .. n : d[i] = d[i - 1] + m[i].tamanio
    <2>1. \A i \in 1 .. Len(m) : m[i].tamanio \in Nat
      BY SegmentoEs
    <2> QED BY <1>1, <2>1, DesplazamientoEs
  <1>4. Seguidos(r, m, d, n)
    BY <1>1, RebasadosEs
  <1>5. /\ \A i, j \in 1 .. n : i # j => Disjuntos(r[i], r[j])
        /\ \A k \in 0 .. n : Hasta(r, k) = 0 .. d[k] - 1
    <2>1. Contiguos(r, d, n)
      BY <1>2, <1>3, <1>4, SeguidosBytes
    <2> QED BY <2>1 DEF Contiguos
  <1>6. r \in Seq(EsSegmento) /\ DOMAIN r = 1 .. n
    BY <1>4 DEF Seguidos
  <1>7. SegmentosBien(r, V)
    BY <1>5, <1>6 DEF SegmentosBien, De
  <1>8. h \in EsHueco /\ h.base = d[n] /\ d[n] \in Nat
    BY <1>1, HuecoNuevoEs
  <1>9. HuecosBien(<<h>>) /\ Cubre(<<h>>) = Bytes(h)
    BY <1>8, UnHueco
  <1>10. Ocupado(r, V) \subseteq 0 .. d[n] - 1
    <2>1. Ocupado(r, V) \subseteq Hasta(r, n)
      BY <1>6 DEF Ocupado, De, Hasta
    <2>2. n \in 0 .. n
      BY <1>2
    <2> QED BY <1>5, <2>1, <2>2
  <1>11. \A x : x \in Bytes(h) => x \in Int /\ d[n] <= x
    BY <1>8, DeHueco DEF Bytes
  <1>12. Cubre(<<h>>) \intersect Ocupado(r, V) = {}
    BY <1>8, <1>9, <1>10, <1>11
  <1> QED BY <1>1, <1>6, <1>7, <1>9, <1>12

\* If every segment is in use, the bytes of a sorted list are those of the list.
LEMMA OrdenadosOcupan ==
  ASSUME NEW l \in Seq(EsSegmento), NEW m \in EnOrdenDeBase(l), NEW V,
         \A i \in DOMAIN l : l[i].pid \in V \union {Global}, SegmentosBien(l, V)
  PROVE  /\ m \in Seq(EsSegmento) /\ Len(m) = Len(l)
         /\ \A i, j \in 1 .. Len(m) : i # j => Disjuntos(m[i], m[j])
         /\ \A i \in 1 .. Len(m) : m[i].pid \in V \union {Global}
         /\ Hasta(m, Len(m)) = Ocupado(l, V)
  <1>1. PICK n : n = Len(l)
    OBVIOUS
  <1>2. DOMAIN l = 1 .. n /\ De(l, V) = 1 .. n
    BY <1>1 DEF De
  <1>3. m \in Seq(EsSegmento) /\ Len(m) = n /\ \E o : Reordena(m, l, o)
    <2>1. m \in Seq(EsSegmento) /\ Len(m) = Len(l) /\ \E o : Reordena(m, l, o)
      BY OrdenadaEs
    <2> QED BY <1>1, <2>1
  <1>4. PICK o : Reordena(m, l, o)
    BY <1>3
  <1>5. /\ \A i \in 1 .. n : m[i] = l[o[i]] /\ o[i] \in 1 .. n
        /\ \A i, j \in 1 .. n : i # j => o[i] # o[j]
        /\ \A j \in 1 .. n : \E i \in 1 .. n : o[i] = j
    BY <1>1, <1>4 DEF Reordena
  <1>6. ASSUME NEW i \in 1 .. n, NEW j \in 1 .. n, i # j
        PROVE  Disjuntos(m[i], m[j])
    <2>1. o[i] \in De(l, V) /\ o[j] \in De(l, V) /\ o[i] # o[j]
      BY <1>2, <1>5, <1>6
    <2>2. Disjuntos(l[o[i]], l[o[j]])
      BY <2>1 DEF SegmentosBien
    <2> QED BY <1>5, <2>2
  <1>7. \A i \in 1 .. n : m[i].pid \in V \union {Global}
    BY <1>2, <1>5
  <1>8. Hasta(m, n) = Ocupado(l, V)
    <2>1. ASSUME NEW x \in Hasta(m, n)
          PROVE  x \in Ocupado(l, V)
      <3>1. PICK i \in 1 .. n : x \in Bytes(m[i])
        BY DEF Hasta
      <3>2. o[i] \in De(l, V) /\ m[i] = l[o[i]]
        BY <1>2, <1>5
      <3> QED BY <3>1, <3>2 DEF Ocupado
    <2>2. ASSUME NEW x \in Ocupado(l, V)
          PROVE  x \in Hasta(m, n)
      <3>1. PICK j \in 1 .. n : x \in Bytes(l[j])
        BY <1>2 DEF Ocupado
      <3>2. PICK i \in 1 .. n : o[i] = j
        BY <1>5
      <3>3. m[i] = l[j]
        BY <1>5, <3>2
      <3> QED BY <3>1, <3>3 DEF Hasta
    <2> QED BY <2>1, <2>2
  <1> QED BY <1>1, <1>3, <1>6, <1>7, <1>8

\* If the segments in use and the bytes of C were the whole memory, after
\* compacting the hole is as large as C was and nothing is lost.
LEMMA CompactarLlena ==
  ASSUME NEW l \in Seq(EsSegmento), NEW m \in EnOrdenDeBase(l), NEW V, NEW o \in Nat,
         \A i \in DOMAIN l : l[i].pid \in V \union {Global}, SegmentosBien(l, V),
         NEW C, IsFiniteSet(C), C \intersect Ocupado(l, V) = {},
         C \union Ocupado(l, V) = 0 .. TamMemoria - 1
  PROVE  /\ HuecoNuevo(o, m).tamanio = Cardinality(C)
         /\ Cubre(<<HuecoNuevo(o, m)>>) \union Ocupado(Rebasados(m), V) = 0 .. TamMemoria - 1
  <1>1. PICK n, d, r, h, U : /\ n = Len(m) /\ d = Desplazamiento(m) /\ r = Rebasados(m)
                             /\ h = HuecoNuevo(o, m) /\ U = Ocupado(l, V)
    OBVIOUS
  <1>2. /\ m \in Seq(EsSegmento)
        /\ \A i, j \in 1 .. Len(m) : i # j => Disjuntos(m[i], m[j])
        /\ \A i \in 1 .. Len(m) : m[i].pid \in V \union {Global}
        /\ Hasta(m, Len(m)) = Ocupado(l, V)
    BY OrdenadosOcupan
  <1>3. IsFiniteSet(U) /\ Cardinality(U) = d[n]
    <2>1. /\ IsFiniteSet(Hasta(m, Len(m)))
          /\ Cardinality(Hasta(m, Len(m))) = Desplazamiento(m)[Len(m)]
      BY <1>2, SumaEs
    <2> QED BY <1>1, <1>2, <2>1
  <1>4. h \in EsHueco /\ h.base = d[n] /\ d[n] \in Nat /\ h.tamanio = (TamMemoria - d[n]) % Modulo
    BY <1>1, <1>2, HuecoNuevoEs
  <1>5. TamMemoria \in Nat /\ Modulo \in Nat /\ Modulo > TamMemoria
    BY MemoriaAssumption
  <1>6. Cardinality(C) + d[n] = TamMemoria /\ Cardinality(C) \in Nat
    <2>1. /\ IsFiniteSet(C \union U)
          /\ Cardinality(C \union U) = Cardinality(C) + Cardinality(U) - Cardinality(C \intersect U)
      BY <1>3, FS_Union
    <2>2. Cardinality(C \intersect U) = 0
      BY <1>1, FS_EmptySet
    <2>3. Cardinality(0 .. TamMemoria - 1) = TamMemoria
      <3>1. Cardinality(0 .. 0 + TamMemoria - 1) = TamMemoria
        BY <1>5, RangoFinito
      <3>2. 0 + TamMemoria - 1 = TamMemoria - 1
        BY <1>5
      <3> QED BY <3>1, <3>2
    <2>4. C \union U = 0 .. TamMemoria - 1
      BY <1>1
    <2>5. Cardinality(C) \in Nat
      BY FS_CardinalityType
    <2>6. PICK a, b : a = Cardinality(C) /\ b = Cardinality(U)
      OBVIOUS
    <2>7. TamMemoria = a + b - 0
      BY <2>1, <2>2, <2>3, <2>4, <2>6
    <2>8. a \in Nat /\ b = d[n] /\ b \in Nat
      BY <1>3, <1>4, <2>5, <2>6
    <2> QED BY <2>6, <2>7, <2>8
  <1>7. h.tamanio = Cardinality(C)
    <2>1. PICK c \in Nat : c = Cardinality(C)
      BY <1>6
    <2>2. TamMemoria - d[n] = c /\ c < Modulo
      BY <1>4, <1>5, <1>6, <2>1
    <2>3. c % Modulo = c
      BY <1>5, <2>2
    <2> QED BY <1>4, <2>1, <2>2, <2>3
  <1>8. Cubre(<<h>>) = Bytes(h)
    BY <1>4, UnHueco
  <1>9. Ocupado(r, V) = 0 .. d[n] - 1
    <2>1. n \in Nat /\ \A i \in 1 .. n : m[i] \in EsSegmento
      BY <1>1, <1>2
    <2>2. /\ d \in [0 .. n -> Nat] /\ d[0] = 0
          /\ \A i \in 1 .. n : d[i] = d[i - 1] + m[i].tamanio
      <3>1. \A i \in 1 .. Len(m) : m[i].tamanio \in Nat
        BY <1>2, SegmentoEs
      <3> QED BY <1>1, <1>2, <3>1, DesplazamientoEs
    <2>3. Seguidos(r, m, d, n)
      BY <1>1, <1>2, RebasadosEs
    <2>4. \A k \in 0 .. n : Hasta(r, k) = 0 .. d[k] - 1
      <3>1. Contiguos(r, d, n)
        BY <2>1, <2>2, <2>3, SeguidosBytes
      <3> QED BY <3>1 DEF Contiguos
    <2>5. DOMAIN r = 1 .. n /\ \A i \in 1 .. n : r[i].pid = m[i].pid
      BY <2>3 DEF Seguidos
    <2>6. De(r, V) = 1 .. n
      BY <1>1, <1>2, <2>5 DEF De
    <2>7. Ocupado(r, V) = Hasta(r, n)
      BY <2>6 DEF Ocupado, Hasta
    <2>8. n \in 0 .. n
      BY <2>1
    <2> QED BY <2>4, <2>7, <2>8
  <1>10. Bytes(h) = d[n] .. TamMemoria - 1
    <2>1. h.tamanio = TamMemoria - d[n]
      BY <1>4, <1>5, <1>6, <1>7
    <2>2. h.base + h.tamanio - 1 = TamMemoria - 1
      BY <1>4, <1>5, <2>1
    <2> QED BY <1>4, <2>2 DEF Bytes
  <1>11. Bytes(h) \union Ocupado(r, V) = 0 .. TamMemoria - 1
    <2>1. d[n] <= TamMemoria
      BY <1>4, <1>5, <1>6
    <2> QED BY <1>4, <1>5, <1>9, <1>10, <2>1
  <1> QED BY <1>1, <1>7, <1>8, <1>11

-----------------------------------------------------------------------------
(* buscarSegmentoPorPID.                                                   *)

\* h has the entries of p among the first k of l, each one once.
Halla(h, k, l, p) ==
  /\ h \in Seq(EsSegmento)
  /\ \A i \in 1 .. Len(h) : \E j \in 1 .. k : h[i] = l[j] /\ l[j].pid = p
  /\ \A j \in 1 .. k : l[j].pid = p => \E i \in 1 .. Len(h) : h[i] = l[j]
  /\ (\A i, j \in 1 .. k : i # j => l[i] # l[j])
       => \A i, j \in 1 .. Len(h) : i # j => h[i] # h[j]

\* What a turn does.
OtroTurno(h, s, p) == IF s.pid = p THEN Append(h, s) ELSE h

LEMMA HallaUnoMas ==
  ASSUME NEW l \in Seq(EsSegmento), NEW p, NEW k \in 1 .. Len(l), NEW m, m = k - 1,
         NEW h, Halla(h, m, l, p)
  PROVE  Halla(OtroTurno(h, l[k], p), k, l, p)
  <1>1. k \in Nat /\ m \in Nat /\ \A i : i \in 1 .. k <=> i = k \/ i \in 1 .. m
    OBVIOUS
  <1>10. k \notin 1 .. m /\ k \in 1 .. k
    OBVIOUS
  <1>2. h \in Seq(EsSegmento) /\ Len(h) \in Nat
    BY DEF Halla
  <1>3. PICK s : s = l[k] /\ s \in EsSegmento
    OBVIOUS
  <1>4. CASE s.pid # p
    <2>1. OtroTurno(h, l[k], p) = h
      BY <1>3, <1>4 DEF OtroTurno
    <2>2. \A i \in 1 .. Len(h) : \E j \in 1 .. k : h[i] = l[j] /\ l[j].pid = p
      BY <1>1 DEF Halla
    <2>3. \A j \in 1 .. k : l[j].pid = p => \E i \in 1 .. Len(h) : h[i] = l[j]
      BY <1>1, <1>3, <1>4 DEF Halla
    <2>4. (\A i, j \in 1 .. k : i # j => l[i] # l[j])
            => \A i, j \in 1 .. Len(h) : i # j => h[i] # h[j]
      BY <1>1 DEF Halla
    <2>5. Halla(h, k, l, p)
      BY <1>2, <2>2, <2>3, <2>4 DEF Halla
    <2> QED BY <2>1, <2>5
  <1>5. CASE s.pid = p
    <2>1. PICK g, n : g = Append(h, s) /\ n = Len(h) + 1
      OBVIOUS
    <2>2. OtroTurno(h, l[k], p) = g
      BY <1>3, <1>5, <2>1 DEF OtroTurno
    <2>3. g \in Seq(EsSegmento) /\ Len(g) = n /\ g[n] = s /\ \A i \in 1 .. Len(h) : g[i] = h[i]
      BY <1>2, <1>3, <2>1
    <2>4. n \in 1 .. n /\ n \notin 1 .. Len(h) /\ \A i : i \in 1 .. n <=> i = n \/ i \in 1 .. Len(h)
      BY <1>2, <2>1
    <2>5. ASSUME NEW i \in 1 .. n
          PROVE  \E j \in 1 .. k : g[i] = l[j] /\ l[j].pid = p
      <3>1. CASE i = n
        BY <1>3, <1>5, <1>10, <2>3, <3>1
      <3>2. CASE i \in 1 .. Len(h)
        <4>1. PICK j \in 1 .. m : h[i] = l[j] /\ l[j].pid = p
          BY <3>2 DEF Halla
        <4>2. j \in 1 .. k
          BY <1>1, <4>1
        <4> QED BY <2>3, <3>2, <4>1, <4>2
      <3> QED BY <2>4, <3>1, <3>2
    <2>6. ASSUME NEW j \in 1 .. k, l[j].pid = p
          PROVE  \E i \in 1 .. n : g[i] = l[j]
      <3>1. CASE j = k
        BY <1>3, <2>3, <2>4, <3>1
      <3>2. CASE j \in 1 .. m
        <4>1. PICK i \in 1 .. Len(h) : h[i] = l[j]
          BY <2>6, <3>2 DEF Halla
        <4>2. i \in 1 .. n
          BY <2>4, <4>1
        <4> QED BY <2>3, <4>1, <4>2
      <3> QED BY <1>1, <3>1, <3>2
    <2>7. ASSUME \A i, j \in 1 .. k : i # j => l[i] # l[j],
                 NEW i \in 1 .. n, NEW j \in 1 .. n, i # j
          PROVE  g[i] # g[j]
      <3>1. \A a, b \in 1 .. m : a # b => l[a] # l[b]
        BY <1>1, <2>7
      <3>2. \A a, b \in 1 .. Len(h) : a # b => h[a] # h[b]
        BY <3>1 DEF Halla
      <3>3. \A a \in 1 .. m : l[a] # s
        BY <1>1, <1>3, <1>10, <2>7
      <3>4. ASSUME NEW a \in 1 .. Len(h)
            PROVE  h[a] # s
        <4>1. PICK b \in 1 .. m : h[a] = l[b]
          BY DEF Halla
        <4> QED BY <3>3, <4>1
      <3>5. (i = n \/ i \in 1 .. Len(h)) /\ (j = n \/ j \in 1 .. Len(h))
        BY <2>4
      <3> QED BY <2>3, <2>7, <3>2, <3>4, <3>5
    <2>8. Halla(g, k, l, p)
      BY <2>3, <2>5, <2>6, <2>7 DEF Halla
    <2> QED BY <2>2, <2>8
  <1> QED BY <1>4, <1>5

LEMMA HalladosEs ==
  ASSUME NEW l \in Seq(EsSegmento), NEW p
  PROVE  Halla(Hallados(l, p), Len(l), l, p)
  <1>1. PICK n : n = Len(l) /\ n \in Nat /\ \A i \in 1 .. n : l[i] \in EsSegmento
    OBVIOUS
  <1>2. PICK V, G : V = Seq(EsSegmento) /\ G = [x \in (1 .. n) \X V |-> OtroTurno(x[2], l[x[1]], p)]
    OBVIOUS
  <1>3. ASSUME NEW i \in 1 .. n, NEW v \in V
        PROVE  G[<<i, v>>] = OtroTurno(v, l[i], p) /\ G[<<i, v>>] \in V
    <2>1. G[<<i, v>>] = OtroTurno(v, l[i], p)
      BY <1>2
    <2>2. OtroTurno(v, l[i], p) \in V
      BY <1>1, <1>2 DEF OtroTurno
    <2> QED BY <2>1, <2>2
  <1>4. PICK h : Recorre(h, n, V, <<>>, G)
    <2>1. Cierra(n, V, G)
      BY <1>3 DEF Cierra
    <2>2. <<>> \in V
      BY <1>2
    <2> QED BY <1>1, <2>1, <2>2, Vueltas
  <1>5. h = [i \in 0 .. n |-> IF i = 0 THEN <<>> ELSE OtroTurno(h[i - 1], l[i], p)]
    <2>1. ASSUME NEW i \in 1 .. n
          PROVE  h[i] = OtroTurno(h[i - 1], l[i], p)
      <3>1. h[i - 1] \in V
        BY <1>1, <1>4 DEF Recorre
      <3> QED BY <1>3, <1>4, <3>1 DEF Recorre
    <2>2. \A i \in 0 .. n : h[i] = IF i = 0 THEN <<>> ELSE OtroTurno(h[i - 1], l[i], p)
      BY <1>4, <2>1 DEF Recorre
    <2> QED BY <1>4, <2>2 DEF Recorre
  <1>6. Hallados(l, p) =
          (CHOOSE g : g = [i \in 0 .. n |-> IF i = 0 THEN <<>> ELSE OtroTurno(g[i - 1], l[i], p)])[n]
    BY <1>1 DEF Hallados, OtroTurno
  <1>7. PICK g : /\ Hallados(l, p) = g[n]
                 /\ g = [i \in 0 .. n |-> IF i = 0 THEN <<>> ELSE OtroTurno(g[i - 1], l[i], p)]
    BY <1>5, <1>6
  <1>8. g[0] = <<>> /\ \A i \in 1 .. n : g[i] = OtroTurno(g[i - 1], l[i], p)
    <2>1. 0 \in 0 .. n /\ \A i \in 1 .. n : i \in 0 .. n /\ i # 0
      BY <1>1
    <2> QED BY <1>7, <2>1
  <1> DEFINE S == {i \in Nat : i <= n => Halla(g[i], i, l, p)}
  <1>9. 0 \in S
    <2>1. Halla(<<>>, 0, l, p)
      BY DEF Halla
    <2> QED BY <1>8, <2>1
  <1>10. ASSUME NEW i \in S
         PROVE  i + 1 \in S
    <2>1. SUFFICES ASSUME i + 1 <= n
                   PROVE  Halla(g[i + 1], i + 1, l, p)
      OBVIOUS
    <2>2. PICK j \in 1 .. n : j = i + 1 /\ j - 1 = i
      BY <1>1, <2>1
    <2>3. g[j] = OtroTurno(g[i], l[j], p)
      BY <1>8, <2>2
    <2>4. PICK h0 : h0 = g[i] /\ Halla(h0, i, l, p)
      BY <1>1, <2>1
    <2>5. j \in 1 .. Len(l) /\ i = j - 1
      BY <1>1, <2>2
    <2>6. Halla(OtroTurno(h0, l[j], p), j, l, p)
      BY <2>4, <2>5, HallaUnoMas
    <2> QED BY <2>2, <2>3, <2>4, <2>6
  <1>11. n \in S /\ n <= n
    <2>1. S \in SUBSET Nat
      OBVIOUS
    <2>2. S = Nat
      BY <1>9, <1>10, <2>1, Induccion
    <2> QED BY <1>1, <2>2
  <1> QED BY <1>1, <1>7, <1>11

-----------------------------------------------------------------------------
(* What the operations do to the list of holes.                            *)

LEMMA EliminarTipo ==
  ASSUME listaHuecos \in Seq(EsHueco), NEW b \in Seq(EsSegmento)
  PROVE  eliminarProceso(b) \in Seq(EsHueco)
  <1>1. PICK n, v : n = Len(b) /\ v = (n + 1) \div 2
    OBVIOUS
  <1>2. n \in Nat /\ v \in Nat /\ v <= n
    BY <1>1
  <1>3. CASE v = 0
    BY <1>1, <1>3 DEF eliminarProceso
  <1>4. CASE v # 0
    <2>1. v \in 1 .. n
      BY <1>2, <1>4
    <2>2. b[v] \in EsSegmento
      BY <1>1, <2>1
    <2>3. PICK h : h = Hueco(ObjetoNuevo(listaHuecos), b[v].base, b[v].tamanio)
      OBVIOUS
    <2>4. h \in EsHueco
      BY <2>2, <2>3, ObjetoEs, SegmentoEs, HuecoEs
    <2>5. [i \in 1 .. v |-> h] \in Seq(EsHueco)
      BY <1>2, <2>4
    <2>6. eliminarProceso(b) = listaHuecos \o [i \in 1 .. v |-> h]
      BY <1>1, <1>4, <2>3 DEF eliminarProceso
    <2> QED BY <2>5, <2>6, ConcatProperties
  <1> QED BY <1>3, <1>4

\* With two segments at most, a process that ends leaves one hole, for its first one.
LEMMA EliminarUno ==
  ASSUME listaHuecos \in Seq(EsHueco), NEW b \in Seq(EsSegmento), Len(b) <= 2
  PROVE  \/ Len(b) = 0 /\ eliminarProceso(b) = listaHuecos
         \/ /\ 1 \in 1 .. Len(b)
            /\ eliminarProceso(b) =
                 Append(listaHuecos, Hueco(ObjetoNuevo(listaHuecos), b[1].base, b[1].tamanio))
  <1>1. PICK n, v, l : n = Len(b) /\ v = (n + 1) \div 2 /\ l = listaHuecos
    OBVIOUS
  <1>2. n \in Nat /\ (n = 0 => v = 0) /\ (n # 0 => v = 1 /\ 1 \in 1 .. n)
    BY <1>1
  <1>3. CASE n = 0
    BY <1>1, <1>2, <1>3 DEF eliminarProceso
  <1>4. CASE n # 0
    <2>1. PICK h : h = Hueco(ObjetoNuevo(listaHuecos), b[1].base, b[1].tamanio)
      OBVIOUS
    <2>2. eliminarProceso(b) = l \o [i \in 1 .. 1 |-> h]
      BY <1>1, <1>2, <1>4, <2>1 DEF eliminarProceso
    <2>3. [i \in 1 .. 1 |-> h] = <<h>>
      OBVIOUS
    <2>4. l \in Seq(EsHueco)
      BY <1>1
    <2>6. b[1] \in EsSegmento
      BY <1>1, <1>2, <1>4
    <2>7. h \in EsHueco
      BY <2>1, <2>6, ObjetoEs, SegmentoEs, HuecoEs
    <2>5. l \o <<h>> = Append(l, h)
      BY <2>4, <2>7
    <2> QED BY <1>1, <1>2, <1>4, <2>1, <2>2, <2>3, <2>5
  <1> QED BY <1>3, <1>4

\* The other holes are other objects.
LEMMA SinObjeto ==
  ASSUME NEW l, HuecosBien(l), NEW k \in DOMAIN l
  PROVE  \A j \in DOMAIN Sin(l, k) : Sin(l, k)[j].obj # l[k].obj
  <1>1. l \in Seq(EsHueco) /\ DOMAIN l = 1 .. Len(l) /\ k \in 1 .. Len(l) /\ Len(l) \in Nat
    BY DEF HuecosBien
  <1>2. PICK m, n : m = Sin(l, k) /\ n = Len(l) - 1
    OBVIOUS
  <1>3. DOMAIN m = 1 .. n
    BY <1>2 DEF Sin
  <1>4. \A j \in 1 .. n : \E i \in 1 .. Len(l) :
          i = (IF j < k THEN j ELSE j + 1) /\ i # k /\ m[j] = l[i]
    BY <1>1, <1>2, EntradasSin
  <1>5. \A i \in 1 .. Len(l) : i # k => l[i].obj # l[k].obj
    BY <1>1 DEF HuecosBien
  <1>6. \A j \in 1 .. n : m[j].obj # l[k].obj
    BY <1>4, <1>5
  <1> QED BY <1>2, <1>3, <1>6

\* The algorithms take the first t bytes of the hole, and nothing else.
LEMMA OcuparBien ==
  ASSUME NEW l, l = listaHuecos, HuecosBien(l), NEW i \in DOMAIN l, NEW t \in Nat,
         l[i].tamanio >= t, NEW r \in Ocupar(i, t)
  PROVE  HuecosBien(r) /\ Cubre(r) = Cubre(l) \ (l[i].base .. l[i].base + t - 1)
  <1>1. l \in Seq(EsHueco) /\ DOMAIN l = 1 .. Len(l) /\ i \in 1 .. Len(l) /\ l[i] \in EsHueco
    BY DEF HuecosBien
  <1>2. PICK o, b, z : o = l[i].obj /\ b = l[i].base /\ z = l[i].tamanio
    OBVIOUS
  <1>3. o \in Nat /\ b \in Nat /\ z \in Nat /\ z >= t
    BY <1>1, <1>2, DeHueco
  <1>4. Bytes(l[i]) = b .. b + z - 1
    BY <1>2 DEF Bytes
  <1>5. HuecosBien(Sin(l, i)) /\ Cubre(Sin(l, i)) = Cubre(l) \ Bytes(l[i])
    BY SinUnHueco
  <1>6. Bytes(l[i]) \subseteq Cubre(l)
    BY DEF Cubre
  <1>7. CASE z > t
    <2>1. PICK c, u : c = b + t /\ u = z - t
      OBVIOUS
    <2>2. c \in Nat /\ u \in Nat
      BY <1>3, <1>7, <2>1
    <2>3. r = Escribir(l, l[i].obj, c, u)
      BY <1>2, <1>7, <2>1 DEF Ocupar
    <2>4. Bytes(Hueco(l[i].obj, c, u)) = c .. c + u - 1
      BY DEF Hueco, Bytes
    <2>5. c .. c + u - 1 \subseteq Bytes(l[i])
      BY <1>3, <1>4, <1>7, <2>1
    <2>6. Bytes(Hueco(l[i].obj, c, u)) \intersect Cubre(Sin(l, i)) = {}
      BY <1>5, <2>4, <2>5
    <2>7. /\ HuecosBien(r) /\ r[i] = Hueco(l[i].obj, c, u)
          /\ Cubre(r) = Cubre(Sin(l, i)) \union Bytes(r[i])
      BY <2>2, <2>3, <2>6, HuecoCambiado
    <2>8. \A x : x \in b .. b + z - 1 <=> x \in b .. b + t - 1 \/ x \in c .. c + u - 1
      BY <1>3, <1>7, <2>1
    <2>9. \A x : ~(x \in b .. b + t - 1 /\ x \in c .. c + u - 1)
      BY <1>3, <2>1, <2>2
    <2>10. Cubre(r) = Cubre(l) \ (b .. b + t - 1)
      BY <1>4, <1>5, <1>6, <2>4, <2>7, <2>8, <2>9
    <2> QED BY <1>2, <2>7, <2>10
  <1>8. CASE ~(z > t)
    <2>1. z = t
      BY <1>3, <1>8
    <2>2. RemoveAt(l, i) = Sin(l, i)
      BY <1>1, QuitarEs
    <2>3. ~(\E j \in DOMAIN Sin(l, i) : Sin(l, i)[j].obj = o)
      <3>1. \A j \in DOMAIN Sin(l, i) : Sin(l, i)[j].obj # l[i].obj
        BY SinObjeto
      <3> QED BY <1>2, <3>1
    <2>4. r = Sin(l, i)
      BY <1>2, <1>8, <2>2, <2>3 DEF Ocupar
    <2> QED BY <1>2, <1>4, <1>5, <2>1, <2>4
  <1> QED BY <1>7, <1>8

LEMMA OcuparTipo ==
  ASSUME NEW l, l = listaHuecos, l \in Seq(EsHueco), NEW i \in DOMAIN l, NEW t \in Nat,
         NEW r \in Ocupar(i, t)
  PROVE  r \in Seq(EsHueco)
  <1>1. i \in 1 .. Len(l) /\ l[i] \in EsHueco
    OBVIOUS
  <1>2. PICK o, b, z : o = l[i].obj /\ b = l[i].base /\ z = l[i].tamanio
    OBVIOUS
  <1>3. o \in Nat /\ b \in Nat /\ z \in Nat
    BY <1>1, <1>2, DeHueco
  <1>4. RemoveAt(l, i) = Sin(l, i) /\ Sin(l, i) \in Seq(EsHueco)
    BY <1>1, QuitarEs
  <1>5. CASE z > t
    <2>1. PICK c \in Nat, u \in Nat : c = b + t /\ u = z - t
      BY <1>3, <1>5
    <2>2. r = Escribir(l, o, c, u)
      BY <1>2, <1>5, <2>1 DEF Ocupar
    <2> QED BY <1>3, <2>2, EscribirTipo
  <1>6. CASE ~(z > t)
    <2>1. r = Sin(l, i) \/ \E g \in Basura : r = Escribir(Sin(l, i), o, g.base, g.tamanio)
      BY <1>2, <1>4, <1>6 DEF Ocupar
    <2>2. ASSUME NEW g \in Basura, r = Escribir(Sin(l, i), o, g.base, g.tamanio)
          PROVE  r \in Seq(EsHueco)
      <3>1. g.base \in Nat /\ g.tamanio \in Nat
        BY MemoriaAssumption
      <3> QED BY <1>3, <1>4, <2>2, <3>1, EscribirTipo
    <2> QED BY <1>4, <2>1, <2>2
  <1> QED BY <1>5, <1>6

-----------------------------------------------------------------------------
(* The inductive invariant, of a list of segments l, a list of holes h, the *)
(* processes V that are alive and M that have ended, and a request q that   *)
(* waits for a compaction, already made if c.                               *)

TipoDe(l, h, V, M, q, c) ==
  /\ l \in Seq(EsSegmento) /\ h \in Seq(EsHueco)
  /\ V \subseteq Procesos /\ M \subseteq Procesos
  /\ q \in EsSegmento /\ c \in BOOLEAN

\* Each segment is of a process that has been initiated, with a number of its own.
IdsDe(l, V, M) ==
  /\ \A i \in DOMAIN l :
       /\ l[i].pid \in V \union M \union {Global}
       /\ l[i].pid # Global => l[i].id \in 1 .. MaxSegmentos
  /\ \A i, j \in DOMAIN l : i # j => l[i].pid # l[j].pid \/ l[i].id # l[j].id
  /\ V \intersect M = {}

\* What is asked for again is a segment that does not exist yet.
PedidoDe(q, c, l, V) ==
  /\ c => q # Nada
  /\ q # Nada => /\ q.pid \in V /\ q.tamanio \in Tamanios /\ q.id \in 1 .. MaxSegmentos
                 /\ \A i \in DOMAIN l : l[i].pid # q.pid \/ l[i].id # q.id

\* While no process has ended, a compaction is asked for only if it is enough: the
\* holes have the bytes, and afterwards the only hole has them.
AlcanzaDe(q, c, h, M) ==
  M = {} /\ q # Nada =>
    IF c THEN Len(h) = 1 /\ h[1].tamanio >= q.tamanio
    ELSE Cardinality(Cubre(h)) >= q.tamanio

\* No byte is twice in the holes, in the segments in use, or in both.
ApartadosDe(l, h, V) ==
  HuecosBien(h) /\ SegmentosBien(l, V) /\ Cubre(h) \intersect Ocupado(l, V) = {}

\* A process that ends with three segments or more leaves two holes that are one.
Sana(M) == MaxSegmentos <= 2 \/ M = {}

InvDe(l, h, V, M, q, c) ==
  /\ TipoDe(l, h, V, M, q, c)
  /\ IdsDe(l, V, M)
  /\ PedidoDe(q, c, l, V)
  /\ AlcanzaDe(q, c, h, M)
  /\ Sana(M) => ApartadosDe(l, h, V)
  /\ M = {} => Cubre(h) \union Ocupado(l, V) = 0 .. TamMemoria - 1

IMemoria == InvDe(listaSegmentos, listaHuecos, vivos, muertos, pendiente, compactada)

LEMMA NadaEs ==
  /\ Nada \in EsSegmento /\ Nada.pid = Global
  /\ segmento_0 \in EsSegmento /\ segmento_0.pid = Global
  /\ segmento_0.base = 0 /\ segmento_0.tamanio = TamSegmento0
  BY MemoriaAssumption DEF Nada, segmento_0, segmentoCrear, EsSegmento

\* The memory as the module starts: segmento_0 and a hole with the rest.
LEMMA InicioMemoria == InitM => IMemoria
  <1>1. SUFFICES ASSUME InitM
                 PROVE  IMemoria
    OBVIOUS
  <1>2. PICK T, z : T = TamSegmento0 /\ z = TamMemoria - TamSegmento0
    OBVIOUS
  <1>3. T \in Nat /\ z \in Nat /\ TamMemoria \in Nat /\ z = TamMemoria - T /\ T >= 1
    BY <1>2, MemoriaAssumption
  <1>4. PICK l, h, x : l = listaSegmentos /\ h = listaHuecos /\ x = Hueco(1, T, z)
    OBVIOUS
  <1>5. l = <<segmento_0>> /\ h = <<x>>
    BY <1>1, <1>2, <1>4 DEF InitM
  <1>6. x \in EsHueco /\ Bytes(x) = T .. T + z - 1
    BY <1>3, <1>4, HuecoEs
  <1>7. HuecosBien(h) /\ Cubre(h) = T .. TamMemoria - 1
    <2>1. T + z - 1 = TamMemoria - 1
      BY <1>3
    <2>2. HuecosBien(<<x>>) /\ Cubre(<<x>>) = Bytes(x)
      BY <1>6, UnHueco
    <2> QED BY <1>5, <1>6, <2>1, <2>2
  <1>8. /\ l \in Seq(EsSegmento) /\ DOMAIN l = 1 .. 1 /\ l[1] = segmento_0
        /\ \A i \in 1 .. 1 : i = 1
    BY <1>5, NadaEs
  <1>9. De(l, {}) = 1 .. 1
    BY <1>8, NadaEs DEF De
  <1>10. SegmentosBien(l, {}) /\ Ocupado(l, {}) = Bytes(segmento_0)
    BY <1>8, <1>9 DEF SegmentosBien, Ocupado
  <1>11. Bytes(segmento_0) = 0 .. T - 1
    <2>1. Bytes(segmento_0) = 0 .. 0 + T - 1 /\ 0 + T - 1 = T - 1
      BY <1>2, <1>3, NadaEs DEF Bytes
    <2> QED BY <2>1
  <1>12. ApartadosDe(l, h, {})
    <2>1. (T .. TamMemoria - 1) \intersect (0 .. T - 1) = {}
      BY <1>3
    <2> QED BY <1>7, <1>10, <1>11, <2>1 DEF ApartadosDe
  <1>13. Cubre(h) \union Ocupado(l, {}) = 0 .. TamMemoria - 1
    BY <1>3, <1>7, <1>10, <1>11
  <1>14. TipoDe(l, h, {}, {}, Nada, FALSE)
    BY <1>7, <1>8, NadaEs DEF TipoDe, HuecosBien
  <1>15. IdsDe(l, {}, {})
    BY <1>8, NadaEs DEF IdsDe
  <1>16. PedidoDe(Nada, FALSE, l, {}) /\ AlcanzaDe(Nada, FALSE, h, {})
    BY DEF PedidoDe, AlcanzaDe
  <1>17. InvDe(l, h, {}, {}, Nada, FALSE)
    BY <1>12, <1>13, <1>14, <1>15, <1>16 DEF InvDe
  <1> QED BY <1>1, <1>4, <1>17 DEF IMemoria, InitM

\* INICIAR_PROCESO: a process with no segments yet.
LEMMA PasoIniciar ==
  ASSUME IMemoria, NEW p \in Procesos, IniciarProceso(p)
  PROVE  IMemoria'
  <1>1. PICK l, h, V, M, q, c :
          /\ l = listaSegmentos /\ h = listaHuecos /\ V = vivos /\ M = muertos
          /\ q = pendiente /\ c = compactada
    OBVIOUS
  <1>2. InvDe(l, h, V, M, q, c)
    BY <1>1 DEF IMemoria
  <1>3. /\ listaSegmentos' = l /\ listaHuecos' = h /\ vivos' = V \union {p} /\ muertos' = M
        /\ pendiente' = q /\ compactada' = c /\ p \notin V \union M
    BY <1>1 DEF IniciarProceso
  <1>4. PICK W : W = V \union {p}
    OBVIOUS
  <1>5. p # Global
    BY MemoriaAssumption
  <1>6. \A i \in DOMAIN l : l[i].pid # p
    BY <1>2, <1>3, <1>5 DEF InvDe, IdsDe
  <1>7. l \in Seq(EsSegmento)
    BY <1>2 DEF InvDe, TipoDe
  <1>8. De(l, W) = De(l, V)
    BY <1>4, <1>6, <1>7, ProcesoNuevo
  <1>9. TipoDe(l, h, W, M, q, c)
    BY <1>2, <1>4 DEF InvDe, TipoDe
  <1>10. IdsDe(l, W, M)
    BY <1>2, <1>3, <1>4 DEF InvDe, IdsDe
  <1>11. PedidoDe(q, c, l, W) /\ AlcanzaDe(q, c, h, M)
    BY <1>2, <1>4 DEF InvDe, PedidoDe
  <1>12. SegmentosBien(l, V) => SegmentosBien(l, W)
    BY <1>8 DEF SegmentosBien
  <1>13. Ocupado(l, W) = Ocupado(l, V)
    BY <1>8 DEF Ocupado
  <1>14. /\ Sana(M) => ApartadosDe(l, h, W)
         /\ M = {} => Cubre(h) \union Ocupado(l, W) = 0 .. TamMemoria - 1
    BY <1>2, <1>12, <1>13 DEF InvDe, ApartadosDe
  <1>15. InvDe(l, h, W, M, q, c)
    BY <1>9, <1>10, <1>11, <1>14 DEF InvDe
  <1> QED BY <1>3, <1>4, <1>15 DEF IMemoria

\* The segments of a process: as many as numbers it has used.
LEMMA DosALoSumo ==
  ASSUME NEW l \in Seq(EsSegmento), NEW V, NEW M, IdsDe(l, V, M), NEW p \in Procesos,
         MaxSegmentos <= 2
  PROVE  Len(Hallados(l, p)) <= 2
  <1>1. PICK b, n : b = Hallados(l, p) /\ n = Len(l)
    OBVIOUS
  <1>2. DOMAIN l = 1 .. n
    BY <1>1
  <1>3. Halla(b, n, l, p)
    BY <1>1, HalladosEs
  <1>4. \A i, j \in 1 .. n : i # j => l[i] # l[j]
    BY <1>2 DEF IdsDe
  <1>5. \A i, j \in 1 .. Len(b) : i # j => b[i] # b[j]
    BY <1>3, <1>4 DEF Halla
  <1>6. b \in Seq(EsSegmento) /\ Len(b) \in Nat
    BY <1>3 DEF Halla
  <1>7. MaxSegmentos \in Nat /\ p # Global
    BY MemoriaAssumption
  <1>8. \A i, j \in 1 .. Len(b) : i # j => b[i].id # b[j].id
    <2>1. ASSUME NEW i \in 1 .. Len(b), NEW j \in 1 .. Len(b), i # j
          PROVE  b[i].id # b[j].id
      <3>1. PICK x \in 1 .. n : b[i] = l[x] /\ l[x].pid = p
        BY <1>3 DEF Halla
      <3>2. PICK y \in 1 .. n : b[j] = l[y] /\ l[y].pid = p
        BY <1>3 DEF Halla
      <3>3. x # y
        BY <1>5, <2>1, <3>1, <3>2
      <3> QED BY <1>2, <3>1, <3>2, <3>3 DEF IdsDe
    <2> QED BY <2>1
  <1>9. \A i \in 1 .. Len(b) : b[i].id = 1 \/ b[i].id = 2
    <2>1. ASSUME NEW i \in 1 .. Len(b)
          PROVE  b[i].id = 1 \/ b[i].id = 2
      <3>1. PICK x \in 1 .. n : b[i] = l[x] /\ l[x].pid = p
        BY <1>3 DEF Halla
      <3>2. b[i].id \in 1 .. MaxSegmentos
        BY <1>2, <1>7, <3>1 DEF IdsDe
      <3> QED BY <1>7, <3>2
    <2> QED BY <2>1
  <1>10. ~(Len(b) >= 3)
    <2>1. SUFFICES ASSUME Len(b) >= 3
                   PROVE  FALSE
      OBVIOUS
    <2>2. 1 \in 1 .. Len(b) /\ 2 \in 1 .. Len(b) /\ 3 \in 1 .. Len(b)
      BY <1>6, <2>1
    <2> QED BY <1>8, <1>9, <2>2
  <1> QED BY <1>1, <1>6, <1>10

\* FINALIZAR_PROCESO: the bytes that are freed were of the process that ends.
LEMMA PasoFinalizar ==
  ASSUME IMemoria, NEW p \in Procesos, FinalizarProceso(p)
  PROVE  IMemoria'
  <1>1. PICK l, h, V, M, q, c :
          /\ l = listaSegmentos /\ h = listaHuecos /\ V = vivos /\ M = muertos
          /\ q = pendiente /\ c = compactada
    OBVIOUS
  <1>2. InvDe(l, h, V, M, q, c)
    BY <1>1 DEF IMemoria
  <1>3. PICK b, e, r, W, N :
          /\ b = Hallados(l, p) /\ e = eliminarProceso(b) /\ r = listaHuecos'
          /\ W = V \ {p} /\ N = M \union {p}
    OBVIOUS
  <1>4. /\ listaSegmentos' = l /\ vivos' = W /\ muertos' = N
        /\ pendiente' = q /\ compactada' = c /\ q = Nada /\ p \in V
        /\ r \in buddySystem(e)
    BY <1>1, <1>3 DEF FinalizarProceso, buscarSegmentoPorPID
  <1>5. l \in Seq(EsSegmento) /\ h \in Seq(EsHueco)
    BY <1>2 DEF InvDe, TipoDe
  <1>6. Halla(b, Len(l), l, p)
    BY <1>3, <1>5, HalladosEs
  <1>7. b \in Seq(EsSegmento)
    BY <1>6 DEF Halla
  <1>8. r \in Seq(EsHueco)
    <2>1. e \in Seq(EsHueco)
      BY <1>1, <1>3, <1>5, <1>7, EliminarTipo
    <2> QED BY <1>4, <2>1, BuddyTipo
  <1>9. TipoDe(l, r, W, N, q, c)
    BY <1>2, <1>3, <1>8 DEF InvDe, TipoDe
  <1>10. IdsDe(l, W, N)
    BY <1>2, <1>3, <1>4 DEF InvDe, IdsDe
  <1>11. PedidoDe(q, c, l, W) /\ AlcanzaDe(q, c, r, N)
    BY <1>2, <1>4 DEF InvDe, PedidoDe, AlcanzaDe
  <1>12. N # {}
    BY <1>3
  <1>13. ASSUME MaxSegmentos <= 2
         PROVE  ApartadosDe(l, r, W)
    <2>1. HuecosBien(h) /\ SegmentosBien(l, V) /\ Cubre(h) \intersect Ocupado(l, V) = {}
      BY <1>2, <1>13 DEF InvDe, Sana, ApartadosDe
    <2>2. W \subseteq V
      BY <1>3
    <2>3. SegmentosBien(l, W) /\ Ocupado(l, W) \subseteq Ocupado(l, V)
      BY <1>5, <2>1, <2>2, MenosProcesos
    <2>4. Len(b) <= 2
      <3>1. IdsDe(l, V, M)
        BY <1>2 DEF InvDe
      <3> QED BY <1>3, <1>5, <1>13, <3>1, DosALoSumo
    <2>5. HuecosBien(e) /\ Cubre(e) \intersect Ocupado(l, W) = {}
      <3>1. \/ Len(b) = 0 /\ e = h
            \/ /\ 1 \in 1 .. Len(b)
               /\ e = Append(h, Hueco(ObjetoNuevo(h), b[1].base, b[1].tamanio))
        BY <1>1, <1>3, <1>5, <1>7, <2>4, EliminarUno
      <3>2. CASE e = h
        BY <2>1, <2>3, <3>2
      <3>3. CASE /\ 1 \in 1 .. Len(b)
                 /\ e = Append(h, Hueco(ObjetoNuevo(h), b[1].base, b[1].tamanio))
        <4>1. PICK x \in 1 .. Len(l) : b[1] = l[x] /\ l[x].pid = p
          BY <1>6, <3>3 DEF Halla
        <4>2. PICK o, s, g : /\ o = ObjetoNuevo(h) /\ s = l[x]
                             /\ g = Hueco(o, s.base, s.tamanio)
          OBVIOUS
        <4>3. s \in EsSegmento /\ x \in De(l, V) /\ x \in DOMAIN l
          BY <1>4, <1>5, <4>1, <4>2 DEF De
        <4>4. s.base \in Nat /\ s.tamanio \in Nat /\ Bytes(s) = s.base .. s.base + s.tamanio - 1
          BY <4>3, SegmentoEs
        <4>5. o \in Nat /\ \A i \in DOMAIN h : h[i].obj # o
          BY <1>5, <4>2, ObjetoEs
        <4>6. g \in EsHueco /\ g.obj = o /\ Bytes(g) = Bytes(s)
          BY <4>2, <4>3, <4>5, HuecoDeSegmento
        <4>7. Bytes(s) \subseteq Ocupado(l, V)
          BY <4>2, <4>3 DEF Ocupado
        <4>8. Bytes(g) \intersect Cubre(h) = {}
          BY <2>1, <4>6, <4>7
        <4>9. HuecosBien(Append(h, g)) /\ Cubre(Append(h, g)) = Cubre(h) \union Bytes(g)
          <5>1. \A i \in DOMAIN h : h[i].obj # g.obj
            BY <4>5, <4>6
          <5> QED BY <2>1, <4>6, <4>8, <5>1, ConOtroHueco
        <4>10. e = Append(h, g)
          BY <3>3, <4>1, <4>2
        <4>11. \A i \in De(l, W) : Bytes(l[i]) \intersect Bytes(s) = {}
          <5>1. ASSUME NEW i \in De(l, W)
                PROVE  Bytes(l[i]) \intersect Bytes(s) = {}
            <6>1. i # x
              <7>1. l[i].pid \in W \union {Global}
                BY DEF De
              <7>2. p # Global
                BY MemoriaAssumption
              <7> QED BY <1>3, <4>1, <7>1, <7>2
            <6>2. i \in De(l, V)
              BY <2>2 DEF De
            <6> QED BY <2>1, <4>2, <4>3, <6>1, <6>2 DEF SegmentosBien, Disjuntos
          <5> QED BY <5>1
        <4>12. Bytes(g) \intersect Ocupado(l, W) = {}
          BY <4>6, <4>11 DEF Ocupado
        <4> QED BY <2>1, <2>3, <4>9, <4>10, <4>12
      <3> QED BY <3>1, <3>2, <3>3
    <2>6. HuecosBien(r) /\ Cubre(r) = Cubre(e)
      BY <1>4, <2>5, BuddyBien
    <2> QED BY <2>3, <2>5, <2>6 DEF ApartadosDe
  <1>14. InvDe(l, r, W, N, q, c)
    BY <1>9, <1>10, <1>11, <1>12, <1>13 DEF InvDe, Sana
  <1> QED BY <1>3, <1>4, <1>14 DEF IMemoria

\* DELETE_SEGMENT: the bytes of the segment pass to a hole.
LEMMA PasoBorrar ==
  ASSUME IMemoria, NEW p \in Procesos, NEW s, DELETE_SEGMENT(p, s)
  PROVE  IMemoria'
  <1>1. PICK l, h, V, M, q, c :
          /\ l = listaSegmentos /\ h = listaHuecos /\ V = vivos /\ M = muertos
          /\ q = pendiente /\ c = compactada
    OBVIOUS
  <1>2. InvDe(l, h, V, M, q, c)
    BY <1>1 DEF IMemoria
  <1>3. PICK b, o, g, r, m :
          /\ b = Hallados(l, p) /\ o = ObjetoNuevo(h) /\ g = Hueco(o, s.base, s.tamanio)
          /\ r = listaHuecos' /\ m = listaSegmentos'
    OBVIOUS
  <1>4. /\ m = RemoveFirst(l, s) /\ vivos' = V /\ muertos' = M
        /\ pendiente' = q /\ compactada' = c /\ q = Nada /\ p \in V
        /\ r \in buddySystem(Append(h, g)) /\ s \in Range(b)
    BY <1>1, <1>3 DEF DELETE_SEGMENT, buscarSegmentoPorPID
  <1>5. l \in Seq(EsSegmento) /\ h \in Seq(EsHueco)
    BY <1>2 DEF InvDe, TipoDe
  <1>6. Halla(b, Len(l), l, p)
    BY <1>3, <1>5, HalladosEs
  <1>7. \E x \in 1 .. Len(l) : l[x] = s /\ l[x].pid = p
    <2>1. b \in Seq(EsSegmento)
      BY <1>6 DEF Halla
    <2>2. PICK i \in 1 .. Len(b) : b[i] = s
      BY <1>4, <2>1 DEF Range
    <2>3. PICK x \in 1 .. Len(l) : b[i] = l[x] /\ l[x].pid = p
      BY <1>6, <2>2 DEF Halla
    <2> QED BY <2>2, <2>3
  <1>8. PICK k \in 1 .. Len(l) : l[k] = s /\ m = Sin(l, k)
    BY <1>4, <1>5, <1>7, QuitarPrimero
  <1>9. s \in EsSegmento /\ s.pid = p /\ k \in De(l, V) /\ k \in DOMAIN l
    BY <1>4, <1>5, <1>7, <1>8 DEF De
  <1>10. s.base \in Nat /\ s.tamanio \in Nat /\ Bytes(s) = s.base .. s.base + s.tamanio - 1
    BY <1>9, SegmentoEs
  <1>11. o \in Nat /\ \A i \in DOMAIN h : h[i].obj # o
    BY <1>3, <1>5, ObjetoEs
  <1>12. g \in EsHueco /\ g.obj = o /\ Bytes(g) = Bytes(s)
    BY <1>3, <1>9, <1>11, HuecoDeSegmento
  <1>13. m \in Seq(EsSegmento)
    BY <1>5, <1>8, QuitarEs
  <1>14. r \in Seq(EsHueco)
    <2>1. Append(h, g) \in Seq(EsHueco)
      BY <1>5, <1>12
    <2> QED BY <1>4, <2>1, BuddyTipo
  <1>15. TipoDe(m, r, V, M, q, c)
    BY <1>2, <1>13, <1>14 DEF InvDe, TipoDe
  <1>16. IdsDe(m, V, M)
    <2>1. PICK n : n = Len(l) - 1
      OBVIOUS
    <2>2. DOMAIN m = 1 .. n /\ DOMAIN l = 1 .. Len(l) /\ Len(l) \in Nat
      BY <1>5, <1>8, <2>1, EntradasSin
    <2>3. \A j \in 1 .. n : \E i \in 1 .. Len(l) :
            i = (IF j < k THEN j ELSE j + 1) /\ i # k /\ m[j] = l[i]
      BY <1>5, <1>8, <2>1, EntradasSin
    <2>4. IdsDe(l, V, M)
      BY <1>2 DEF InvDe
    <2>5. \A j \in 1 .. n : /\ m[j].pid \in V \union M \union {Global}
                            /\ m[j].pid # Global => m[j].id \in 1 .. MaxSegmentos
      BY <2>2, <2>3, <2>4 DEF IdsDe
    <2>6. ASSUME NEW i \in 1 .. n, NEW j \in 1 .. n, i # j
          PROVE  m[i].pid # m[j].pid \/ m[i].id # m[j].id
      <3>1. PICK x \in 1 .. Len(l) : x = (IF i < k THEN i ELSE i + 1) /\ m[i] = l[x]
        BY <2>3
      <3>2. PICK y \in 1 .. Len(l) : y = (IF j < k THEN j ELSE j + 1) /\ m[j] = l[y]
        BY <2>3
      <3>3. x # y
        BY <2>6, <3>1, <3>2
      <3> QED BY <2>2, <2>4, <3>1, <3>2, <3>3 DEF IdsDe
    <2>7. V \intersect M = {}
      BY <2>4 DEF IdsDe
    <2> QED BY <2>2, <2>5, <2>6, <2>7 DEF IdsDe
  <1>17. PedidoDe(q, c, m, V) /\ AlcanzaDe(q, c, r, M)
    BY <1>2, <1>4 DEF InvDe, PedidoDe, AlcanzaDe
  <1>18. ASSUME Sana(M)
         PROVE  ApartadosDe(m, r, V) /\ Cubre(r) \union Ocupado(m, V) = Cubre(h) \union Ocupado(l, V)
    <2>1. HuecosBien(h) /\ SegmentosBien(l, V) /\ Cubre(h) \intersect Ocupado(l, V) = {}
      BY <1>2, <1>18 DEF InvDe, ApartadosDe
    <2>2. SegmentosBien(m, V) /\ Ocupado(m, V) = Ocupado(l, V) \ Bytes(s)
      BY <1>5, <1>8, <1>9, <2>1, SinUnSegmento
    <2>3. Bytes(s) \subseteq Ocupado(l, V)
      BY <1>8, <1>9 DEF Ocupado
    <2>4. HuecosBien(Append(h, g)) /\ Cubre(Append(h, g)) = Cubre(h) \union Bytes(g)
      <3>1. \A i \in DOMAIN h : h[i].obj # g.obj
        BY <1>11, <1>12
      <3>2. Bytes(g) \intersect Cubre(h) = {}
        BY <1>12, <2>1, <2>3
      <3> QED BY <1>12, <2>1, <3>1, <3>2, ConOtroHueco
    <2>5. HuecosBien(r) /\ Cubre(r) = Cubre(h) \union Bytes(s)
      <3>1. PICK a : a = Append(h, g)
        OBVIOUS
      <3>2. HuecosBien(a) /\ r \in buddySystem(a)
        BY <1>4, <2>4, <3>1
      <3>3. HuecosBien(r) /\ Cubre(r) = Cubre(a)
        BY <3>2, BuddyBien
      <3> QED BY <1>12, <2>4, <3>1, <3>3
    <2> QED BY <2>1, <2>2, <2>3, <2>5 DEF ApartadosDe
  <1>19. M = {} => Cubre(r) \union Ocupado(m, V) = 0 .. TamMemoria - 1
    BY <1>2, <1>18 DEF InvDe, Sana
  <1>20. InvDe(m, r, V, M, q, c)
    BY <1>15, <1>16, <1>17, <1>18, <1>19 DEF InvDe
  <1> QED BY <1>3, <1>4, <1>20 DEF IMemoria

\* A segment in the first bytes of a hole: they pass from the hole to it.
LEMMA CreaConLugar ==
  ASSUME NEW l, NEW h, NEW V, NEW M, h = listaHuecos,
         l \in Seq(EsSegmento), h \in Seq(EsHueco), ApartadosDe(l, h, V),
         NEW i \in DOMAIN h, NEW t \in Nat, h[i].tamanio >= t, NEW r \in Ocupar(i, t),
         NEW s \in EsSegmento, s.pid \in V, s.base = h[i].base, s.tamanio = t
  PROVE  /\ ApartadosDe(Append(l, s), r, V)
         /\ Cubre(r) \union Ocupado(Append(l, s), V) = Cubre(h) \union Ocupado(l, V)
  <1>1. HuecosBien(h) /\ SegmentosBien(l, V) /\ Cubre(h) \intersect Ocupado(l, V) = {}
    BY DEF ApartadosDe
  <1>2. HuecosBien(r) /\ Cubre(r) = Cubre(h) \ (h[i].base .. h[i].base + t - 1)
    BY <1>1, OcuparBien
  <1>3. Bytes(s) = h[i].base .. h[i].base + t - 1
    BY DEF Bytes
  <1>4. Bytes(s) \subseteq Cubre(h)
    <2>1. h[i] \in EsHueco
      OBVIOUS
    <2>2. PICK b, z : b = h[i].base /\ z = h[i].tamanio
      OBVIOUS
    <2>3. b \in Nat /\ z \in Nat /\ z >= t
      BY <2>1, <2>2, DeHueco
    <2>4. b .. b + t - 1 \subseteq b .. b + z - 1
      BY <2>3
    <2>5. Bytes(s) \subseteq Bytes(h[i])
      BY <1>3, <2>2, <2>4 DEF Bytes
    <2> QED BY <2>5 DEF Cubre
  <1>5. Bytes(s) \intersect Ocupado(l, V) = {} /\ s.pid \in V \union {Global}
    BY <1>1, <1>4
  <1>6. /\ SegmentosBien(Append(l, s), V)
        /\ Ocupado(Append(l, s), V) = Ocupado(l, V) \union Bytes(s)
    BY <1>1, <1>5, ConOtroSegmento
  <1>7. Cubre(r) = Cubre(h) \ Bytes(s)
    BY <1>2, <1>3
  <1>8. Cubre(r) \intersect Ocupado(Append(l, s), V) = {}
    BY <1>1, <1>6, <1>7
  <1> QED BY <1>2, <1>4, <1>6, <1>7, <1>8 DEF ApartadosDe

\* A segment with a number of its own.
LEMMA ConOtroId ==
  ASSUME NEW l \in Seq(EsSegmento), NEW V, NEW M, IdsDe(l, V, M), NEW s \in EsSegmento,
         s.pid \in V, s.id \in 1 .. MaxSegmentos,
         \A i \in DOMAIN l : l[i].pid # s.pid \/ l[i].id # s.id
  PROVE  IdsDe(Append(l, s), V, M)
  <1>1. Len(l) \in Nat /\ DOMAIN l = 1 .. Len(l)
    OBVIOUS
  <1>2. PICK m, n : m = Append(l, s) /\ n = Len(l) + 1
    OBVIOUS
  <1>3. DOMAIN m = 1 .. n /\ m[n] = s /\ \A i \in 1 .. Len(l) : m[i] = l[i]
    BY <1>1, <1>2
  <1>4. n \in 1 .. n /\ n \notin 1 .. Len(l) /\ \A i : i \in 1 .. n <=> i = n \/ i \in 1 .. Len(l)
    BY <1>1, <1>2
  <1>5. \A i \in 1 .. n : /\ m[i].pid \in V \union M \union {Global}
                          /\ m[i].pid # Global => m[i].id \in 1 .. MaxSegmentos
    BY <1>1, <1>3, <1>4 DEF IdsDe
  <1>6. \A i, j \in 1 .. n : i # j => m[i].pid # m[j].pid \/ m[i].id # m[j].id
    BY <1>1, <1>3, <1>4 DEF IdsDe
  <1>7. V \intersect M = {}
    BY DEF IdsDe
  <1>8. IdsDe(m, V, M)
    BY <1>3, <1>5, <1>6, <1>7 DEF IdsDe
  <1> QED BY <1>2, <1>8

\* CREATE_SEGMENT of a segment that does not exist.
LEMMA PasoCrear ==
  ASSUME IMemoria, NEW p \in vivos, NEW id \in 1 .. MaxSegmentos, NEW t \in Tamanios,
         \A i \in DOMAIN listaSegmentos :
           listaSegmentos[i].pid # p \/ listaSegmentos[i].id # id,
         CREATE_SEGMENT(p, id, t)
  PROVE  IMemoria'
  <1>1. PICK l, h, V, M, q, c :
          /\ l = listaSegmentos /\ h = listaHuecos /\ V = vivos /\ M = muertos
          /\ q = pendiente /\ c = compactada
    OBVIOUS
  <1>2. InvDe(l, h, V, M, q, c)
    BY <1>1 DEF IMemoria
  <1>3. vivos' = V /\ muertos' = M /\ compactada' = FALSE
    BY <1>1 DEF CREATE_SEGMENT
  <1>4. l \in Seq(EsSegmento) /\ h \in Seq(EsHueco) /\ V \subseteq Procesos
    BY <1>2 DEF InvDe, TipoDe
  <1>5. t \in Nat /\ id \in Nat /\ p \in V /\ p \in Procesos /\ p # Global
    BY <1>1, <1>4, MemoriaAssumption
  <1>6. \A i \in DOMAIN l : l[i].pid # p \/ l[i].id # id
    BY <1>1
  <1>7. CASE CrearConLugar(p, id, t)
    <2>1. PICK i \in DOMAIN h : /\ h[i].tamanio >= t /\ listaHuecos' \in Ocupar(i, t)
                                /\ listaSegmentos' = Append(l, segmentoCrear(p, id, h[i].base, t))
      BY <1>1, <1>7 DEF CrearConLugar, Elegible, Cabe
    <2>2. pendiente' = Nada
      BY <1>7 DEF CrearConLugar
    <2>3. PICK s, r, m : s = segmentoCrear(p, id, h[i].base, t) /\ r = listaHuecos' /\ m = Append(l, s)
      OBVIOUS
    <2>4. h[i].base \in Nat
      <3>1. h[i] \in EsHueco
        BY <1>4
      <3> QED BY <3>1, DeHueco
    <2>5. /\ s \in EsSegmento /\ s.pid = p /\ s.id = id /\ s.base = h[i].base /\ s.tamanio = t
      BY <1>5, <2>3, <2>4 DEF segmentoCrear, EsSegmento
    <2>6. r \in Ocupar(i, t)
      BY <2>1, <2>3
    <2>7. r \in Seq(EsHueco)
      BY <1>1, <1>4, <1>5, <2>6, OcuparTipo
    <2>8. m \in Seq(EsSegmento)
      BY <1>4, <2>3, <2>5
    <2>9. TipoDe(m, r, V, M, Nada, FALSE)
      BY <1>2, <2>7, <2>8, NadaEs DEF InvDe, TipoDe
    <2>10. IdsDe(m, V, M)
      <3>1. IdsDe(l, V, M)
        BY <1>2 DEF InvDe
      <3>2. s.pid \in V /\ s.id \in 1 .. MaxSegmentos /\ \A j \in DOMAIN l : l[j].pid # s.pid \/ l[j].id # s.id
        BY <1>5, <1>6, <2>5
      <3> QED BY <1>4, <2>3, <2>5, <3>1, <3>2, ConOtroId
    <2>11. PedidoDe(Nada, FALSE, m, V) /\ AlcanzaDe(Nada, FALSE, r, M)
      BY DEF PedidoDe, AlcanzaDe
    <2>12. ASSUME Sana(M)
           PROVE  /\ ApartadosDe(m, r, V)
                  /\ Cubre(r) \union Ocupado(m, V) = Cubre(h) \union Ocupado(l, V)
      <3>1. ApartadosDe(l, h, V)
        BY <1>2, <2>12 DEF InvDe
      <3>2. h = listaHuecos /\ s.pid \in V
        BY <1>1, <1>5, <2>5
      <3>3. s.base = h[i].base /\ s.tamanio = t /\ s \in EsSegmento /\ h[i].tamanio >= t
        BY <2>1, <2>5
      <3> QED BY <1>4, <1>5, <2>3, <2>6, <3>1, <3>2, <3>3, CreaConLugar
    <2>13. M = {} => Cubre(r) \union Ocupado(m, V) = 0 .. TamMemoria - 1
      BY <1>2, <2>12 DEF InvDe, Sana
    <2>14. InvDe(m, r, V, M, Nada, FALSE)
      BY <2>9, <2>10, <2>11, <2>12, <2>13 DEF InvDe
    <2> QED BY <1>3, <2>1, <2>2, <2>3, <2>14 DEF IMemoria
  <1>8. CASE CrearSinLugar(p, id, t)
    <2>1. listaSegmentos' = l /\ listaHuecos' = h
      BY <1>1, <1>8 DEF CrearSinLugar
    <2>2. PICK s, q2 : s = segmentoCrear(p, id, 0, t) /\ q2 = pendiente'
      OBVIOUS
    <2>3. s \in EsSegmento /\ s.pid = p /\ s.id = id /\ s.tamanio = t
      BY <1>5, <2>2 DEF segmentoCrear, EsSegmento
    <2>4. q2 = Nada \/ (q2 = s /\ comprobar_Creacion_de_Seg(t) = -1)
      <3>1. \/ pendiente' = Nada
            \/ pendiente' = segmentoCrear(p, id, 0, t) /\ comprobar_Creacion_de_Seg(t) = -1
        BY <1>8 DEF CrearSinLugar
      <3> QED BY <2>2, <3>1
    <2>5. TipoDe(l, h, V, M, q2, FALSE)
      BY <1>2, <2>3, <2>4, NadaEs DEF InvDe, TipoDe
    <2>6. IdsDe(l, V, M)
      BY <1>2 DEF InvDe
    <2>7. PedidoDe(q2, FALSE, l, V)
      BY <1>5, <1>6, <2>3, <2>4 DEF PedidoDe
    <2>8. AlcanzaDe(q2, FALSE, h, M)
      <3>1. SUFFICES ASSUME M = {}, q2 # Nada
                     PROVE  Cardinality(Cubre(h)) >= t
        BY <2>3, <2>4 DEF AlcanzaDe
      <3>2. PICK k \in DOMAIN h : EspacioLibre(h)[k] >= t
        <4>1. comprobar_Creacion_de_Seg(t) = -1
          BY <2>4, <3>1
        <4>2. 1 # -1 /\ 0 # -1
          OBVIOUS
        <4> QED BY <1>1, <4>1, <4>2 DEF comprobar_Creacion_de_Seg
      <3>3. HuecosBien(h)
        BY <1>2, <3>1 DEF InvDe, Sana, ApartadosDe
      <3>4. IsFiniteSet(Cubre(h)) /\ EspacioLibre(h)[k] <= Cardinality(Cubre(h))
        BY <3>3, EspacioEsBytes
      <3>5. EspacioLibre(h)[k] \in Nat
        <4>1. \A i \in 1 .. Len(h) : h[i].tamanio \in Nat
          BY <1>4, DeHueco
        <4>2. EspacioLibre(h) \in [0 .. Len(h) -> Nat]
          BY <1>4, <4>1, EspacioLibreEs
        <4>3. k \in 0 .. Len(h)
          BY <1>4
        <4> QED BY <4>2, <4>3
      <3>6. Cardinality(Cubre(h)) \in Nat
        BY <3>4, FS_CardinalityType
      <3> QED BY <1>5, <3>2, <3>4, <3>5, <3>6
    <2>9. InvDe(l, h, V, M, q2, FALSE)
      BY <1>2, <2>5, <2>6, <2>7, <2>8 DEF InvDe
    <2> QED BY <1>3, <2>1, <2>2, <2>9 DEF IMemoria
  <1> QED BY <1>7, <1>8 DEF CREATE_SEGMENT

\* The first time the number is one the process does not use.
LEMMA PasoPedir ==
  ASSUME IMemoria, NEW p \in Procesos, PedirSegmento(p)
  PROVE  IMemoria'
  <1>1. PICK l, h, V, M, q, c :
          /\ l = listaSegmentos /\ h = listaHuecos /\ V = vivos /\ M = muertos
          /\ q = pendiente /\ c = compactada
    OBVIOUS
  <1>2. InvDe(l, h, V, M, q, c)
    BY <1>1 DEF IMemoria
  <1>3. l \in Seq(EsSegmento)
    BY <1>2 DEF InvDe, TipoDe
  <1>4. PICK b : b = Hallados(l, p)
    OBVIOUS
  <1>5. PICK id \in (1 .. MaxSegmentos) \ {s.id : s \in Range(b)}, t \in Tamanios :
          CREATE_SEGMENT(p, id, t)
    BY <1>1, <1>4 DEF PedirSegmento, buscarSegmentoPorPID
  <1>6. p \in vivos
    BY DEF PedirSegmento
  <1>7. ASSUME NEW i \in DOMAIN l
        PROVE  l[i].pid # p \/ l[i].id # id
    <2>1. SUFFICES ASSUME l[i].pid = p
                   PROVE  l[i].id # id
      OBVIOUS
    <2>2. Halla(b, Len(l), l, p)
      BY <1>3, <1>4, HalladosEs
    <2>3. i \in 1 .. Len(l)
      BY <1>3
    <2>4. PICK j \in 1 .. Len(b) : b[j] = l[i]
      BY <2>1, <2>2, <2>3 DEF Halla
    <2>5. b \in Seq(EsSegmento)
      BY <2>2 DEF Halla
    <2>6. l[i] \in Range(b)
      BY <2>4, <2>5 DEF Range
    <2> QED BY <1>5, <2>6
  <1>8. id \in 1 .. MaxSegmentos /\ t \in Tamanios
    BY <1>5
  <1> QED BY <1>1, <1>5, <1>6, <1>7, <1>8, PasoCrear

\* After the compaction it is the one that was asked for.
LEMMA PasoDeNuevo ==
  ASSUME IMemoria, PedirDeNuevo
  PROVE  IMemoria'
  <1>1. PICK p, id, t : p = pendiente.pid /\ id = pendiente.id /\ t = pendiente.tamanio
    OBVIOUS
  <1>2. CREATE_SEGMENT(p, id, t) /\ pendiente # Nada
    BY <1>1 DEF PedirDeNuevo
  <1>3. /\ p \in vivos /\ t \in Tamanios /\ id \in 1 .. MaxSegmentos
        /\ \A i \in DOMAIN listaSegmentos :
             listaSegmentos[i].pid # p \/ listaSegmentos[i].id # id
    BY <1>1, <1>2 DEF IMemoria, InvDe, PedidoDe
  <1> QED BY <1>2, <1>3, PasoCrear

\* EMPEZA_A_COMPACTAR: what the holes had is in the only one that is left.
LEMMA PasoCompactar ==
  ASSUME IMemoria, EMPEZA_A_COMPACTAR
  PROVE  IMemoria'
  <1>1. PICK l, h, V, M, q, c :
          /\ l = listaSegmentos /\ h = listaHuecos /\ V = vivos /\ M = muertos
          /\ q = pendiente /\ c = compactada
    OBVIOUS
  <1>2. InvDe(l, h, V, M, q, c)
    BY <1>1 DEF IMemoria
  <1>3. l \in Seq(EsSegmento) /\ h \in Seq(EsHueco)
    BY <1>2 DEF InvDe, TipoDe
  <1>4. /\ vivos' = V /\ muertos' = M /\ pendiente' = q /\ compactada' = TRUE
        /\ c = FALSE /\ q # Nada
    BY <1>1, <1>2 DEF EMPEZA_A_COMPACTAR, InvDe, TipoDe
  <1>5. PICK m \in EnOrdenDeBase(l) :
          listaSegmentos' = Rebasados(m) /\ listaHuecos' = <<HuecoNuevo(1, m)>>
    BY <1>1 DEF EMPEZA_A_COMPACTAR, compactar
  <1>6. PICK n, d, a, g, r : /\ n = Len(l) /\ d = Desplazamiento(m) /\ a = Rebasados(m)
                             /\ g = HuecoNuevo(1, m) /\ r = <<HuecoNuevo(1, m)>>
    OBVIOUS
  <1>7. m \in Seq(EsSegmento) /\ Len(m) = Len(l) /\ \E o : Reordena(m, l, o)
    BY <1>3, OrdenadaEs
  <1>8. g \in EsHueco
    BY <1>6, <1>7, HuecoNuevoEs
  <1>9. r \in Seq(EsHueco) /\ Len(r) = 1 /\ r[1] = g
    BY <1>6, <1>8
  <1>10. Seguidos(a, m, d, n)
    <2>1. Seguidos(Rebasados(m), m, Desplazamiento(m), Len(m))
      BY <1>7, RebasadosEs
    <2> QED BY <1>6, <1>7, <2>1
  <1>11. TipoDe(a, r, V, M, q, TRUE)
    <2>1. a \in Seq(EsSegmento)
      BY <1>10 DEF Seguidos
    <2> QED BY <1>2, <1>9, <2>1 DEF InvDe, TipoDe
  <1>12. DOMAIN a = 1 .. n /\ DOMAIN l = 1 .. n
    BY <1>3, <1>6, <1>10 DEF Seguidos
  <1>13. PICK o : Reordena(m, l, o)
    BY <1>7
  <1>14. /\ \A i \in 1 .. n : a[i].pid = l[o[i]].pid /\ a[i].id = l[o[i]].id /\ o[i] \in 1 .. n
         /\ \A i, j \in 1 .. n : i # j => o[i] # o[j]
    <2>1. /\ \A i \in 1 .. n : m[i] = l[o[i]] /\ o[i] \in 1 .. n
          /\ \A i, j \in 1 .. n : i # j => o[i] # o[j]
      BY <1>6, <1>13 DEF Reordena
    <2>2. \A i \in 1 .. n : a[i].pid = m[i].pid /\ a[i].id = m[i].id
      BY <1>10 DEF Seguidos
    <2> QED BY <2>1, <2>2
  <1>15. IdsDe(a, V, M)
    <2>1. IdsDe(l, V, M)
      BY <1>2 DEF InvDe
    <2>2. \A i \in 1 .. n : /\ a[i].pid \in V \union M \union {Global}
                            /\ a[i].pid # Global => a[i].id \in 1 .. MaxSegmentos
      BY <1>12, <1>14, <2>1 DEF IdsDe
    <2>3. ASSUME NEW i \in 1 .. n, NEW j \in 1 .. n, i # j
          PROVE  a[i].pid # a[j].pid \/ a[i].id # a[j].id
      <3>1. o[i] \in DOMAIN l /\ o[j] \in DOMAIN l /\ o[i] # o[j]
        BY <1>12, <1>14, <2>3
      <3>2. l[o[i]].pid # l[o[j]].pid \/ l[o[i]].id # l[o[j]].id
        BY <2>1, <3>1 DEF IdsDe
      <3> QED BY <1>14, <3>2
    <2>4. V \intersect M = {}
      BY <2>1 DEF IdsDe
    <2> QED BY <1>12, <2>2, <2>3, <2>4 DEF IdsDe
  <1>16. PedidoDe(q, TRUE, a, V)
    <2>1. PedidoDe(q, c, l, V)
      BY <1>2 DEF InvDe
    <2>2. \A i \in 1 .. n : a[i].pid # q.pid \/ a[i].id # q.id
      <3>1. \A j \in 1 .. n : l[j].pid # q.pid \/ l[j].id # q.id
        BY <1>4, <1>12, <2>1 DEF PedidoDe
      <3> QED BY <1>14, <3>1
    <2> QED BY <1>4, <1>12, <2>1, <2>2 DEF PedidoDe
  <1>17. ApartadosDe(a, r, V)
    <2>1. /\ SegmentosBien(Rebasados(m), V)
          /\ HuecosBien(<<HuecoNuevo(1, m)>>)
          /\ Cubre(<<HuecoNuevo(1, m)>>) \intersect Ocupado(Rebasados(m), V) = {}
      BY <1>7, CompactarBien
    <2> QED BY <1>6, <2>1 DEF ApartadosDe
  <1>18. ASSUME M = {}
         PROVE  g.tamanio = Cardinality(Cubre(h)) /\ Cubre(r) \union Ocupado(a, V) = 0 .. TamMemoria - 1
    <2>1. PICK C : C = Cubre(h)
      OBVIOUS
    <2>2. ApartadosDe(l, h, V) /\ C \union Ocupado(l, V) = 0 .. TamMemoria - 1
      BY <1>2, <1>18, <2>1 DEF InvDe, Sana
    <2>3. SegmentosBien(l, V) /\ C \intersect Ocupado(l, V) = {} /\ IsFiniteSet(C)
      <3>1. HuecosBien(h) /\ SegmentosBien(l, V) /\ Cubre(h) \intersect Ocupado(l, V) = {}
        BY <2>2 DEF ApartadosDe
      <3>2. IsFiniteSet(Cubre(h))
        BY <3>1, EspacioEsBytes
      <3> QED BY <2>1, <3>1, <3>2
    <2>4. \A i \in DOMAIN l : l[i].pid \in V \union {Global}
      BY <1>2, <1>18 DEF InvDe, IdsDe
    <2>5. 1 \in Nat
      OBVIOUS
    <2>6. /\ HuecoNuevo(1, m).tamanio = Cardinality(C)
          /\ Cubre(<<HuecoNuevo(1, m)>>) \union Ocupado(Rebasados(m), V) = 0 .. TamMemoria - 1
      BY <1>3, <2>2, <2>3, <2>4, <2>5, CompactarLlena
    <2> QED BY <1>6, <2>1, <2>6
  <1>19. AlcanzaDe(q, TRUE, r, M)
    <2>1. AlcanzaDe(q, c, h, M)
      BY <1>2 DEF InvDe
    <2>2. M = {} => Cardinality(Cubre(h)) >= q.tamanio
      BY <1>4, <2>1 DEF AlcanzaDe
    <2>3. M = {} => Len(r) = 1 /\ r[1].tamanio >= q.tamanio
      BY <1>9, <1>18, <2>2
    <2> QED BY <2>3 DEF AlcanzaDe
  <1>20. InvDe(a, r, V, M, q, TRUE)
    BY <1>11, <1>15, <1>16, <1>17, <1>18, <1>19 DEF InvDe
  <1> QED BY <1>4, <1>5, <1>6, <1>20 DEF IMemoria

LEMMA SinCambiosMemoria ==
  ASSUME IMemoria, UNCHANGED varsM
  PROVE  IMemoria'
  BY DEF IMemoria, varsM

\* A request leaves the invariant.
LEMMA PasoMemoria ==
  ASSUME IMemoria, NextM
  PROVE  IMemoria'
  <1>1. CASE \E p \in Procesos : IniciarProceso(p) \/ FinalizarProceso(p) \/ PedirSegmento(p)
    BY <1>1, PasoIniciar, PasoFinalizar, PasoPedir
  <1>2. CASE \E p \in Procesos : \E s \in Range(listaSegmentos) : DELETE_SEGMENT(p, s)
    BY <1>2, PasoBorrar
  <1>3. CASE PedirDeNuevo
    BY <1>3, PasoDeNuevo
  <1>4. CASE EMPEZA_A_COMPACTAR
    BY <1>4, PasoCompactar
  <1> QED BY <1>1, <1>2, <1>3, <1>4 DEF NextM

\* The inductive invariant: types, identities, what the request under way may
\* count on, and where segments and holes lie.
THEOREM InvarianteMemoria == SpecM => []IMemoria
  <1>1. IMemoria /\ [NextM]_varsM => IMemoria'
    BY PasoMemoria, SinCambiosMemoria
  <1> QED BY InicioMemoria, <1>1, PTL DEF SpecM

-----------------------------------------------------------------------------
(* What the invariant says of the properties.                              *)

LEMMA TipoMemoria == IMemoria => TypeOKM
  BY DEF IMemoria, InvDe, TipoDe, EsSegmento, EsHueco, TypeOKM

\* The lists and the sets of the properties are the same.
LEMMA EnUsoEs ==
  ASSUME listaSegmentos \in Seq(EsSegmento), listaHuecos \in Seq(EsHueco)
  PROVE  /\ \A s : s \in EnUso <=> \E i \in De(listaSegmentos, vivos) : s = listaSegmentos[i]
         /\ UNION {Bytes(s) : s \in EnUso} = Ocupado(listaSegmentos, vivos)
         /\ BytesLibres = Cubre(listaHuecos)
  <1>1. PICK l, V, h : l = listaSegmentos /\ V = vivos /\ h = listaHuecos
    OBVIOUS
  <1>2. \A s : s \in EnUso <=> \E i \in De(l, V) : s = l[i]
    <2>1. \A s : s \in Segmentos <=> \E i \in DOMAIN l : s = l[i]
      BY <1>1 DEF Segmentos, Range
    <2> QED BY <1>1, <2>1 DEF EnUso, De
  <1>3. UNION {Bytes(s) : s \in EnUso} = Ocupado(l, V)
    BY <1>2 DEF Ocupado
  <1>4. BytesLibres = Cubre(h)
    <2>1. \A x : x \in Huecos <=> \E i \in DOMAIN h : x = h[i]
      BY <1>1 DEF Huecos, Range
    <2> QED BY <2>1 DEF BytesLibres, Cubre
  <1> QED BY <1>1, <1>2, <1>3, <1>4

LEMMA SegmentosApartados ==
  ASSUME listaSegmentos \in Seq(EsSegmento), listaHuecos \in Seq(EsHueco),
         ApartadosDe(listaSegmentos, listaHuecos, vivos)
  PROVE  SegmentosDisjuntos
  <1>1. PICK l, V : l = listaSegmentos /\ V = vivos
    OBVIOUS
  <1>2. SUFFICES ASSUME NEW i \in DOMAIN l, NEW j \in DOMAIN l,
                        {l[i], l[j]} \subseteq EnUso, i # j
                 PROVE  Disjuntos(l[i], l[j])
    BY <1>1 DEF SegmentosDisjuntos
  <1>3. i \in De(l, V) /\ j \in De(l, V)
    BY <1>1, <1>2 DEF De, EnUso
  <1>4. SegmentosBien(l, V)
    BY <1>1 DEF ApartadosDe
  <1> QED BY <1>2, <1>3, <1>4 DEF SegmentosBien

LEMMA HuecosApartados ==
  ASSUME listaSegmentos \in Seq(EsSegmento), listaHuecos \in Seq(EsHueco),
         ApartadosDe(listaSegmentos, listaHuecos, vivos)
  PROVE  HuecosLibres
  <1>1. PICK l, V, h : l = listaSegmentos /\ V = vivos /\ h = listaHuecos
    OBVIOUS
  <1>2. HuecosBien(h) /\ Cubre(h) \intersect Ocupado(l, V) = {}
    BY <1>1 DEF ApartadosDe
  <1>3. ASSUME NEW i \in DOMAIN h
        PROVE  /\ \A s \in EnUso : Disjuntos(h[i], s)
               /\ \A j \in DOMAIN h : i # j => Disjuntos(h[i], h[j])
    <2>1. Bytes(h[i]) \subseteq Cubre(h)
      BY DEF Cubre
    <2>2. \A s \in EnUso : Bytes(s) \subseteq Ocupado(l, V)
      BY <1>1, EnUsoEs
    <2>3. \A s \in EnUso : Disjuntos(h[i], s)
      BY <1>2, <2>1, <2>2 DEF Disjuntos
    <2> QED BY <1>2, <2>3 DEF HuecosBien
  <1> QED BY <1>1, <1>3 DEF HuecosLibres

\* Every base, size and number of the two lists is a natural, whatever the script
\* does and however many segments a process has.
THEOREM TiposDeMemoria == SpecM => []TypeOKM
  BY InvarianteMemoria, TipoMemoria, PTL

\* With two segments at most for each process, two segments in use never share a
\* byte, whatever the algorithm, the sizes and the order of the requests.
THEOREM SegmentosSinSolaparse ==
  ASSUME MaxSegmentos <= 2
  PROVE  SpecM => []SegmentosDisjuntos
  <1>1. IMemoria => SegmentosDisjuntos
    BY SegmentosApartados DEF IMemoria, InvDe, TipoDe, Sana
  <1> QED BY InvarianteMemoria, <1>1, PTL

\* Nor does a hole cover a byte of a segment in use or of another hole.
THEOREM HuecosSinSolaparse ==
  ASSUME MaxSegmentos <= 2
  PROVE  SpecM => []HuecosLibres
  <1>1. IMemoria => HuecosLibres
    BY HuecosApartados DEF IMemoria, InvDe, TipoDe, Sana
  <1> QED BY InvarianteMemoria, <1>1, PTL

\* However many segments the processes have, both hold until one of them ends.
THEOREM SinSolaparseMientrasViven ==
  SpecM => [](muertos = {} => SegmentosDisjuntos /\ HuecosLibres)
  <1>1. IMemoria => (muertos = {} => SegmentosDisjuntos /\ HuecosLibres)
    BY SegmentosApartados, HuecosApartados DEF IMemoria, InvDe, TipoDe, Sana
  <1> QED BY InvarianteMemoria, <1>1, PTL

\* Until a process ends every byte of the memory is in a segment or in a hole.
THEOREM NingunByteSePierde == SpecM => []BytesConservados
  <1>1. IMemoria => BytesConservados
    BY EnUsoEs DEF IMemoria, InvDe, TipoDe, BytesConservados
  <1> QED BY InvarianteMemoria, <1>1, PTL

\* Until a process ends the segment asked for again after a compaction is created.
THEOREM LaCompactacionAlcanza == SpecM => CompactarAlcanza
  <1>1. ASSUME IMemoria, NextM, compactada, muertos = {}, ~compactada'
        PROVE  respuesta' = "BASE"
    <2>1. pendiente # Nada
      BY <1>1 DEF IMemoria, InvDe, PedidoDe
    <2>2. PedirDeNuevo
      BY <1>1, <2>1 DEF NextM, IniciarProceso, FinalizarProceso, PedirSegmento,
                        DELETE_SEGMENT, EMPEZA_A_COMPACTAR
    <2>3. PICK t : t = pendiente.tamanio
      OBVIOUS
    <2>4. Len(listaHuecos) = 1 /\ listaHuecos[1].tamanio >= t
      BY <1>1, <2>1, <2>3 DEF IMemoria, InvDe, AlcanzaDe
    <2>5. listaHuecos \in Seq(EsHueco)
      BY <1>1 DEF IMemoria, InvDe, TipoDe
    <2>6. 1 \in Cabe(t)
      BY <2>4, <2>5 DEF Cabe
    <2>7. comprobar_Creacion_de_Seg(t) = 1
      BY <2>6 DEF comprobar_Creacion_de_Seg
    <2>8. CREATE_SEGMENT(pendiente.pid, pendiente.id, t)
      BY <2>2, <2>3 DEF PedirDeNuevo
    <2>9. ~CrearSinLugar(pendiente.pid, pendiente.id, t)
      <3>1. 1 # 0 /\ 1 # -1
        OBVIOUS
      <3> QED BY <2>7, <3>1 DEF CrearSinLugar
    <2> QED BY <2>8, <2>9 DEF CREATE_SEGMENT, CrearConLugar
  <1>2. IMemoria /\ [NextM]_varsM =>
          [compactada /\ muertos = {} /\ ~compactada' => respuesta' = "BASE"]_varsM
    BY <1>1
  <1> QED BY InvarianteMemoria, <1>2, PTL DEF SpecM, CompactarAlcanza
=============================================================================

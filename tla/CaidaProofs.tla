---------------------------- MODULE CaidaProofs -----------------------------
(***************************************************************************)
(* Proofs about the truncations store by store, with deaths and restarts   *)
(* (module BloquesCaida), for any files, sizes of block and numbers of     *)
(* blocks, requests and deaths.                                            *)
(*                                                                         *)
(* While a request is under way the file on disk says less than the truth: *)
(* it holds blocks its FCB does not name yet, or no longer names.  ICaida  *)
(* is about the places the request has filled or not emptied yet (EnJuego) *)
(* and what is in them (Toma), wherever that is kept at the moment: in the *)
(* FCB in memory, in the list of new pointers or in the block of pointers. *)
(* EnDisco says what of it the disk has.                                   *)
(*                                                                         *)
(* The last part proves that the stores of a request add up to the one     *)
(* step module Bloques takes: IVista follows a request from the disk it    *)
(* found (previo) through the blocks it has taken, or has still to clear.  *)
(***************************************************************************)
EXTENDS BloquesCaida, BloquesProofs, SequenceTheorems, FiniteSetTheorems,
        WellFoundedInduction

-----------------------------------------------------------------------------
(* The lowest free block.                                                  *)

\* get_free_block gives a free block, or -1.
LEMMA MasBajoEs == MasBajo \in Libres \union {SinBloque}
  <1>1. CASE Libres = {}
    BY <1>1 DEF MasBajo
  <1>2. CASE Libres # {}
    <2>1. Libres \in SUBSET Nat
      BY BloquesAssumption DEF Libres, Bloques
    <2>2. \E b \in Libres : \A c \in Libres : b <= c
      BY <1>2, <2>1, Minimo
    <2>3. MasBajo = CHOOSE b \in Libres : \A c \in Libres : b <= c
      BY <1>2 DEF MasBajo
    <2> QED BY <2>2, <2>3
  <1> QED BY <1>1, <1>2

LEMMA BloqueTomado ==
  ASSUME NEW b, TomarBloque(b), TypeOKB
  PROVE  /\ b \in Bloques \union {SinBloque}
         /\ b # SinBloque => b \notin bitmap /\ b \in bitmap'
         /\ bitmap \subseteq bitmap' /\ bitmap' \subseteq Bloques
         /\ UNCHANGED <<FCB, punteros>>
  <1>1. b \in Libres \union {SinBloque}
    BY MasBajoEs DEF TomarBloque
  <1> QED BY <1>1 DEF TomarBloque, Libres, TypeOKB

-----------------------------------------------------------------------------
(* The inductive invariant.                                                *)

Valores == Bloques \union {SinBloque}

Crecen == {"directo", "indirecto", "guardar_indirecto", "datos", "punteros", "guardar"}
Achican == {"guardar_tam", "limpiar_directo", "leer", "limpiar_datos",
            "limpiar_indirecto", "fin"}

\* The steps of a reduction once the new size is saved.
GuardaYa == Achican \ {"guardar_tam"}

\* The blocks of pointers begin after this place of the file: the first that
\* asignar_bloques adds to a file of n blocks, or that liberar_bloques takes
\* from one left with n.
Base(n) == IF n = 0 THEN 1 ELSE n

FCB_(t, d, i) == [tam |-> t, directo |-> d, indirecto |-> i]
EsFCB == [tam : Nat, directo : Valores, indirecto : Valores]

Peticion_(q, f, a, c, k, l) ==
  [paso |-> q, f |-> f, tam_ant |-> a, fcb |-> c, faltan |-> k, lista |-> l]

EsPeticion ==
  /\ peticion = Peticion_(peticion.paso, peticion.f, peticion.tam_ant, peticion.fcb,
                          peticion.faltan, peticion.lista)
  /\ peticion.paso \in Crecen \union Achican
  /\ peticion.f \in existe
  /\ peticion.tam_ant \in Nat
  /\ peticion.fcb \in EsFCB
  /\ peticion.faltan \in 0 .. BLOCK_SIZE + 1
  /\ peticion.lista \in Seq(Valores)
  /\ Antes <= BLOCK_SIZE + 1 /\ Total <= BLOCK_SIZE + 1

\* How far a growth has come.
CuentaCrece ==
  peticion.paso \in Crecen =>
    /\ peticion.tam_ant < peticion.fcb.tam
    /\ peticion.paso = "directo" =>
         Antes = 0 /\ peticion.lista = <<>> /\ peticion.faltan = Total
    /\ peticion.paso \in {"indirecto", "guardar_indirecto"} =>
         Antes <= 1 /\ Total > 1 /\ peticion.lista = <<>> /\ peticion.faltan = Total - 1
    /\ peticion.paso = "datos" =>
         /\ Total > 1 /\ peticion.faltan > 0
         /\ Base(Antes) + Len(peticion.lista) + peticion.faltan = Total
    /\ peticion.paso = "punteros" =>
         Total > 1 /\ Base(Antes) + Len(peticion.lista) = Total
    /\ peticion.paso = "guardar" => (Total > 1 => peticion.fcb.indirecto # SinBloque)

\* The places of the file that the request has filled, or may still empty.
EnJuego ==
  IF peticion.paso = "directo" THEN {}
  ELSE IF peticion.paso = "indirecto" THEN {1}
  ELSE IF peticion.paso = "guardar_indirecto" THEN {0, 1}
  ELSE IF peticion.paso = "datos" THEN 0 .. Base(Antes) + Len(peticion.lista)
  ELSE IF peticion.paso \in {"punteros", "guardar"} THEN Sitios(Total)
  ELSE Sitios(Antes)

\* And the block in each.
Toma(i) ==
  IF i = 0 THEN peticion.fcb.indirecto
  ELSE IF i = 1 THEN peticion.fcb.directo
  ELSE IF peticion.paso \in {"datos", "punteros"} /\ i > Base(Antes)
       THEN peticion.lista[i - Base(Antes)]
       ELSE punteros[peticion.fcb.indirecto][i - 2]

\* How far a reduction has come: what is still to be cleared are blocks that the
\* file had and will not have.
CuentaAchica ==
  peticion.paso \in Achican =>
    /\ peticion.fcb.tam < peticion.tam_ant
    /\ peticion.paso \in {"guardar_tam", "limpiar_directo"} =>
         peticion.faltan = Antes - Total
    /\ peticion.paso = "limpiar_directo" => Total = 0
    /\ peticion.paso = "leer" => Antes > 1 /\ peticion.faltan = Antes - Base(Total)
    /\ peticion.paso \in {"limpiar_datos", "limpiar_indirecto"} => Antes > 1
    /\ peticion.paso = "limpiar_indirecto" => Total <= 1
    /\ peticion.paso = "limpiar_datos" =>
         /\ peticion.lista # <<>>
         /\ \A k \in DOMAIN peticion.lista :
              \E i \in Base(Total) + 1 .. Antes : peticion.lista[k] = Toma(i)

\* What the disk has of the file, against the request.
EnDisco ==
  LET f == peticion.f IN
  \/ /\ peticion.paso \in Crecen \union {"guardar_tam"}
     /\ FCB[f].tam = peticion.tam_ant
     /\ \A i \in Sitios(Antes) : i \in EnJuego /\ Toma(i) = BloqueEn(f, i)
  \/ /\ peticion.paso \in {"datos", "punteros", "guardar"} \union GuardaYa
     /\ FCB[f] = peticion.fcb

PeticionBien ==
  \/ peticion = Ninguna
  \/ /\ EsPeticion /\ CuentaCrece /\ CuentaAchica /\ EnDisco
     /\ Antes > 1 => peticion.fcb.indirecto # SinBloque

EnCurso(g) == peticion.paso # "libre" /\ peticion.f = g

LugaresDe(g) == IF EnCurso(g) THEN EnJuego ELSE Lugares(g)
Tiene(g, i) == IF EnCurso(g) THEN Toma(i) ELSE BloqueEn(g, i)

\* The places whose block must have its bit set.
Seguros(g) == IF EnCurso(g) /\ peticion.paso \in GuardaYa THEN Sitios(Total)
              ELSE LugaresDe(g)

Separados ==
  \A g, h \in Archivos : \A i \in LugaresDe(g), j \in LugaresDe(h) :
    Tiene(g, i) = Tiene(h, j) /\ Tiene(g, i) # SinBloque => g = h /\ i = j

Marcados ==
  \A g \in Archivos : \A i \in Seguros(g) :
    Tiene(g, i) # SinBloque => Tiene(g, i) \in bitmap

\* A file of two blocks or more has its block of pointers.
LosDemas ==
  \A g \in Archivos :
    ~EnCurso(g) /\ Ocupa(FCB[g].tam) > 1 => FCB[g].indirecto # SinBloque

TiposC ==
  /\ TypeOKB /\ Acotados /\ SinCrearVacios
  /\ pedidos \in 0 .. MaxPedidos /\ caidas \in 0 .. MaxCaidas /\ rotos \subseteq Archivos

\* Nothing is asked of the disk once a request died between its two saves, and
\* nothing is done with it.
ICaida ==
  /\ TiposC
  /\ rotos # {} => peticion = Ninguna
  /\ rotos = {} => PeticionBien /\ Separados /\ Marcados /\ LosDemas

-----------------------------------------------------------------------------
(* The record of the request.                                              *)

\* The request goes on with its next step q, its FCB c, k blocks to go and list l.
Queda(q, c, k, l) ==
  peticion' = Peticion_(q, peticion.f, peticion.tam_ant, c, k, l)

LEMMA CamposDe ==
  ASSUME NEW q, NEW f, NEW a, NEW c, NEW k, NEW l
  PROVE  LET p == Peticion_(q, f, a, c, k, l) IN
         /\ p.paso = q /\ p.f = f /\ p.tam_ant = a /\ p.fcb = c /\ p.faltan = k
         /\ p.lista = l
         /\ p # Ninguna
  <1>1. DOMAIN Ninguna = {"paso"}
    BY DEF Ninguna
  <1>2. "f" \in DOMAIN Peticion_(q, f, a, c, k, l)
    BY DEF Peticion_
  <1>3. Peticion_(q, f, a, c, k, l) # Ninguna
    BY <1>1, <1>2
  <1> QED BY <1>3 DEF Peticion_

LEMMA CamposQueda ==
  ASSUME NEW q, NEW c, NEW k, NEW l, Queda(q, c, k, l)
  PROVE  /\ peticion'.paso = q /\ peticion'.f = peticion.f
         /\ peticion'.tam_ant = peticion.tam_ant /\ peticion'.fcb = c
         /\ peticion'.faltan = k /\ peticion'.lista = l
         /\ peticion' = Peticion_(peticion'.paso, peticion'.f, peticion'.tam_ant,
                                  peticion'.fcb, peticion'.faltan, peticion'.lista)
         /\ Antes' = Antes /\ Total' = Ocupa(c.tam)
         /\ peticion' # Ninguna
  <1>1. /\ peticion'.paso = q /\ peticion'.f = peticion.f
        /\ peticion'.tam_ant = peticion.tam_ant /\ peticion'.fcb = c
        /\ peticion'.faltan = k /\ peticion'.lista = l /\ peticion' # Ninguna
    BY CamposDe DEF Queda
  <1>2. Antes' = Antes /\ Total' = Ocupa(c.tam)
    BY <1>1 DEF Antes, Total, Ocupa
  <1> QED BY <1>1, <1>2 DEF Queda

LEMMA CambiosDeFCB ==
  ASSUME NEW c \in EsFCB, NEW b
  PROVE  /\ [c EXCEPT !.directo = b] = FCB_(c.tam, b, c.indirecto)
         /\ [c EXCEPT !.indirecto = b] = FCB_(c.tam, c.directo, b)
  BY DEF EsFCB, FCB_

\* The changes the steps make to it.
ConPaso(p, r) == [p EXCEPT !.paso = r]
ConLista(p, l) == [p EXCEPT !.lista = l]
UnoMenos(p) == [p EXCEPT !.faltan = @ - 1]
SinElPrimero(p) == [p EXCEPT !.lista = Tail(@)]
ConOtro(p, b) == [p EXCEPT !.lista = Append(@, b), !.faltan = @ - 1]
ConDirecto(p, b) == [p EXCEPT !.fcb.directo = b, !.faltan = @ - 1]
ConIndirectos(p, b) == [p EXCEPT !.fcb.indirecto = b]

ConFaltan(p, k) == [p EXCEPT !.faltan = k]
ConFCB(p, c) == [p EXCEPT !.fcb = c]

LEMMA CambiosDePeticion ==
  ASSUME NEW q, NEW f, NEW a, NEW c \in EsFCB, NEW k, NEW l, NEW r, NEW b, NEW m
  PROVE  LET p == Peticion_(q, f, a, c, k, l) IN
         /\ ConPaso(p, r) = Peticion_(r, f, a, c, k, l)
         /\ UnoMenos(p) = Peticion_(q, f, a, c, k - 1, l)
         /\ ConLista(p, m) = Peticion_(q, f, a, c, k, m)
         /\ SinElPrimero(p) = Peticion_(q, f, a, c, k, Tail(l))
         /\ ConOtro(p, b)
              = Peticion_(q, f, a, c, k - 1, Append(l, b))
         /\ ConDirecto(p, b)
              = Peticion_(q, f, a, FCB_(c.tam, b, c.indirecto), k - 1, l)
         /\ ConIndirectos(p, b)
              = Peticion_(q, f, a, FCB_(c.tam, c.directo, b), k, l)
  <1>1. /\ [c EXCEPT !.directo = b] = FCB_(c.tam, b, c.indirecto)
        /\ [c EXCEPT !.indirecto = b] = FCB_(c.tam, c.directo, b)
    BY CambiosDeFCB
  <1> DEFINE p == Peticion_(q, f, a, c, k, l)
             l1 == Append(l, b)
             l2 == Tail(l)
             k1 == k - 1
             c1 == [c EXCEPT !.directo = b]
             c2 == [c EXCEPT !.indirecto = b]
  <1>2. /\ p.lista = l /\ p.faltan = k /\ p.fcb = c
    BY CamposDe
  <1> HIDE DEF l1, l2, k1, c1, c2
  <1>10. [p EXCEPT !.paso = r] = Peticion_(r, f, a, c, k, l)
    BY DEF Peticion_
  <1>11. [p EXCEPT !.faltan = k1] = Peticion_(q, f, a, c, k1, l)
    BY DEF Peticion_
  <1>12. [p EXCEPT !.lista = m] = Peticion_(q, f, a, c, k, m)
    BY DEF Peticion_
  <1>13. [p EXCEPT !.lista = l2] = Peticion_(q, f, a, c, k, l2)
    BY DEF Peticion_
  <1>14. [p EXCEPT !.lista = l1, !.faltan = k1] = Peticion_(q, f, a, c, k1, l1)
    <2>1. [p EXCEPT !.lista = l1, !.faltan = k1] = ConFaltan(ConLista(p, l1), k1)
      BY DEF ConLista, ConFaltan
    <2>2. ConLista(p, l1) = Peticion_(q, f, a, c, k, l1)
      BY DEF ConLista, Peticion_
    <2>3. ConFaltan(Peticion_(q, f, a, c, k, l1), k1) = Peticion_(q, f, a, c, k1, l1)
      BY DEF ConFaltan, Peticion_
    <2> QED BY <2>1, <2>2, <2>3
  <1>15. [p EXCEPT !.fcb = c1, !.faltan = k1] = Peticion_(q, f, a, c1, k1, l)
    <2>1. [p EXCEPT !.fcb = c1, !.faltan = k1] = ConFaltan(ConFCB(p, c1), k1)
      BY DEF ConFCB, ConFaltan
    <2>2. ConFCB(p, c1) = Peticion_(q, f, a, c1, k, l)
      BY DEF ConFCB, Peticion_
    <2>3. ConFaltan(Peticion_(q, f, a, c1, k, l), k1) = Peticion_(q, f, a, c1, k1, l)
      BY DEF ConFaltan, Peticion_
    <2> QED BY <2>1, <2>2, <2>3
  <1>16. [p EXCEPT !.fcb = c2] = Peticion_(q, f, a, c2, k, l)
    BY DEF Peticion_
  <1>4. /\ [p EXCEPT !.faltan = @ - 1] = [p EXCEPT !.faltan = k1]
        /\ [p EXCEPT !.lista = Tail(@)] = [p EXCEPT !.lista = l2]
        /\ [p EXCEPT !.lista = Append(@, b), !.faltan = @ - 1]
             = [p EXCEPT !.lista = l1, !.faltan = k1]
        /\ [p EXCEPT !.fcb.directo = b, !.faltan = @ - 1]
             = [p EXCEPT !.fcb = c1, !.faltan = k1]
        /\ [p EXCEPT !.fcb.indirecto = b] = [p EXCEPT !.fcb = c2]
    BY <1>2 DEF l1, l2, k1, c1, c2
  <1> QED BY <1>1, <1>10, <1>11, <1>12, <1>13, <1>14, <1>15, <1>16, <1>4
    DEF l1, l2, k1, c1, c2, ConPaso, ConLista, UnoMenos, SinElPrimero, ConOtro,
        ConDirecto, ConIndirectos

\* The request as it is, and a change of it followed by its next step.
LEMMA PeticionEs ==
  ASSUME EsPeticion, NEW b, NEW m
  PROVE  LET q == peticion.paso
             f == peticion.f
             a == peticion.tam_ant
             c == peticion.fcb
             k == peticion.faltan
             l == peticion.lista IN
         /\ peticion = Peticion_(q, f, a, c, k, l)
         /\ UnoMenos(peticion) = Peticion_(q, f, a, c, k - 1, l)
         /\ ConLista(peticion, m) = Peticion_(q, f, a, c, k, m)
         /\ SinElPrimero(peticion) = Peticion_(q, f, a, c, k, Tail(l))
         /\ ConOtro(peticion, b)
              = Peticion_(q, f, a, c, k - 1, Append(l, b))
         /\ ConDirecto(peticion, b)
              = Peticion_(q, f, a, FCB_(c.tam, b, c.indirecto), k - 1, l)
         /\ ConIndirectos(peticion, b)
              = Peticion_(q, f, a, FCB_(c.tam, c.directo, b), k, l)
  <1> DEFINE q == peticion.paso
             f == peticion.f
             a == peticion.tam_ant
             c == peticion.fcb
             k == peticion.faltan
             l == peticion.lista
  <1>1. peticion = Peticion_(q, f, a, c, k, l) /\ c \in EsFCB
    BY DEF EsPeticion
  <1> HIDE DEF q, f, a, c, k, l
  <1>2. LET p == Peticion_(q, f, a, c, k, l) IN
         /\ UnoMenos(p) = Peticion_(q, f, a, c, k - 1, l)
         /\ ConLista(p, m) = Peticion_(q, f, a, c, k, m)
         /\ SinElPrimero(p) = Peticion_(q, f, a, c, k, Tail(l))
         /\ ConOtro(p, b)
              = Peticion_(q, f, a, c, k - 1, Append(l, b))
         /\ ConDirecto(p, b)
              = Peticion_(q, f, a, FCB_(c.tam, b, c.indirecto), k - 1, l)
         /\ ConIndirectos(p, b)
              = Peticion_(q, f, a, FCB_(c.tam, c.directo, b), k, l)
    BY <1>1, CambiosDePeticion
  <1>3. /\ peticion = Peticion_(q, f, a, c, k, l)
        /\ UnoMenos(peticion) = Peticion_(q, f, a, c, k - 1, l)
        /\ ConLista(peticion, m) = Peticion_(q, f, a, c, k, m)
        /\ SinElPrimero(peticion) = Peticion_(q, f, a, c, k, Tail(l))
        /\ ConOtro(peticion, b)
              = Peticion_(q, f, a, c, k - 1, Append(l, b))
        /\ ConDirecto(peticion, b)
              = Peticion_(q, f, a, FCB_(c.tam, b, c.indirecto), k - 1, l)
        /\ ConIndirectos(peticion, b)
              = Peticion_(q, f, a, FCB_(c.tam, c.directo, b), k, l)
    BY <1>1, <1>2
  <1> QED BY <1>3 DEF q, f, a, c, k, l

LEMMA FCBEs ==
  ASSUME NEW c \in EsFCB, NEW b \in Valores
  PROVE  /\ FCB_(c.tam, b, c.indirecto) \in EsFCB
         /\ FCB_(c.tam, c.directo, b) \in EsFCB
         /\ FCB_(c.tam, b, c.indirecto).tam = c.tam
         /\ FCB_(c.tam, b, c.indirecto).directo = b
         /\ FCB_(c.tam, b, c.indirecto).indirecto = c.indirecto
         /\ FCB_(c.tam, c.directo, b).tam = c.tam
         /\ FCB_(c.tam, c.directo, b).directo = c.directo
         /\ FCB_(c.tam, c.directo, b).indirecto = b
  BY DEF EsFCB, FCB_

LEMMA IrQueda ==
  ASSUME NEW x, NEW q, NEW c \in EsFCB, NEW k, NEW l, NEW p,
         p = Peticion_(x, peticion.f, peticion.tam_ant, c, k, l), Ir(p, q)
  PROVE  Queda(q, c, k, l)
  <1> DEFINE f == peticion.f
             a == peticion.tam_ant
  <1>1. peticion' = ConPaso(p, q)
    BY DEF Ir, ConPaso
  <1> HIDE DEF f, a
  <1>2. ConPaso(Peticion_(x, f, a, c, k, l), q) = Peticion_(q, f, a, c, k, l)
    BY DEF ConPaso, Peticion_
  <1>3. peticion' = Peticion_(q, f, a, c, k, l)
    BY <1>1, <1>2 DEF f, a
  <1> QED BY <1>3 DEF Queda, f, a

-----------------------------------------------------------------------------
(* The steps, field by field.                                              *)

\* Where asignar_bloques goes with k blocks to go, the block of pointers there.
Sigue(k) == IF Total > 1 /\ k > 0 THEN "datos" ELSE "guardar"

LEMMA AsignarDirectoHace ==
  ASSUME EsPeticion, AsignarDirecto
  PROVE  \E b \in Valores :
           /\ TomarBloque(b)
           /\ Queda(IF Total > 1 /\ peticion.tam_ant <= BLOCK_SIZE THEN "indirecto"
                    ELSE Sigue(peticion.faltan - 1),
                    FCB_(peticion.fcb.tam, b, peticion.fcb.indirecto),
                    peticion.faltan - 1, peticion.lista)
  <1>1. PICK b \in Valores :
          LET p == [peticion EXCEPT !.fcb.directo = b, !.faltan = @ - 1] IN
          TomarBloque(b) /\ Ir(p, TrasDirecto(p))
    BY DEF AsignarDirecto, Valores
  <1> DEFINE p == [peticion EXCEPT !.fcb.directo = b, !.faltan = @ - 1]
             c == FCB_(peticion.fcb.tam, b, peticion.fcb.indirecto)
             k == peticion.faltan - 1
  <1>2. p = Peticion_(peticion.paso, peticion.f, peticion.tam_ant, c, k, peticion.lista)
    BY PeticionEs DEF ConDirecto
  <1>3. TomarBloque(b) /\ Ir(p, TrasDirecto(p))
    BY <1>1
  <1>4. c \in EsFCB /\ c.tam = peticion.fcb.tam
    BY FCBEs DEF EsPeticion
  <1> HIDE DEF p, c, k
  <1>5. Queda(TrasDirecto(p), c, k, peticion.lista)
    BY <1>2, <1>3, <1>4, IrQueda
  <1>6. p.fcb.tam = peticion.fcb.tam /\ p.faltan = k /\ p.tam_ant = peticion.tam_ant
    BY <1>2, <1>4, CamposDe
  <1>7. TrasDirecto(p) = IF Total > 1 /\ peticion.tam_ant <= BLOCK_SIZE THEN "indirecto"
                         ELSE Sigue(k)
    BY <1>6 DEF TrasDirecto, TrasIndirecto, Total, Sigue
  <1> QED BY <1>3, <1>5, <1>7 DEF c, k

LEMMA AsignarIndirectoHace ==
  ASSUME EsPeticion, AsignarIndirecto
  PROVE  \E b \in Valores :
           /\ TomarBloque(b)
           /\ Queda("guardar_indirecto",
                    FCB_(peticion.fcb.tam, peticion.fcb.directo, b),
                    peticion.faltan, peticion.lista)
  <1>1. PICK b \in Valores :
          TomarBloque(b) /\ Ir([peticion EXCEPT !.fcb.indirecto = b], "guardar_indirecto")
    BY DEF AsignarIndirecto, Valores
  <1> DEFINE p == [peticion EXCEPT !.fcb.indirecto = b]
             c == FCB_(peticion.fcb.tam, peticion.fcb.directo, b)
  <1>2. p = Peticion_(peticion.paso, peticion.f, peticion.tam_ant, c, peticion.faltan,
                      peticion.lista)
    BY PeticionEs DEF ConIndirectos
  <1>3. TomarBloque(b) /\ Ir(p, "guardar_indirecto")
    BY <1>1
  <1>4. c \in EsFCB
    BY FCBEs DEF EsPeticion
  <1> HIDE DEF p, c
  <1>5. Queda("guardar_indirecto", c, peticion.faltan, peticion.lista)
    BY <1>2, <1>3, <1>4, IrQueda
  <1> QED BY <1>3, <1>5 DEF c

\* A step that changes only where the request is.
LEMMA SoloElPaso ==
  ASSUME EsPeticion, NEW q, Ir(peticion, q)
  PROVE  Queda(q, peticion.fcb, peticion.faltan, peticion.lista)
  BY PeticionEs, IrQueda DEF EsPeticion

LEMMA GuardarIndirectoHace ==
  ASSUME EsPeticion, GuardarIndirecto
  PROVE  /\ actualizar_FCB
         /\ Queda(Sigue(peticion.faltan), peticion.fcb, peticion.faltan, peticion.lista)
  BY SoloElPaso DEF GuardarIndirecto, TrasIndirecto, Total, Sigue

LEMMA AsignarDatoHace ==
  ASSUME EsPeticion, AsignarDato
  PROVE  \E b \in Valores :
           /\ TomarBloque(b)
           /\ Queda(IF peticion.faltan - 1 > 0 THEN "datos" ELSE "punteros", peticion.fcb,
                    peticion.faltan - 1, Append(peticion.lista, b))
  <1>1. PICK b \in Valores :
          LET p == [peticion EXCEPT !.lista = Append(@, b), !.faltan = @ - 1] IN
          TomarBloque(b) /\ Ir(p, IF p.faltan > 0 THEN "datos" ELSE "punteros")
    BY DEF AsignarDato, Valores
  <1> DEFINE p == [peticion EXCEPT !.lista = Append(@, b), !.faltan = @ - 1]
             l == Append(peticion.lista, b)
             k == peticion.faltan - 1
  <1>2. p = Peticion_(peticion.paso, peticion.f, peticion.tam_ant, peticion.fcb, k, l)
    BY PeticionEs DEF ConOtro
  <1>3. TomarBloque(b) /\ Ir(p, IF p.faltan > 0 THEN "datos" ELSE "punteros")
    BY <1>1
  <1> HIDE DEF p, l, k
  <1>4. p.faltan = k
    BY <1>2, CamposDe
  <1>5. Queda(IF k > 0 THEN "datos" ELSE "punteros", peticion.fcb, k, l)
    BY <1>2, <1>3, <1>4, IrQueda DEF EsPeticion
  <1> QED BY <1>3, <1>5 DEF k, l

LEMMA GuardarTamanioHace ==
  ASSUME EsPeticion, GuardarTamanio
  PROVE  /\ actualizar_FCB
         /\ Queda(IF Total = 0 THEN "limpiar_directo"
                  ELSE IF Antes > 1 THEN "leer" ELSE "fin",
                  peticion.fcb, peticion.faltan, peticion.lista)
  BY SoloElPaso DEF GuardarTamanio, TrasLimpiarDirecto, Antes

LEMMA LimpiarDirectoHace ==
  ASSUME EsPeticion, LimpiarDirecto
  PROVE  /\ Limpiar(peticion.fcb.directo)
         /\ Queda(IF Antes > 1 THEN "leer" ELSE "fin", peticion.fcb,
                  peticion.faltan - 1, peticion.lista)
  <1> DEFINE p == [peticion EXCEPT !.faltan = @ - 1]
  <1>1. p = Peticion_(peticion.paso, peticion.f, peticion.tam_ant, peticion.fcb,
                      peticion.faltan - 1, peticion.lista)
    BY PeticionEs DEF UnoMenos
  <1>2. Limpiar(peticion.fcb.directo) /\ Ir(p, IF Antes > 1 THEN "leer" ELSE "fin")
    BY DEF LimpiarDirecto, TrasLimpiarDirecto, Antes
  <1> HIDE DEF p
  <1> QED BY <1>1, <1>2, IrQueda DEF EsPeticion

TrasDatos == IF Total <= 1 THEN "limpiar_indirecto" ELSE "fin"

LEMMA LeerPunterosHace ==
  ASSUME EsPeticion, LeerPunteros
  PROVE  \/ /\ peticion.faltan > 0 /\ peticion.fcb.indirecto # SinBloque
            /\ Queda("limpiar_datos", peticion.fcb, peticion.faltan,
                     [k \in 1 .. peticion.faltan |->
                        punteros[peticion.fcb.indirecto][Antes - 1 - peticion.faltan + k - 1]])
         \/ /\ peticion.faltan = 0
            /\ Queda(TrasDatos, peticion.fcb, peticion.faltan, peticion.lista)
  <1> DEFINE l == [k \in 1 .. peticion.faltan |->
                     punteros[peticion.fcb.indirecto][Antes - 1 - peticion.faltan + k - 1]]
             p == [peticion EXCEPT !.lista = l]
  <1>1. \/ /\ peticion.faltan > 0 /\ peticion.fcb.indirecto # SinBloque
           /\ Ir(p, "limpiar_datos")
        \/ peticion.faltan = 0 /\ Ir(peticion, TrasDatos)
    BY DEF LeerPunteros, TrasLimpiarDatos, TrasDatos, Total
  <1> HIDE DEF l
  <1>2. p = Peticion_(peticion.paso, peticion.f, peticion.tam_ant, peticion.fcb,
                      peticion.faltan, l)
    BY PeticionEs DEF ConLista
  <1> HIDE DEF p
  <1>3. Ir(p, "limpiar_datos")
          => Queda("limpiar_datos", peticion.fcb, peticion.faltan, l)
    BY <1>2, IrQueda DEF EsPeticion
  <1> QED BY <1>1, <1>3, SoloElPaso DEF l

LEMMA LimpiarDatoHace ==
  ASSUME EsPeticion, LimpiarDato
  PROVE  /\ Limpiar(Head(peticion.lista))
         /\ Queda(IF Tail(peticion.lista) = <<>> THEN TrasDatos ELSE "limpiar_datos",
                  peticion.fcb, peticion.faltan, Tail(peticion.lista))
  <1> DEFINE p == [peticion EXCEPT !.lista = Tail(@)]
             l == Tail(peticion.lista)
  <1>1. p = Peticion_(peticion.paso, peticion.f, peticion.tam_ant, peticion.fcb,
                      peticion.faltan, l)
    BY PeticionEs DEF SinElPrimero
  <1>2. Limpiar(Head(peticion.lista))
        /\ Ir(p, IF p.lista = <<>> THEN TrasLimpiarDatos(p) ELSE "limpiar_datos")
    BY DEF LimpiarDato
  <1> HIDE DEF p, l
  <1>3. p.lista = l /\ TrasLimpiarDatos(p) = TrasDatos
    BY <1>1, CamposDe DEF TrasLimpiarDatos, TrasDatos, Total
  <1>4. Queda(IF l = <<>> THEN TrasDatos ELSE "limpiar_datos", peticion.fcb,
              peticion.faltan, l)
    BY <1>1, <1>2, <1>3, IrQueda DEF EsPeticion
  <1> QED BY <1>2, <1>4 DEF l

-----------------------------------------------------------------------------
(* What the files hold, before and after a step.                           *)

\* A request is under way and all is well.
Cursa ==
  /\ TiposC /\ rotos = {}
  /\ EsPeticion /\ CuentaCrece /\ CuentaAchica /\ EnDisco
  /\ Antes > 1 => peticion.fcb.indirecto # SinBloque
  /\ Separados /\ Marcados /\ LosDemas

LEMMA CursaEs ==
  ASSUME ICaida, rotos = {}, peticion # Ninguna
  PROVE  Cursa
  BY DEF ICaida, PeticionBien, Cursa

LEMMA Pasos == ~("libre" \in Crecen \union Achican)
  BY DEF Crecen, Achican

LEMMA Tamanos ==
  ASSUME TypeOKB, EsPeticion
  PROVE  /\ peticion.f \in Archivos /\ peticion.paso # "libre"
         /\ peticion.fcb \in EsFCB
         /\ peticion.tam_ant \in Nat /\ peticion.fcb.tam \in Nat
         /\ peticion.fcb.directo \in Valores /\ peticion.fcb.indirecto \in Valores
         /\ FCB[peticion.f] \in EsFCB /\ FCB[peticion.f].tam \in Nat
         /\ Antes \in Nat /\ Total \in Nat
         /\ Antes <= BLOCK_SIZE + 1 /\ Total <= BLOCK_SIZE + 1
         /\ Base(Antes) \in Nat \ {0} /\ Antes <= Base(Antes)
         /\ Base(Total) \in Nat \ {0} /\ Total <= Base(Total)
         /\ peticion.tam_ant <= peticion.fcb.tam => Antes <= Total
         /\ peticion.fcb.tam <= peticion.tam_ant => Total <= Antes
         /\ Antes = 0 <=> peticion.tam_ant = 0
         /\ Total = 0 <=> peticion.fcb.tam = 0
         /\ Antes <= 1 <=> peticion.tam_ant <= BLOCK_SIZE
  <1>1. /\ peticion.f \in Archivos /\ peticion.paso # "libre"
        /\ peticion.fcb \in EsFCB /\ peticion.tam_ant \in Nat
        /\ Antes <= BLOCK_SIZE + 1 /\ Total <= BLOCK_SIZE + 1
    BY Pasos DEF EsPeticion, TypeOKB
  <1>2. /\ peticion.fcb.tam \in Nat
        /\ peticion.fcb.directo \in Valores /\ peticion.fcb.indirecto \in Valores
    BY <1>1 DEF EsFCB
  <1>3. FCB[peticion.f] \in EsFCB /\ FCB[peticion.f].tam \in Nat
    BY <1>1 DEF TypeOKB, EsFCB, Valores
  <1>4. Antes \in Nat /\ Total \in Nat
    BY <1>1, <1>2, OcupaEs DEF Antes, Total
  <1>5. /\ peticion.tam_ant <= peticion.fcb.tam => Antes <= Total
        /\ peticion.fcb.tam <= peticion.tam_ant => Total <= Antes
    BY <1>1, <1>2, OcupaCrece DEF Antes, Total
  <1>6. /\ Antes = 0 <=> peticion.tam_ant = 0
        /\ Total = 0 <=> peticion.fcb.tam = 0
        /\ Antes <= 1 <=> peticion.tam_ant <= BLOCK_SIZE
    BY <1>1, <1>2, OcupaCasos DEF Antes, Total
  <1>7. /\ Base(Antes) \in Nat \ {0} /\ Antes <= Base(Antes)
        /\ Base(Total) \in Nat \ {0} /\ Total <= Base(Total)
    BY <1>4 DEF Base
  <1> QED BY <1>1, <1>2, <1>3, <1>4, <1>5, <1>6, <1>7

\* A step fills at most the place z of the file f, with a block b nobody had, and
\* clears no bit that must be set.
LEMMA Vista ==
  ASSUME Separados, Marcados, NEW f \in Archivos, NEW z, NEW b,
         \A g \in Archivos : \A i \in LugaresDe(g)' :
           \/ i \in LugaresDe(g) /\ Tiene(g, i)' = Tiene(g, i)
           \/ g = f /\ i = z /\ Tiene(g, i)' = b,
         b # SinBloque =>
           b \in bitmap' /\ \A g \in Archivos : \A i \in LugaresDe(g) : Tiene(g, i) # b,
         \A g \in Archivos : \A i \in Seguros(g)' :
           \/ /\ i \in Seguros(g) /\ Tiene(g, i)' = Tiene(g, i)
              /\ Tiene(g, i) \in bitmap => Tiene(g, i) \in bitmap'
           \/ Tiene(g, i)' = b
  PROVE  Separados' /\ Marcados'
  <1>1. Separados'
    <2> SUFFICES ASSUME NEW g \in Archivos, NEW h \in Archivos,
                        NEW i \in LugaresDe(g)', NEW j \in LugaresDe(h)',
                        Tiene(g, i)' = Tiene(h, j)', Tiene(g, i)' # SinBloque
                 PROVE  g = h /\ i = j
      BY DEF Separados
    <2>1. \/ i \in LugaresDe(g) /\ Tiene(g, i)' = Tiene(g, i)
          \/ g = f /\ i = z /\ Tiene(g, i)' = b
      OBVIOUS
    <2>2. \/ j \in LugaresDe(h) /\ Tiene(h, j)' = Tiene(h, j)
          \/ h = f /\ j = z /\ Tiene(h, j)' = b
      OBVIOUS
    <2> QED BY <2>1, <2>2 DEF Separados
  <1>2. Marcados'
    BY DEF Marcados
  <1> QED BY <1>1, <1>2

\* What a step does to the files that are not of the request.
Ajeno ==
  \A g \in Archivos : g # peticion.f =>
    /\ FCB'[g] = FCB[g]
    /\ Lugares(g)' = Lugares(g)
    /\ \A i \in Lugares(g) : BloqueEn(g, i)' = BloqueEn(g, i)

LEMMA SonAjenos ==
  ASSUME Cursa,
         \A g \in Archivos : g # peticion.f => FCB'[g] = FCB[g],
         \/ punteros' = punteros
         \/ /\ 0 \in EnJuego /\ peticion.fcb.indirecto # SinBloque
            /\ \A b : b # peticion.fcb.indirecto => punteros'[b] = punteros[b]
  PROVE  Ajeno
  <1> SUFFICES ASSUME NEW g \in Archivos, g # peticion.f
               PROVE  /\ Lugares(g)' = Lugares(g)
                      /\ \A i \in Lugares(g) : BloqueEn(g, i)' = BloqueEn(g, i)
    BY DEF Ajeno
  <1>1. FCB'[g] = FCB[g] /\ FCB[g].tam \in Nat /\ peticion.f \in Archivos
        /\ peticion.paso # "libre"
    BY Tamanos DEF Cursa, TiposC, TypeOKB
  <1>2. Lugares(g)' = Lugares(g)
    BY <1>1, LugaresSon
  <1>3. ASSUME NEW i \in Lugares(g)
        PROVE  BloqueEn(g, i)' = BloqueEn(g, i)
    <2>1. CASE i \in {0, 1}
      BY <1>1, <2>1, LugaresSon
    <2>2. CASE i \notin {0, 1}
      <3> DEFINE n == Ocupa(FCB[g].tam)
      <3>1. n \in Nat /\ Lugares(g) = Sitios(n)
        BY <1>1, OcupaEs, LugaresSon
      <3> HIDE DEF n
      <3>2. n > 1 /\ 0 \in Lugares(g)
        BY <2>2, <3>1, SitiosSon
      <3>3. ~EnCurso(g)
        BY DEF EnCurso
      <3>4. FCB[g].indirecto # SinBloque
        BY <3>2, <3>3 DEF n, Cursa, LosDemas
      <3>5. ASSUME 0 \in EnJuego, FCB[g].indirecto = peticion.fcb.indirecto
            PROVE  FALSE
        <4>1. EnCurso(peticion.f)
          BY <1>1 DEF EnCurso
        <4>2. 0 \in LugaresDe(peticion.f) /\ Tiene(peticion.f, 0) = peticion.fcb.indirecto
          BY <4>1, <3>5 DEF LugaresDe, Tiene, Toma
        <4>3. 0 \in LugaresDe(g) /\ Tiene(g, 0) = FCB[g].indirecto
          BY <3>2, <3>3, LugaresSon DEF LugaresDe, Tiene
        <4>4. g = peticion.f
          BY <4>2, <4>3, <3>4, <3>5, <1>1 DEF Cursa, Separados
        <4> QED BY <4>4
      <3>6. punteros'[FCB[g].indirecto] = punteros[FCB[g].indirecto]
        BY <3>5
      <3> QED BY <1>1, <2>2, <3>6, LugaresSon
    <2> QED BY <2>1, <2>2
  <1> QED BY <1>2, <1>3

\* Of a request under way, its file apart.
LEMMA DeUno ==
  ASSUME NEW g
  PROVE  /\ ~EnCurso(g) => /\ LugaresDe(g) = Lugares(g) /\ Seguros(g) = Lugares(g)
                           /\ \A i : Tiene(g, i) = BloqueEn(g, i)
         /\ EnCurso(g) => /\ LugaresDe(g) = EnJuego
                          /\ Seguros(g) = IF peticion.paso \in GuardaYa THEN Sitios(Total)
                                          ELSE EnJuego
                          /\ \A i : Tiene(g, i) = Toma(i)
         /\ (~EnCurso(g))' => /\ LugaresDe(g)' = Lugares(g)' /\ Seguros(g)' = Lugares(g)'
                              /\ \A i : Tiene(g, i)' = BloqueEn(g, i)'
         /\ EnCurso(g)' => /\ LugaresDe(g)' = EnJuego'
                           /\ Seguros(g)' = IF peticion'.paso \in GuardaYa
                                            THEN Sitios(Total)' ELSE EnJuego'
                           /\ \A i : Tiene(g, i)' = Toma(i)'
  BY DEF LugaresDe, Seguros, Tiene

LEMMA LosDemasSon ==
  /\ LosDemas => \A g \in Archivos :
       ~EnCurso(g) /\ Ocupa(FCB[g].tam) > 1 => FCB[g].indirecto # SinBloque
  /\ (\A g \in Archivos :
        (~EnCurso(g))' /\ Ocupa(FCB'[g].tam) > 1 => FCB'[g].indirecto # SinBloque)
     => LosDemas'
  BY DEF LosDemas, Ocupa

\* A step that goes on with the request and clears no bit.  The places of the
\* other files are theirs already.
LEMMA VistaSigue ==
  ASSUME Cursa, Ajeno, EsPeticion', NEW f, f = peticion.f, peticion'.f = f,
         NEW z, NEW b,
         \A i \in EnJuego' : \/ i \in EnJuego /\ Toma(i)' = Toma(i)
                             \/ i = z /\ Toma(i)' = b,
         b # SinBloque => b \notin bitmap /\ b \in bitmap' /\ peticion.paso \in Crecen,
         \A i \in Seguros(f)' : i \in EnJuego' /\
           ((i \in Seguros(f) /\ Toma(i)' = Toma(i)) \/ Toma(i)' = b),
         \A g \in Archivos : \A i \in Seguros(g) :
           Tiene(g, i) \in bitmap => Tiene(g, i) \in bitmap'
  PROVE  Separados' /\ Marcados' /\ LosDemas'
  <1>1. f \in Archivos /\ EnCurso(f) /\ EnCurso(f)'
        /\ \A g \in Archivos : g # f => ~EnCurso(g) /\ (~EnCurso(g))'
    BY Tamanos, Pasos DEF Cursa, TiposC, EnCurso, EsPeticion
  <1>2. ASSUME NEW g \in Archivos, g # f
        PROVE  /\ LugaresDe(g) = Lugares(g) /\ Seguros(g) = Lugares(g)
               /\ LugaresDe(g)' = Lugares(g) /\ Seguros(g)' = Lugares(g)
               /\ \A i \in Lugares(g) : Tiene(g, i)' = Tiene(g, i)
    BY <1>1, <1>2, DeUno DEF Ajeno
  <1>3. /\ LugaresDe(f) = EnJuego /\ LugaresDe(f)' = EnJuego'
        /\ \A i : Tiene(f, i) = Toma(i) /\ Tiene(f, i)' = Toma(i)'
    BY <1>1, DeUno
  <1>4. \A g \in Archivos : \A i \in LugaresDe(g)' :
           \/ i \in LugaresDe(g) /\ Tiene(g, i)' = Tiene(g, i)
           \/ g = f /\ i = z /\ Tiene(g, i)' = b
    BY <1>2, <1>3
  <1>5. ASSUME b # SinBloque
        PROVE  b \in bitmap' /\ \A g \in Archivos : \A i \in LugaresDe(g) : Tiene(g, i) # b
    <2>1. ~(peticion.paso \in GuardaYa)
      BY <1>5 DEF Crecen, GuardaYa, Achican
    <2>2. \A g \in Archivos : Seguros(g) = LugaresDe(g)
      BY <2>1 DEF Seguros
    <2> QED BY <1>5, <2>2 DEF Cursa, Marcados
  <1>6. \A g \in Archivos : \A i \in Seguros(g)' :
           \/ /\ i \in Seguros(g) /\ Tiene(g, i)' = Tiene(g, i)
              /\ Tiene(g, i) \in bitmap => Tiene(g, i) \in bitmap'
           \/ Tiene(g, i)' = b
    BY <1>2, <1>3
  <1>7. Separados' /\ Marcados'
    BY <1>1, <1>4, <1>5, <1>6, Vista DEF Cursa
  <1>8. LosDemas'
    BY <1>1, LosDemasSon DEF Cursa, Ajeno
  <1> QED BY <1>7, <1>8

\* A step that ends the request and changes no bit.
LEMMA VistaTermina ==
  ASSUME Cursa, Ajeno, NEW f, f = peticion.f, peticion' = Ninguna, bitmap' = bitmap,
         \A i \in Lugares(f)' :
           i \in EnJuego /\ i \in Seguros(f) /\ BloqueEn(f, i)' = Toma(i),
         Ocupa(FCB'[f].tam) > 1 => FCB'[f].indirecto # SinBloque
  PROVE  Separados' /\ Marcados' /\ LosDemas'
  <1>1. f \in Archivos /\ EnCurso(f)
        /\ \A g \in Archivos : g # f => ~EnCurso(g)
    BY Tamanos, Pasos DEF Cursa, TiposC, EnCurso
  <1>2. \A g \in Archivos : (~EnCurso(g))'
    BY DEF EnCurso, Ninguna
  <1>3. ASSUME NEW g \in Archivos, g # f
        PROVE  /\ LugaresDe(g) = Lugares(g) /\ Seguros(g) = Lugares(g)
               /\ LugaresDe(g)' = Lugares(g) /\ Seguros(g)' = Lugares(g)
               /\ \A i \in Lugares(g) : Tiene(g, i)' = Tiene(g, i)
    BY <1>1, <1>2, <1>3, DeUno DEF Ajeno
  <1>4. /\ LugaresDe(f) = EnJuego /\ LugaresDe(f)' = Lugares(f)' /\ Seguros(f)' = Lugares(f)'
        /\ \A i : Tiene(f, i) = Toma(i) /\ Tiene(f, i)' = BloqueEn(f, i)'
    BY <1>1, <1>2, DeUno
  <1>5. \A g \in Archivos : \A i \in LugaresDe(g)' :
          i \in LugaresDe(g) /\ i \in Seguros(g) /\ Tiene(g, i)' = Tiene(g, i)
    <2>1. \A i \in LugaresDe(f)' :
            i \in LugaresDe(f) /\ i \in Seguros(f) /\ Tiene(f, i)' = Tiene(f, i)
      BY <1>4
    <2> QED BY <1>3, <2>1
  <1>6. \A g \in Archivos : Seguros(g)' = LugaresDe(g)'
    BY <1>2, DeUno
  <1>7. Separados' /\ Marcados'
    <2> DEFINE z == 0
               b == SinBloque
    <2>1. /\ \A g \in Archivos : \A i \in LugaresDe(g)' :
               \/ i \in LugaresDe(g) /\ Tiene(g, i)' = Tiene(g, i)
               \/ g = f /\ i = z /\ Tiene(g, i)' = b
          /\ b # SinBloque =>
               b \in bitmap' /\ \A g \in Archivos : \A i \in LugaresDe(g) : Tiene(g, i) # b
          /\ \A g \in Archivos : \A i \in Seguros(g)' :
               \/ /\ i \in Seguros(g) /\ Tiene(g, i)' = Tiene(g, i)
                  /\ Tiene(g, i) \in bitmap => Tiene(g, i) \in bitmap'
               \/ Tiene(g, i)' = b
      BY <1>5, <1>6
    <2> HIDE DEF z, b
    <2>2. f \in Archivos /\ Separados /\ Marcados
      BY <1>1 DEF Cursa
    <2> QED BY <2>1, <2>2, Vista
  <1>8. LosDemas'
    BY <1>1, LosDemasSon DEF Cursa, Ajeno
  <1> QED BY <1>7, <1>8

\* A step that changes no file and finds no request under way.
LEMMA VistaQuieta ==
  ASSUME Separados, Marcados, peticion = Ninguna, bitmap' = bitmap,
         \A g \in Archivos : \A i \in LugaresDe(g)' :
           i \in Lugares(g) /\ Tiene(g, i)' = BloqueEn(g, i),
         \A g \in Archivos : \A i \in Seguros(g)' : i \in LugaresDe(g)'
  PROVE  Separados' /\ Marcados'
  <1>1. \A g \in Archivos : LugaresDe(g) = Lugares(g) /\ Seguros(g) = Lugares(g)
                            /\ \A i : Tiene(g, i) = BloqueEn(g, i)
    BY DEF LugaresDe, Seguros, Tiene, EnCurso, Ninguna
  <1>2. CASE Archivos = {}
    BY <1>2 DEF Separados, Marcados
  <1>3. ASSUME NEW f \in Archivos
        PROVE  Separados' /\ Marcados'
    <2> DEFINE z == 0
               b == SinBloque
    <2>1. /\ \A g \in Archivos : \A i \in LugaresDe(g)' :
               \/ i \in LugaresDe(g) /\ Tiene(g, i)' = Tiene(g, i)
               \/ g = f /\ i = z /\ Tiene(g, i)' = b
          /\ b # SinBloque =>
               b \in bitmap' /\ \A g \in Archivos : \A i \in LugaresDe(g) : Tiene(g, i) # b
          /\ \A g \in Archivos : \A i \in Seguros(g)' :
               \/ /\ i \in Seguros(g) /\ Tiene(g, i)' = Tiene(g, i)
                  /\ Tiene(g, i) \in bitmap => Tiene(g, i) \in bitmap'
               \/ Tiene(g, i)' = b
      BY <1>1
    <2> HIDE DEF z, b
    <2> QED BY <2>1, <1>3, Vista
  <1> QED BY <1>2, <1>3

-----------------------------------------------------------------------------
(* What a step of a request has to leave.                                  *)

Marco == UNCHANGED <<existe, caido, pedidos, caidas, rotos, previo>>

\* The invariant, and nothing moved unless the file was between its two saves.
Bien == ICaida' /\ (~EntreGuardados => Conserva)

LEMMA TiposSigue ==
  ASSUME Cursa, Marco, bitmap' \subseteq Bloques,
         punteros' \in [Bloques -> [Indices -> Valores]],
         FCB' = FCB \/ FCB' = [FCB EXCEPT ![peticion.f] = peticion.fcb]
  PROVE  TiposC'
  <1>1. /\ TypeOKB /\ Acotados /\ SinCrearVacios
        /\ pedidos \in 0 .. MaxPedidos /\ caidas \in 0 .. MaxCaidas /\ rotos \subseteq Archivos
        /\ EsPeticion
    BY DEF Cursa, TiposC
  <1>2. /\ existe' = existe /\ caido' = caido /\ pedidos' = pedidos /\ caidas' = caidas
        /\ rotos' = rotos
    BY DEF Marco
  <1>3. /\ peticion.f \in existe /\ peticion.fcb \in EsFCB
        /\ Ocupa(peticion.fcb.tam) <= BLOCK_SIZE + 1
    BY <1>1, Tamanos DEF EsPeticion, Total
  <1>4. FCB' \in [Archivos -> EsFCB]
    BY <1>1, <1>3 DEF TypeOKB, EsFCB, Valores
  <1>5. \A g \in Archivos : FCB'[g] = FCB[g] \/ (g = peticion.f /\ FCB'[g] = peticion.fcb)
    BY <1>1 DEF TypeOKB
  <1>6. TypeOKB'
    BY <1>1, <1>2, <1>4 DEF TypeOKB, EsFCB, Valores
  <1>7. Acotados'
    <2>1. \A g \in Archivos : Ocupa(FCB'[g].tam) <= BLOCK_SIZE + 1
      BY <1>1, <1>3, <1>5 DEF Acotados
    <2> QED BY <2>1 DEF Acotados, Ocupa
  <1>8. SinCrearVacios'
    BY <1>1, <1>2, <1>3, <1>5 DEF SinCrearVacios
  <1> QED BY <1>1, <1>2, <1>6, <1>7, <1>8 DEF TiposC

\* The request that goes on is one.
LEMMA QuedaBien ==
  ASSUME Cursa, Marco, NEW q \in Crecen \union Achican,
         NEW c \in EsFCB, c.tam = peticion.fcb.tam,
         NEW k \in 0 .. BLOCK_SIZE + 1, NEW l \in Seq(Valores), Queda(q, c, k, l)
  PROVE  /\ EsPeticion' /\ peticion' # Ninguna
         /\ peticion'.paso = q /\ peticion'.f = peticion.f
         /\ peticion'.tam_ant = peticion.tam_ant /\ peticion'.fcb = c
         /\ peticion'.faltan = k /\ peticion'.lista = l
         /\ Antes' = Antes /\ Total' = Total
         /\ q = "directo" => EnJuego' = {}
         /\ q = "indirecto" => EnJuego' = {1}
         /\ q = "guardar_indirecto" => EnJuego' = {0, 1}
         /\ q = "datos" => EnJuego' = 0 .. Base(Antes) + Len(l)
         /\ q \in {"punteros", "guardar"} => EnJuego' = Sitios(Total)
         /\ q \in Achican => EnJuego' = Sitios(Antes)
         /\ Toma(0)' = c.indirecto /\ Toma(1)' = c.directo
         /\ \A i : i \notin {0, 1} =>
              /\ q \in {"datos", "punteros"} /\ i > Base(Antes)
                   => Toma(i)' = l[i - Base(Antes)]
              /\ ~(q \in {"datos", "punteros"} /\ i > Base(Antes))
                   => Toma(i)' = punteros'[c.indirecto][i - 2]
  <1>1. /\ peticion' # Ninguna
        /\ peticion'.paso = q /\ peticion'.f = peticion.f
        /\ peticion'.tam_ant = peticion.tam_ant /\ peticion'.fcb = c
        /\ peticion'.faltan = k /\ peticion'.lista = l
        /\ peticion' = Peticion_(peticion'.paso, peticion'.f, peticion'.tam_ant,
                                 peticion'.fcb, peticion'.faltan, peticion'.lista)
        /\ Antes' = Antes /\ Total' = Total
    BY CamposQueda DEF Total
  <1>2. EsPeticion /\ existe' = existe
    BY DEF Cursa, Marco
  <1>3. EsPeticion'
    BY <1>1, <1>2 DEF EsPeticion, Peticion_
  <1>4. EnJuego' = IF peticion'.paso = "directo" THEN {}
                   ELSE IF peticion'.paso = "indirecto" THEN {1}
                   ELSE IF peticion'.paso = "guardar_indirecto" THEN {0, 1}
                   ELSE IF peticion'.paso = "datos" THEN 0 .. Base(Antes') + Len(peticion'.lista)
                   ELSE IF peticion'.paso \in {"punteros", "guardar"} THEN Sitios(Total')
                   ELSE Sitios(Antes')
    BY DEF EnJuego, Base, Sitios
  <1>5. \A i : Toma(i)' =
          IF i = 0 THEN peticion'.fcb.indirecto
          ELSE IF i = 1 THEN peticion'.fcb.directo
          ELSE IF peticion'.paso \in {"datos", "punteros"} /\ i > Base(Antes')
               THEN peticion'.lista[i - Base(Antes')]
               ELSE punteros'[peticion'.fcb.indirecto][i - 2]
    BY DEF Toma, Base
  <1>6. /\ q = "directo" => EnJuego' = {}
        /\ q = "indirecto" => EnJuego' = {1}
        /\ q = "guardar_indirecto" => EnJuego' = {0, 1}
        /\ q = "datos" => EnJuego' = 0 .. Base(Antes) + Len(l)
        /\ q \in {"punteros", "guardar"} => EnJuego' = Sitios(Total)
        /\ q \in Achican => EnJuego' = Sitios(Antes)
    BY <1>1, <1>4 DEF Achican
  <1>7. Toma(0)' = c.indirecto /\ Toma(1)' = c.directo
    BY <1>1, <1>5
  <1>8. \A i : i \notin {0, 1} =>
          /\ q \in {"datos", "punteros"} /\ i > Base(Antes)
               => Toma(i)' = l[i - Base(Antes)]
          /\ ~(q \in {"datos", "punteros"} /\ i > Base(Antes))
               => Toma(i)' = punteros'[c.indirecto][i - 2]
    BY <1>1, <1>5
  <1> QED BY <1>1, <1>3, <1>6, <1>7, <1>8

\* The block that the FCB c has in the place i.
De(c, i) == IF i = 0 THEN c.indirecto
            ELSE IF i = 1 THEN c.directo
            ELSE punteros[c.indirecto][i - 2]

LEMMA DeSon ==
  /\ \A g, i : BloqueEn(g, i) = De(FCB[g], i)
  /\ \A g \in Archivos : \A i :
       BloqueEn(g, i)' = IF i = 0 THEN FCB'[g].indirecto
                         ELSE IF i = 1 THEN FCB'[g].directo
                         ELSE punteros'[FCB'[g].indirecto][i - 2]
  /\ \A i : peticion.paso \notin {"datos", "punteros"} => Toma(i) = De(peticion.fcb, i)
  /\ \A i : peticion'.paso \notin {"datos", "punteros"} => Toma(i)' = De(peticion.fcb, i)'
  BY DEF BloqueEn, buscar_bloque, De, Toma

\* actualizar_FCB: the file has what the request says.
LEMMA Guardado ==
  ASSUME Cursa, actualizar_FCB, NEW f, f = peticion.f
  PROVE  /\ f \in Archivos /\ FCB'[f] = peticion.fcb
         /\ FCB' = [FCB EXCEPT ![f] = peticion.fcb]
         /\ \A g \in Archivos : g # f => FCB'[g] = FCB[g]
         /\ bitmap' = bitmap /\ punteros' = punteros
         /\ Lugares(f)' = Sitios(Total)
         /\ \A i : BloqueEn(f, i)' = De(peticion.fcb, i)
         /\ Ajeno
  <1>1. f \in Archivos /\ FCB \in [Archivos -> EsFCB]
    BY Tamanos DEF Cursa, TiposC, TypeOKB, EsFCB, Valores
  <1>2. /\ FCB' = [FCB EXCEPT ![f] = peticion.fcb]
        /\ bitmap' = bitmap /\ punteros' = punteros
    BY DEF actualizar_FCB
  <1>3. FCB'[f] = peticion.fcb /\ \A g \in Archivos : g # f => FCB'[g] = FCB[g]
    BY <1>1, <1>2
  <1>4. Ajeno
    BY <1>2, <1>3, SonAjenos
  <1>5. Lugares(f)' = Sitios(Total)
    BY <1>1, <1>3, LugaresSon DEF Total
  <1>6. \A i : BloqueEn(f, i)' = De(peticion.fcb, i)
    BY <1>1, <1>2, <1>3, DeSon DEF De
  <1> QED BY <1>1, <1>2, <1>3, <1>4, <1>5, <1>6

\* A step that does not change FCBs or pointers moves nothing.
LEMMA DiscoIgual ==
  ASSUME FCB' = FCB, punteros' = punteros
  PROVE  /\ Conserva
         /\ \A g \in Archivos : Lugares(g)' = Lugares(g)
         /\ \A g \in Archivos : \A i : BloqueEn(g, i)' = BloqueEn(g, i)
         /\ Cursa => Ajeno
  <1>1. /\ \A g \in Archivos : Lugares(g)' = Lugares(g)
        /\ \A g \in Archivos : \A i : BloqueEn(g, i)' = BloqueEn(g, i)
    BY LugaresSon, DeSon DEF De
  <1> QED BY <1>1 DEF Conserva, Ajeno

LEMMA ConservaSi ==
  ASSUME Ajeno, NEW f, f = peticion.f,
         \A i \in Lugares(f) \ {0} : i \in Lugares(f)' => BloqueEn(f, i)' = BloqueEn(f, i)
  PROVE  Conserva
  <1> SUFFICES ASSUME NEW g \in Archivos, NEW i \in Lugares(g) \ {0}, i \in Lugares(g)'
               PROVE  BloqueEn(g, i)' = BloqueEn(g, i)
    BY DEF Conserva
  <1>1. CASE g = f
    BY <1>1
  <1>2. CASE g # f
    BY <1>2 DEF Ajeno
  <1> QED BY <1>1, <1>2

LEMMA ICaidaSi ==
  ASSUME Cursa, Marco, TiposC', EsPeticion', CuentaCrece', CuentaAchica', EnDisco',
         Antes' > 1 => peticion'.fcb.indirecto # SinBloque,
         Separados', Marcados', LosDemas'
  PROVE  ICaida'
  BY DEF Cursa, Marco, ICaida, PeticionBien

-----------------------------------------------------------------------------
(* asignar_bloques, store by store.                                        *)

\* Names for what a step leaves in the request.
LEMMA QuedaCon ==
  ASSUME NEW q_, NEW c_, NEW k_, NEW l_, Queda(q_, c_, k_, l_)
  PROVE  \E q, c, k, l : q = q_ /\ c = c_ /\ k = k_ /\ l = l_ /\ Queda(q, c, k, l)
  OBVIOUS

LEMMA AsignarDirectoBien ==
  ASSUME Cursa, Marco, AsignarDirecto
  PROVE  Bien
  <1>1. PICK f : f = peticion.f
    OBVIOUS
  <1>2. EsPeticion /\ TypeOKB /\ peticion.paso = "directo"
    BY DEF Cursa, TiposC, AsignarDirecto, En
  <1>3. /\ peticion.tam_ant < peticion.fcb.tam /\ peticion.lista = <<>>
        /\ Antes = 0 /\ peticion.faltan = Total
    BY <1>2 DEF Cursa, CuentaCrece, Crecen
  <1>4. Total \in Nat \ {0} /\ Total <= BLOCK_SIZE + 1 /\ peticion.tam_ant = 0
    BY <1>2, <1>3, Tamanos
  <1>5. PICK b, q, c, k, l :
          /\ b \in Valores /\ TomarBloque(b) /\ Queda(q, c, k, l)
          /\ q = IF Total > 1 THEN "indirecto" ELSE "guardar"
          /\ c = FCB_(peticion.fcb.tam, b, peticion.fcb.indirecto)
          /\ k = Total - 1 /\ l = <<>>
    <2>1. (IF Total > 1 /\ peticion.tam_ant <= BLOCK_SIZE THEN "indirecto"
           ELSE Sigue(Total - 1))
            = IF Total > 1 THEN "indirecto" ELSE "guardar"
      <3>1. CASE Total > 1
        BY <1>2, <1>4, <3>1, BloquesAssumption DEF Sigue
      <3>2. CASE ~(Total > 1)
        BY <3>2 DEF Sigue
      <3> QED BY <3>1, <3>2
    <2> QED BY <1>2, <1>3, <2>1, AsignarDirectoHace, QuedaCon
  <1>6. c \in EsFCB /\ c.tam = peticion.fcb.tam /\ c.directo = b
    BY <1>2, <1>5, FCBEs, Tamanos
  <1>7. q \in Crecen /\ k \in 0 .. BLOCK_SIZE + 1 /\ l \in Seq(Valores)
    <2>1. q \in Crecen
      BY <1>5 DEF Crecen
    <2>2. k \in 0 .. BLOCK_SIZE + 1
      BY <1>4, <1>5, BloquesAssumption
    <2> QED BY <1>5, <2>1, <2>2
  <1>8. /\ bitmap' \subseteq Bloques /\ FCB' = FCB /\ punteros' = punteros
        /\ b # SinBloque => b \notin bitmap /\ b \in bitmap'
        /\ bitmap \subseteq bitmap'
    BY <1>2, <1>5, BloqueTomado
  <1>9. /\ EsPeticion' /\ peticion'.paso = q /\ peticion'.f = f
        /\ peticion'.tam_ant = peticion.tam_ant /\ peticion'.fcb = c
        /\ peticion'.faltan = k /\ peticion'.lista = l
        /\ Antes' = Antes /\ Total' = Total
        /\ q = "indirecto" => EnJuego' = {1}
        /\ q = "guardar" => EnJuego' = Sitios(Total)
        /\ Toma(1)' = b
    <2>1. Queda(q, c, k, l) /\ q \in Crecen \union Achican
      BY <1>5, <1>7
    <2> QED BY <1>1, <1>6, <1>7, <2>1, QuedaBien
  <1>91. EnJuego' = {1}
    <2>1. CASE Total > 1
      BY <1>5, <1>9, <2>1
    <2>2. CASE ~(Total > 1)
      <3>1. Total = 1 /\ q = "guardar"
        BY <1>4, <1>5, <2>2
      <3>2. Sitios(1) = {1}
        BY DEF Sitios
      <3> QED BY <1>9, <3>1, <3>2
    <2> QED BY <2>1, <2>2
  <1>10. TiposC'
    BY <1>2, <1>8, TiposSigue DEF TypeOKB, Valores
  <1>11. Ajeno /\ Conserva
    BY <1>8, DiscoIgual
  <1>12. Separados' /\ Marcados' /\ LosDemas'
    <2>1. EnCurso(f)' /\ peticion'.paso \notin GuardaYa
      BY <1>5, <1>9 DEF EnCurso, GuardaYa, Achican
    <2>2. Seguros(f)' = EnJuego'
      BY <2>1, DeUno
    <2>3. \A g \in Archivos : \A i \in Seguros(g) :
           Tiene(g, i) \in bitmap => Tiene(g, i) \in bitmap'
      BY <1>8
    <2>4. peticion.paso \in Crecen
      BY <1>2 DEF Crecen
    <2>5. \A i \in EnJuego' : i = 1 /\ Toma(i)' = b
      BY <1>9, <1>91
    <2> QED BY <1>1, <1>8, <1>9, <1>11, <2>2, <2>3, <2>4, <2>5, VistaSigue
  <1>13. CuentaCrece' /\ CuentaAchica'
    BY <1>3, <1>4, <1>5, <1>6, <1>9 DEF CuentaCrece, CuentaAchica, Crecen, Achican
  <1>14. EnDisco'
    <2>1. FCB[peticion.f].tam = peticion.tam_ant
      BY <1>2 DEF Cursa, EnDisco, Crecen, GuardaYa, Achican
    <2>2. FCB'[peticion'.f].tam = peticion'.tam_ant
      BY <1>1, <1>8, <1>9, <2>1
    <2>3. \A i : i \notin Sitios(Antes)'
      BY <1>3, <1>9 DEF Sitios
    <2>4. peticion'.paso \in Crecen
      BY <1>7, <1>9
    <2> QED BY <2>2, <2>3, <2>4 DEF EnDisco
  <1> QED BY <1>3, <1>9, <1>10, <1>11, <1>12, <1>13, <1>14, ICaidaSi DEF Bien

LEMMA AsignarIndirectoBien ==
  ASSUME Cursa, Marco, AsignarIndirecto
  PROVE  Bien
  <1>1. PICK f : f = peticion.f
    OBVIOUS
  <1>2. EsPeticion /\ TypeOKB /\ peticion.paso = "indirecto"
    BY DEF Cursa, TiposC, AsignarIndirecto, En
  <1>3. /\ peticion.tam_ant < peticion.fcb.tam /\ peticion.lista = <<>>
        /\ Antes <= 1 /\ Total > 1 /\ peticion.faltan = Total - 1
    BY <1>2 DEF Cursa, CuentaCrece, Crecen
  <1>4. PICK b, q, c, k, l :
          /\ b \in Valores /\ TomarBloque(b) /\ Queda(q, c, k, l)
          /\ q = "guardar_indirecto"
          /\ c = FCB_(peticion.fcb.tam, peticion.fcb.directo, b)
          /\ k = peticion.faltan /\ l = peticion.lista
    BY <1>2, AsignarIndirectoHace, QuedaCon
  <1>5. c \in EsFCB /\ c.tam = peticion.fcb.tam /\ c.indirecto = b
        /\ c.directo = peticion.fcb.directo
    BY <1>2, <1>4, FCBEs, Tamanos
  <1>6. /\ bitmap' \subseteq Bloques /\ FCB' = FCB /\ punteros' = punteros
        /\ b # SinBloque => b \notin bitmap /\ b \in bitmap'
        /\ bitmap \subseteq bitmap'
    BY <1>2, <1>4, BloqueTomado
  <1>7. /\ EsPeticion' /\ peticion'.paso = q /\ peticion'.f = f
        /\ peticion'.tam_ant = peticion.tam_ant /\ peticion'.fcb = c
        /\ peticion'.faltan = k /\ peticion'.lista = l
        /\ Antes' = Antes /\ Total' = Total
        /\ EnJuego' = {0, 1} /\ Toma(0)' = b /\ Toma(1)' = peticion.fcb.directo
    <2>1. /\ Queda(q, c, k, l) /\ q \in Crecen \union Achican
          /\ k \in 0 .. BLOCK_SIZE + 1 /\ l \in Seq(Valores)
      BY <1>2, <1>4 DEF Crecen, EsPeticion
    <2> QED BY <1>1, <1>4, <1>5, <2>1, QuedaBien
  <1>8. TiposC'
    BY <1>2, <1>6, TiposSigue DEF TypeOKB, Valores
  <1>9. Ajeno /\ Conserva
    BY <1>6, DiscoIgual
  <1>10. EnJuego = {1} /\ Toma(1) = peticion.fcb.directo
    BY <1>2 DEF EnJuego, Toma
  <1>11. Separados' /\ Marcados' /\ LosDemas'
    <2>1. EnCurso(f)' /\ peticion'.paso \notin GuardaYa /\ EnCurso(f)
          /\ peticion.paso \notin GuardaYa
      BY <1>1, <1>2, <1>4, <1>7 DEF EnCurso, GuardaYa, Achican
    <2>2. Seguros(f)' = EnJuego' /\ Seguros(f) = EnJuego
      BY <2>1, DeUno
    <2>3. \A g \in Archivos : \A i \in Seguros(g) :
           Tiene(g, i) \in bitmap => Tiene(g, i) \in bitmap'
      BY <1>6
    <2>4. peticion.paso \in Crecen
      BY <1>2 DEF Crecen
    <2>5. \A i \in EnJuego' : \/ i \in EnJuego /\ Toma(i)' = Toma(i)
                              \/ i = 0 /\ Toma(i)' = b
      BY <1>7, <1>10
    <2> QED BY <1>1, <1>6, <1>7, <1>9, <2>2, <2>3, <2>4, <2>5, VistaSigue
  <1>12. CuentaCrece' /\ CuentaAchica'
    BY <1>3, <1>4, <1>5, <1>7 DEF CuentaCrece, CuentaAchica, Crecen, Achican
  <1>13. EnDisco'
    <2>1. /\ FCB[f].tam = peticion.tam_ant
          /\ \A i \in Sitios(Antes) : i \in EnJuego /\ Toma(i) = BloqueEn(f, i)
      BY <1>1, <1>2 DEF Cursa, EnDisco, Crecen, GuardaYa, Achican
    <2>2. FCB'[peticion'.f].tam = peticion'.tam_ant
      BY <1>6, <1>7, <2>1
    <2>3. Sitios(Antes)' = Sitios(Antes)
      BY <1>7 DEF Sitios
    <2>4. f \in Archivos
      BY <1>1, <1>2, Tamanos
    <2>5. \A i \in Sitios(Antes)' : i \in EnJuego' /\ Toma(i)' = BloqueEn(f, i)'
      <3>1. BloqueEn(f, 1)' = BloqueEn(f, 1)
        BY <1>6, <2>4, DiscoIgual
      <3>2. \A i \in Sitios(Antes) : i = 1 /\ Toma(i) = BloqueEn(f, i)
        BY <1>10, <2>1
      <3>3. ASSUME NEW i \in Sitios(Antes)
            PROVE  i \in EnJuego' /\ Toma(i)' = BloqueEn(f, i)'
        <4>1. i = 1 /\ Toma(1) = BloqueEn(f, 1)
          BY <3>2
        <4>2. 1 \in EnJuego' /\ Toma(1)' = BloqueEn(f, 1)'
          BY <1>7, <1>10, <3>1, <4>1
        <4> QED BY <4>1, <4>2
      <3> QED BY <2>3, <3>3
    <2>6. peticion'.paso \in Crecen
      BY <1>4, <1>7 DEF Crecen
    <2> QED BY <1>7, <2>2, <2>5, <2>6 DEF EnDisco
  <1>14. ~(Antes' > 1)
    BY <1>2, <1>3, <1>7, Tamanos
  <1> QED BY <1>7, <1>8, <1>9, <1>11, <1>12, <1>13, <1>14, ICaidaSi DEF Bien

LEMMA GuardarIndirectoBien ==
  ASSUME Cursa, Marco, GuardarIndirecto
  PROVE  Bien
  <1>1. PICK f : f = peticion.f
    OBVIOUS
  <1>2. EsPeticion /\ TypeOKB /\ peticion.paso = "guardar_indirecto"
    BY DEF Cursa, TiposC, GuardarIndirecto, En
  <1>3. /\ peticion.tam_ant < peticion.fcb.tam /\ peticion.lista = <<>>
        /\ Antes <= 1 /\ Total > 1 /\ peticion.faltan = Total - 1
    BY <1>2 DEF Cursa, CuentaCrece, Crecen
  <1>4. Total \in Nat /\ Antes \in Nat
    BY <1>2, Tamanos
  <1>5. PICK q, c, k, l :
          /\ Queda(q, c, k, l) /\ q = "datos" /\ c = peticion.fcb
          /\ k = peticion.faltan /\ l = <<>>
    <2>1. Sigue(peticion.faltan) = "datos"
      BY <1>3, <1>4 DEF Sigue
    <2> QED BY <1>2, <1>3, <2>1, GuardarIndirectoHace, QuedaCon
  <1>6. /\ f \in Archivos /\ FCB'[f] = peticion.fcb
        /\ FCB' = [FCB EXCEPT ![peticion.f] = peticion.fcb]
        /\ bitmap' = bitmap /\ punteros' = punteros
        /\ \A i : BloqueEn(f, i)' = De(peticion.fcb, i)
        /\ Ajeno
    BY <1>1, <1>2, GuardarIndirectoHace, Guardado
  <1>7. /\ EsPeticion' /\ peticion'.paso = q /\ peticion'.f = f
        /\ peticion'.tam_ant = peticion.tam_ant /\ peticion'.fcb = c
        /\ peticion'.faltan = k /\ peticion'.lista = l
        /\ Antes' = Antes /\ Total' = Total
        /\ EnJuego' = 0 .. Base(Antes) + Len(l)
        /\ Toma(0)' = c.indirecto /\ Toma(1)' = c.directo
    <2>1. /\ Queda(q, c, k, l) /\ q \in Crecen \union Achican
          /\ k \in 0 .. BLOCK_SIZE + 1 /\ l \in Seq(Valores)
          /\ c \in EsFCB /\ c.tam = peticion.fcb.tam
      BY <1>2, <1>3, <1>5 DEF Crecen, EsPeticion
    <2> QED BY <1>1, <1>5, <2>1, QuedaBien
  <1>8. EnJuego' = {0, 1} /\ Base(Antes) = 1 /\ Len(l) = 0
    <2>1. Base(Antes) = 1 /\ Len(l) = 0
      BY <1>3, <1>4, <1>5 DEF Base
    <2>2. 0 .. 1 + 0 = {0, 1}
      OBVIOUS
    <2> QED BY <1>7, <2>1, <2>2
  <1>9. TiposC'
    BY <1>2, <1>6, TiposSigue DEF TypeOKB, Valores
  <1>10. EnJuego = {0, 1} /\ Toma(0) = peticion.fcb.indirecto /\ Toma(1) = peticion.fcb.directo
    BY <1>2 DEF EnJuego, Toma
  <1>11. Separados' /\ Marcados' /\ LosDemas'
    <2>1. EnCurso(f)' /\ peticion'.paso \notin GuardaYa /\ EnCurso(f)
          /\ peticion.paso \notin GuardaYa
      BY <1>1, <1>2, <1>5, <1>7 DEF EnCurso, GuardaYa, Achican
    <2>2. Seguros(f)' = EnJuego' /\ Seguros(f) = EnJuego
      BY <2>1, DeUno
    <2>3. \A g \in Archivos : \A i \in Seguros(g) :
           Tiene(g, i) \in bitmap => Tiene(g, i) \in bitmap'
      BY <1>6
    <2>4. \A i \in EnJuego' : i \in EnJuego /\ Toma(i)' = Toma(i)
      BY <1>5, <1>7, <1>8, <1>10
    <2> QED BY <1>1, <1>6, <1>7, <2>2, <2>3, <2>4, VistaSigue
  <1>12. CuentaCrece' /\ CuentaAchica'
    <2>1. Base(Antes)' = 1
      BY <1>7, <1>8 DEF Base
    <2> QED BY <1>3, <1>4, <1>5, <1>7, <1>8, <2>1 DEF CuentaCrece, CuentaAchica, Crecen, Achican
  <1>13. EnDisco'
    BY <1>5, <1>6, <1>7 DEF EnDisco
  <1>14. Conserva
    <2>1. \A i \in Sitios(Antes) : Toma(i) = BloqueEn(f, i)
      BY <1>1, <1>2 DEF Cursa, EnDisco, Crecen, GuardaYa, Achican
    <2>2. FCB[f].tam = peticion.tam_ant
      BY <1>1, <1>2 DEF Cursa, EnDisco, Crecen, GuardaYa, Achican
    <2>3. Lugares(f) = Sitios(Antes)
      BY <1>6, <2>2, LugaresSon DEF Antes
    <2>4. \A i \in Lugares(f) \ {0} : i = 1
      BY <1>3, <1>4, <2>3 DEF Sitios
    <2>5. BloqueEn(f, 1)' = Toma(1)
      BY <1>6, <1>10 DEF De
    <2>6. \A i \in Lugares(f) \ {0} : BloqueEn(f, i)' = BloqueEn(f, i)
      BY <2>1, <2>3, <2>4, <2>5
    <2> QED BY <1>1, <1>6, <2>6, ConservaSi
  <1>15. ~(Antes' > 1)
    BY <1>3, <1>4, <1>7
  <1> QED BY <1>7, <1>9, <1>11, <1>12, <1>13, <1>14, <1>15, ICaidaSi DEF Bien

LEMMA AsignarDatoBien ==
  ASSUME Cursa, Marco, AsignarDato
  PROVE  Bien
  <1>1. PICK f : f = peticion.f
    OBVIOUS
  <1>2. EsPeticion /\ TypeOKB /\ peticion.paso = "datos"
    BY DEF Cursa, TiposC, AsignarDato, En
  <1> DEFINE base == Base(Antes)
             n == Len(peticion.lista)
  <1>3. /\ peticion.tam_ant < peticion.fcb.tam /\ Total > 1 /\ peticion.faltan > 0
        /\ base + n + peticion.faltan = Total
    BY <1>2 DEF Cursa, CuentaCrece, Crecen
  <1>4. /\ Total \in Nat /\ Antes \in Nat /\ base \in Nat \ {0} /\ Antes <= base
        /\ peticion.faltan \in 0 .. BLOCK_SIZE + 1
        /\ peticion.lista \in Seq(Valores) /\ n \in Nat /\ f \in Archivos
    BY <1>1, <1>2, Tamanos, LenProperties DEF EsPeticion
  <1>5. PICK b, q, c, k, l :
          /\ b \in Valores /\ TomarBloque(b) /\ Queda(q, c, k, l)
          /\ q = IF peticion.faltan - 1 > 0 THEN "datos" ELSE "punteros"
          /\ c = peticion.fcb
          /\ k = peticion.faltan - 1 /\ l = Append(peticion.lista, b)
    BY <1>2, AsignarDatoHace, QuedaCon
  <1>6. /\ l \in Seq(Valores) /\ Len(l) = n + 1 /\ l[n + 1] = b
        /\ \A i \in 1 .. n : l[i] = peticion.lista[i]
    BY <1>4, <1>5, AppendProperties
  <1>7. /\ bitmap' \subseteq Bloques /\ FCB' = FCB /\ punteros' = punteros
        /\ b # SinBloque => b \notin bitmap /\ b \in bitmap'
        /\ bitmap \subseteq bitmap'
    BY <1>2, <1>5, BloqueTomado
  <1> DEFINE Salto(i) == i \notin {0, 1} =>
               /\ i > Base(Antes) => Toma(i)' = l[i - Base(Antes)]
               /\ ~(i > Base(Antes)) => Toma(i)' = punteros'[c.indirecto][i - 2]
  <1>8. /\ EsPeticion' /\ peticion'.paso = q /\ peticion'.f = f
        /\ peticion'.tam_ant = peticion.tam_ant /\ peticion'.fcb = c
        /\ peticion'.faltan = k /\ peticion'.lista = l
        /\ Antes' = Antes /\ Total' = Total
        /\ q = "datos" => EnJuego' = 0 .. base + Len(l)
        /\ q = "punteros" => EnJuego' = Sitios(Total)
        /\ Toma(0)' = c.indirecto /\ Toma(1)' = c.directo
        /\ \A i : Salto(i)
    <2>1. k \in 0 .. BLOCK_SIZE + 1
      BY <1>3, <1>4, <1>5, BloquesAssumption
    <2>2. q \in {"datos", "punteros"} /\ q \in Crecen \union Achican
      BY <1>5 DEF Crecen
    <2>3. Queda(q, c, k, l) /\ c \in EsFCB /\ c.tam = peticion.fcb.tam
      BY <1>2, <1>5, Tamanos
    <2> QED BY <1>1, <1>6, <2>1, <2>2, <2>3, QuedaBien
  <1> HIDE DEF base, n
  <1>9. EnJuego' = 0 .. base + n + 1
    <2>1. CASE peticion.faltan - 1 > 0
      <3>1. EnJuego' = 0 .. base + Len(l)
        BY <1>5, <1>8, <2>1
      <3>2. base + Len(l) = base + n + 1
        BY <1>4, <1>6
      <3> QED BY <3>1, <3>2
    <2>2. CASE ~(peticion.faltan - 1 > 0)
      <3>1. Total = base + n + 1
        BY <1>3, <1>4, <2>2
      <3>2. Sitios(Total) = 0 .. Total
        BY <1>3, <1>4 DEF Sitios
      <3> QED BY <1>5, <1>8, <2>2, <3>1, <3>2
    <2> QED BY <2>1, <2>2
  <1>10. /\ EnJuego = 0 .. base + n
         /\ Toma(0) = peticion.fcb.indirecto /\ Toma(1) = peticion.fcb.directo
         /\ \A i : i \notin {0, 1} =>
              /\ i > base => Toma(i) = peticion.lista[i - base]
              /\ ~(i > base) => Toma(i) = punteros[peticion.fcb.indirecto][i - 2]
    BY <1>2 DEF EnJuego, Toma, base, n
  <1>11. \A i \in EnJuego : i \in EnJuego' /\ Toma(i)' = Toma(i)
    <2> SUFFICES ASSUME NEW i \in 0 .. base + n
                 PROVE  i \in EnJuego' /\ Toma(i)' = Toma(i)
      BY <1>10
    <2>1. i \in EnJuego'
      BY <1>4, <1>9
    <2>2. CASE i = 0
      <3>1. Toma(0)' = Toma(0)
        BY <1>5, <1>8, <1>10
      <3> QED BY <2>1, <2>2, <3>1
    <2>3. CASE i = 1
      <3>1. Toma(1)' = Toma(1)
        BY <1>5, <1>8, <1>10
      <3> QED BY <2>1, <2>3, <3>1
    <2>4. CASE i \notin {0, 1} /\ i > base
      <3>1. Toma(i)' = l[i - base] /\ Toma(i) = peticion.lista[i - base]
        BY <1>8, <1>10, <2>4 DEF base
      <3>2. i - base \in 1 .. n
        BY <1>4, <2>4
      <3> QED BY <1>6, <2>1, <3>1, <3>2
    <2>5. CASE i \notin {0, 1} /\ ~(i > base)
      <3>1. /\ Toma(i)' = punteros'[c.indirecto][i - 2]
            /\ Toma(i) = punteros[peticion.fcb.indirecto][i - 2]
        BY <1>8, <1>10, <2>5 DEF base
      <3> QED BY <1>5, <1>7, <2>1, <3>1
    <2> QED BY <2>1, <2>2, <2>3, <2>4, <2>5
  <1>12. \A i \in EnJuego' : i \in EnJuego \/ (i = base + n + 1 /\ Toma(i)' = b)
    <2> SUFFICES ASSUME NEW i \in 0 .. base + n + 1, i \notin 0 .. base + n
                 PROVE  i = base + n + 1 /\ Toma(i)' = b
      BY <1>9, <1>10
    <2>1. i = base + n + 1
      BY <1>4
    <2>2. i \notin {0, 1} /\ i > base /\ i - base = n + 1
      BY <1>4, <2>1
    <2>3. Toma(i)' = l[i - base]
      BY <1>8, <2>2 DEF base
    <2> QED BY <1>6, <2>1, <2>2, <2>3
  <1>13. TiposC'
    BY <1>2, <1>7, TiposSigue DEF TypeOKB, Valores
  <1>14. Ajeno /\ Conserva
    BY <1>7, DiscoIgual
  <1>15. Separados' /\ Marcados' /\ LosDemas'
    <2>1. EnCurso(f)' /\ peticion'.paso \notin GuardaYa /\ EnCurso(f)
          /\ peticion.paso \notin GuardaYa
      BY <1>1, <1>2, <1>5, <1>8 DEF EnCurso, GuardaYa, Achican
    <2>2. Seguros(f)' = EnJuego' /\ Seguros(f) = EnJuego
      BY <2>1, DeUno
    <2>3. \A g \in Archivos : \A i \in Seguros(g) :
           Tiene(g, i) \in bitmap => Tiene(g, i) \in bitmap'
      BY <1>7
    <2>4. peticion.paso \in Crecen
      BY <1>2 DEF Crecen
    <2>5. \A i \in EnJuego' : \/ i \in EnJuego /\ Toma(i)' = Toma(i)
                              \/ i = base + n + 1 /\ Toma(i)' = b
      BY <1>11, <1>12
    <2>6. EsPeticion' /\ peticion'.f = f
      BY <1>8
    <2> QED BY <1>1, <1>7, <1>14, <2>2, <2>3, <2>4, <2>5, <2>6, VistaSigue
  <1>16. CuentaCrece' /\ CuentaAchica'
    <2>1. Base(Antes)' = base
      BY <1>8 DEF Base, base
    <2>2. base + Len(l) + k = Total
      BY <1>3, <1>4, <1>5, <1>6
    <2>3. q \in {"datos", "punteros"} /\ (q = "datos" => k > 0) /\ (q = "punteros" => k = 0)
      BY <1>3, <1>4, <1>5
    <2>4. q = "punteros" => base + Len(l) = Total
      BY <1>4, <1>6, <2>2, <2>3
    <2> QED BY <1>3, <1>5, <1>8, <2>1, <2>2, <2>3, <2>4
      DEF CuentaCrece, CuentaAchica, Crecen, Achican
  <1>17. EnDisco'
    <2>1. q \in {"datos", "punteros"}
      BY <1>5
    <2>2. CASE FCB[f] = peticion.fcb
      BY <1>5, <1>7, <1>8, <2>1, <2>2 DEF EnDisco
    <2>3. CASE /\ FCB[f].tam = peticion.tam_ant
               /\ \A i \in Sitios(Antes) : i \in EnJuego /\ Toma(i) = BloqueEn(f, i)
      <3>1. FCB'[peticion'.f].tam = peticion'.tam_ant
        BY <1>7, <1>8, <2>3
      <3>2. Sitios(Antes)' = Sitios(Antes)
        BY <1>8 DEF Sitios
      <3>3. \A i : BloqueEn(f, i)' = BloqueEn(f, i)
        BY <1>4, <1>7, DiscoIgual
      <3>4. \A i \in Sitios(Antes) : i \in EnJuego' /\ Toma(i)' = BloqueEn(f, i)'
        BY <1>11, <2>3, <3>3
      <3>5. \A i \in Sitios(Antes)' : i \in EnJuego' /\ Toma(i)' = BloqueEn(f, i)'
        BY <3>2, <3>4
      <3>6. peticion'.paso \in Crecen
        BY <1>8, <2>1 DEF Crecen
      <3> QED BY <1>8, <3>1, <3>5, <3>6 DEF EnDisco
    <2> QED BY <1>1, <2>2, <2>3 DEF Cursa, EnDisco
  <1>18. Antes' > 1 => peticion'.fcb.indirecto # SinBloque
    BY <1>5, <1>8 DEF Cursa
  <1> QED BY <1>8, <1>13, <1>14, <1>15, <1>16, <1>17, <1>18, ICaidaSi DEF Bien

-----------------------------------------------------------------------------
(* What the disk has of the file, while it is not between its two saves.   *)

LEMMA Achicando ==
  ASSUME Cursa, peticion.paso \in Achican
  PROVE  /\ peticion.fcb.tam < peticion.tam_ant
         /\ Antes \in Nat \ {0} /\ Total \in Nat /\ Total <= Antes
         /\ EnJuego = Sitios(Antes)
         /\ \A i \in Sitios(Total) : i \in Sitios(Antes)
         /\ \A i : Toma(i) = De(peticion.fcb, i)
         /\ peticion.paso \notin Crecen
  <1>1. EsPeticion /\ TypeOKB /\ CuentaAchica
    BY DEF Cursa, TiposC
  <1>2. peticion.fcb.tam < peticion.tam_ant
    BY <1>1 DEF CuentaAchica
  <1>3. Antes \in Nat \ {0} /\ Total \in Nat /\ Total <= Antes
    BY <1>1, <1>2, Tamanos
  <1>4. EnJuego = Sitios(Antes)
    BY DEF EnJuego, Achican
  <1>5. \A i : Toma(i) = De(peticion.fcb, i)
    BY DeSon DEF Achican
  <1>6. peticion.paso \notin Crecen
    BY DEF Crecen, Achican
  <1>7. \A i \in Sitios(Total) : i \in Sitios(Antes)
    BY <1>3 DEF Sitios
  <1> QED BY <1>2, <1>3, <1>4, <1>5, <1>6, <1>7

LEMMA EnElDisco ==
  ASSUME Cursa, ~EntreGuardados, NEW f, f = peticion.f
  PROVE  /\ \A i \in Lugares(f) :
              i \in EnJuego /\ i \in Seguros(f) /\ BloqueEn(f, i) = Toma(i)
         /\ Ocupa(FCB[f].tam) > 1 => FCB[f].indirecto # SinBloque
  <1>1. /\ EsPeticion /\ TypeOKB /\ CuentaCrece
        /\ Antes > 1 => peticion.fcb.indirecto # SinBloque
    BY DEF Cursa, TiposC
  <1>2. /\ f \in Archivos /\ peticion.paso # "libre" /\ EnCurso(f)
        /\ Antes \in Nat /\ Total \in Nat
    BY <1>1, Tamanos DEF EnCurso
  <1>3. CASE /\ peticion.paso \in Crecen \union {"guardar_tam"}
             /\ FCB[f].tam = peticion.tam_ant
             /\ \A i \in Sitios(Antes) : i \in EnJuego /\ Toma(i) = BloqueEn(f, i)
    <2>1. Lugares(f) = Sitios(Antes) /\ Ocupa(FCB[f].tam) = Antes
      BY <1>2, <1>3, LugaresSon DEF Antes
    <2>2. Seguros(f) = EnJuego
      BY <1>2, <1>3, DeUno DEF Crecen, GuardaYa, Achican
    <2>3. Antes > 1 => FCB[f].indirecto # SinBloque
      <3>1. Antes > 1 => 0 \in Sitios(Antes)
        BY <1>2, SitiosSon
      <3>2. Toma(0) = peticion.fcb.indirecto /\ BloqueEn(f, 0) = FCB[f].indirecto
        BY <1>2, LugaresSon DEF Toma
      <3> QED BY <1>1, <1>3, <3>1, <3>2
    <2> QED BY <1>3, <2>1, <2>2, <2>3
  <1>4. CASE /\ peticion.paso \in {"datos", "punteros", "guardar"} \union GuardaYa
             /\ FCB[f] = peticion.fcb
    <2>1. peticion.paso \notin {"datos", "punteros"}
      BY <1>4 DEF EntreGuardados
    <2>2. Lugares(f) = Sitios(Total) /\ Ocupa(FCB[f].tam) = Total
      BY <1>2, <1>4, LugaresSon DEF Total
    <2>3. \A i : BloqueEn(f, i) = Toma(i)
      BY <1>4, <2>1, DeSon
    <2>4. CASE peticion.paso = "guardar"
      <3>1. EnJuego = Sitios(Total) /\ Seguros(f) = EnJuego
        BY <1>2, <2>4, DeUno DEF EnJuego, GuardaYa, Achican
      <3>2. Total > 1 => peticion.fcb.indirecto # SinBloque
        BY <1>1, <2>4 DEF CuentaCrece, Crecen
      <3> QED BY <1>4, <2>2, <2>3, <3>1, <3>2
    <2>5. CASE peticion.paso \in GuardaYa
      <3>1. peticion.paso \in Achican
        BY <2>5 DEF GuardaYa
      <3>2. /\ EnJuego = Sitios(Antes) /\ \A i \in Sitios(Total) : i \in Sitios(Antes)
            /\ Total <= Antes
        BY <3>1, Achicando
      <3>3. Seguros(f) = Sitios(Total)
        BY <1>2, <2>5, DeUno
      <3>4. Total > 1 => Antes > 1
        BY <1>2, <3>2
      <3> QED BY <1>1, <1>4, <2>2, <2>3, <3>2, <3>3, <3>4
    <2> QED BY <1>4, <2>1, <2>4, <2>5
  <1> QED BY <1>3, <1>4 DEF Cursa, EnDisco

-----------------------------------------------------------------------------
(* The end of asignar_bloques.                                             *)

LEMMA EscribirPunterosBien ==
  ASSUME Cursa, Marco, EscribirPunteros
  PROVE  Bien
  <1>1. PICK f, x : f = peticion.f /\ x = peticion.fcb.indirecto
    OBVIOUS
  <1>2. EsPeticion /\ TypeOKB /\ peticion.paso = "punteros" /\ x # SinBloque
    BY <1>1 DEF Cursa, TiposC, EscribirPunteros, En
  <1> DEFINE base == Base(Antes)
             n == Len(peticion.lista)
             u == IF Antes = 0 THEN 0 ELSE Antes - 1
  <1>3. peticion.tam_ant < peticion.fcb.tam /\ Total > 1 /\ base + n = Total
    BY <1>2 DEF Cursa, CuentaCrece, Crecen
  <1>4. /\ Total \in Nat /\ Antes \in Nat /\ base \in Nat \ {0} /\ Antes <= base
        /\ Total <= BLOCK_SIZE + 1
        /\ peticion.lista \in Seq(Valores) /\ n \in Nat /\ f \in Archivos
        /\ DOMAIN peticion.lista = 1 .. n /\ x \in Bloques
        /\ peticion.faltan \in 0 .. BLOCK_SIZE + 1 /\ peticion.fcb \in EsFCB
    BY <1>1, <1>2, Tamanos, LenProperties DEF EsPeticion, Valores
  <1>5. u = base - 1
    BY <1>4 DEF Base
  <1>6. PICK q, c, k, l :
          /\ Queda(q, c, k, l) /\ q = "guardar" /\ c = peticion.fcb
          /\ k = peticion.faltan /\ l = peticion.lista
    BY <1>2, SoloElPaso, QuedaCon DEF EscribirPunteros
  <1>7. /\ punteros' = [punteros EXCEPT ![x] =
                          [i \in Indices |-> IF i - u + 1 \in DOMAIN peticion.lista
                                             THEN peticion.lista[i - u + 1]
                                             ELSE punteros[x][i]]]
        /\ bitmap' = bitmap /\ FCB' = FCB
    BY <1>1 DEF EscribirPunteros
  <1> HIDE DEF base, n, u
  <1>8. /\ punteros' \in [Bloques -> [Indices -> Valores]]
        /\ \A b : b # x => punteros'[b] = punteros[b]
        /\ \A i \in Indices : punteros'[x][i] = IF i - u + 1 \in DOMAIN peticion.lista
                                                THEN peticion.lista[i - u + 1]
                                                ELSE punteros[x][i]
    <2>1. punteros \in [Bloques -> [Indices -> Valores]]
      BY <1>2 DEF TypeOKB, Valores
    <2> DEFINE fila == [i \in Indices |-> IF i - u + 1 \in DOMAIN peticion.lista
                                          THEN peticion.lista[i - u + 1]
                                          ELSE punteros[x][i]]
    <2>2. fila \in [Indices -> Valores]
      BY <1>4, <2>1, ElementOfSeq
    <2>3. punteros' = [punteros EXCEPT ![x] = fila]
      BY <1>7
    <2>4. \A i \in Indices : fila[i] = IF i - u + 1 \in DOMAIN peticion.lista
                                       THEN peticion.lista[i - u + 1]
                                       ELSE punteros[x][i]
      OBVIOUS
    <2> HIDE DEF fila
    <2>5. punteros'[x] = fila
      BY <1>4, <2>1, <2>3
    <2>6. \A b : b # x => punteros'[b] = punteros[b]
      BY <2>1, <2>3
    <2>7. punteros' \in [Bloques -> [Indices -> Valores]]
      BY <2>1, <2>2, <2>3
    <2> QED BY <2>4, <2>5, <2>6, <2>7
  <1>9. /\ EsPeticion' /\ peticion'.paso = q /\ peticion'.f = f
        /\ peticion'.tam_ant = peticion.tam_ant /\ peticion'.fcb = c
        /\ peticion'.faltan = k /\ peticion'.lista = l
        /\ Antes' = Antes /\ Total' = Total
        /\ EnJuego' = Sitios(Total)
        /\ Toma(0)' = c.indirecto /\ Toma(1)' = c.directo
        /\ \A i : i \notin {0, 1} => Toma(i)' = punteros'[c.indirecto][i - 2]
    <2>1. /\ Queda(q, c, k, l) /\ c \in EsFCB /\ c.tam = peticion.fcb.tam
          /\ k \in 0 .. BLOCK_SIZE + 1 /\ l \in Seq(Valores)
      BY <1>4, <1>6
    <2>2. q \in Crecen \union Achican /\ q \notin {"datos", "punteros"}
          /\ q \in {"punteros", "guardar"}
      BY <1>6 DEF Crecen
    <2> QED BY <1>1, <2>1, <2>2, QuedaBien
  <1>10. /\ EnJuego = Sitios(Total)
         /\ Toma(0) = x /\ Toma(1) = peticion.fcb.directo
         /\ \A i : i \notin {0, 1} =>
              /\ i > base => Toma(i) = peticion.lista[i - base]
              /\ ~(i > base) => Toma(i) = punteros[x][i - 2]
    BY <1>1, <1>2 DEF EnJuego, Toma, base
  <1>11. \A i \in Sitios(Total) : Toma(i)' = Toma(i)
    <2> SUFFICES ASSUME NEW i \in Sitios(Total)
                 PROVE  Toma(i)' = Toma(i)
      OBVIOUS
    <2>1. CASE i = 0
      <3>1. Toma(0)' = Toma(0)
        BY <1>1, <1>6, <1>9, <1>10
      <3> QED BY <2>1, <3>1
    <2>2. CASE i = 1
      <3>1. Toma(1)' = Toma(1)
        BY <1>1, <1>6, <1>9, <1>10
      <3> QED BY <2>2, <3>1
    <2>3. CASE i \notin {0, 1}
      <3>1. i \in 2 .. Total
        BY <1>4, <2>3, SitiosSon
      <3>2. i - 2 \in Indices
        BY <1>4, <3>1, BloquesAssumption DEF Indices
      <3>3. (i - 2) - u + 1 = i - base
        BY <1>4, <1>5, <3>1
      <3>4. Toma(i)' = punteros'[x][i - 2]
        BY <1>1, <1>6, <1>9, <2>3
      <3>5. Toma(i)' = IF i - base \in DOMAIN peticion.lista THEN peticion.lista[i - base]
                       ELSE punteros[x][i - 2]
        BY <1>8, <3>2, <3>3, <3>4
      <3>6. i - base \in 1 .. n <=> i > base
        BY <1>3, <1>4, <3>1
      <3> QED BY <1>4, <1>10, <2>3, <3>5, <3>6
    <2> QED BY <2>1, <2>2, <2>3
  <1>12. TiposC'
    BY <1>2, <1>7, <1>8, TiposSigue DEF TypeOKB
  <1>13. Ajeno
    <2>1. 0 \in EnJuego
      BY <1>3, <1>4, <1>10, SitiosSon
    <2> QED BY <1>1, <1>2, <1>7, <1>8, <2>1, SonAjenos
  <1>14. Separados' /\ Marcados' /\ LosDemas'
    <2>1. EnCurso(f)' /\ peticion'.paso \notin GuardaYa /\ EnCurso(f)
          /\ peticion.paso \notin GuardaYa
      BY <1>1, <1>2, <1>6, <1>9 DEF EnCurso, GuardaYa, Achican
    <2>2. Seguros(f)' = EnJuego' /\ Seguros(f) = EnJuego
      BY <2>1, DeUno
    <2>3. \A g \in Archivos : \A i \in Seguros(g) :
           Tiene(g, i) \in bitmap => Tiene(g, i) \in bitmap'
      BY <1>7
    <2>4. \A i \in EnJuego' : i \in EnJuego /\ Toma(i)' = Toma(i)
      BY <1>9, <1>10, <1>11
    <2>5. EsPeticion' /\ peticion'.f = f
      BY <1>9
    <2> QED BY <1>1, <1>13, <2>2, <2>3, <2>4, <2>5, VistaSigue
  <1>15. CuentaCrece' /\ CuentaAchica'
    BY <1>1, <1>2, <1>3, <1>6, <1>9 DEF CuentaCrece, CuentaAchica, Crecen, Achican
  <1>16. ASSUME FCB[f].tam = peticion.tam_ant,
                \A i \in Sitios(Antes) : i \in EnJuego /\ Toma(i) = BloqueEn(f, i)
         PROVE  \A i \in Sitios(Antes) : i \in EnJuego' /\ Toma(i)' = BloqueEn(f, i)'
    <2> SUFFICES ASSUME NEW i \in Sitios(Antes)
                 PROVE  BloqueEn(f, i)' = BloqueEn(f, i)
      BY <1>9, <1>10, <1>11, <1>16
    <2>1. CASE i \in {0, 1}
      BY <1>4, <1>7, <2>1, LugaresSon
    <2>2. CASE i \notin {0, 1}
      <3>1. Antes > 1 /\ 0 \in Sitios(Antes)
        BY <1>4, <2>2, SitiosSon
      <3>2. FCB[f].indirecto = x
        BY <1>4, <1>10, <1>16, <3>1, LugaresSon
      <3>3. BloqueEn(f, i)' = punteros'[x][i - 2]
        BY <1>4, <1>7, <2>2, <3>2, LugaresSon
      <3>4. Toma(i)' = punteros'[x][i - 2]
        BY <1>1, <1>6, <1>9, <2>2
      <3>5. Toma(i)' = Toma(i) /\ Toma(i) = BloqueEn(f, i)
        BY <1>10, <1>11, <1>16
      <3> QED BY <3>3, <3>4, <3>5
    <2> QED BY <2>1, <2>2
  <1>17. EnDisco'
    <2>1. CASE FCB[f] = peticion.fcb
      BY <1>6, <1>7, <1>9, <2>1 DEF EnDisco
    <2>2. CASE /\ FCB[f].tam = peticion.tam_ant
               /\ \A i \in Sitios(Antes) : i \in EnJuego /\ Toma(i) = BloqueEn(f, i)
      <3>1. FCB'[peticion'.f].tam = peticion'.tam_ant
        BY <1>7, <1>9, <2>2
      <3>2. Sitios(Antes)' = Sitios(Antes)
        BY <1>9 DEF Sitios
      <3>3. \A i \in Sitios(Antes)' : i \in EnJuego' /\ Toma(i)' = BloqueEn(f, i)'
        BY <1>16, <2>2, <3>2
      <3>4. peticion'.paso \in Crecen
        BY <1>6, <1>9 DEF Crecen
      <3> QED BY <1>9, <3>1, <3>3, <3>4 DEF EnDisco
    <2> QED BY <1>1, <2>1, <2>2 DEF Cursa, EnDisco
  <1>18. ~EntreGuardados => Conserva
    <2> SUFFICES ASSUME ~EntreGuardados
                 PROVE  Conserva
      OBVIOUS
    <2>1. /\ FCB[f].tam = peticion.tam_ant
          /\ \A i \in Sitios(Antes) : i \in EnJuego /\ Toma(i) = BloqueEn(f, i)
      BY <1>1, <1>2 DEF EntreGuardados, Cursa, EnDisco
    <2>2. Lugares(f) = Sitios(Antes)
      BY <1>4, <2>1, LugaresSon DEF Antes
    <2>3. \A i \in Lugares(f) : BloqueEn(f, i)' = BloqueEn(f, i)
      BY <1>9, <1>10, <1>11, <1>16, <2>1, <2>2
    <2> QED BY <1>1, <1>13, <2>3, ConservaSi
  <1>19. Antes' > 1 => peticion'.fcb.indirecto # SinBloque
    BY <1>1, <1>2, <1>6, <1>9
  <1> QED BY <1>9, <1>12, <1>14, <1>15, <1>17, <1>18, <1>19, ICaidaSi DEF Bien

LEMMA GuardarFinalBien ==
  ASSUME Cursa, Marco, GuardarFinal
  PROVE  Bien
  <1>1. PICK f : f = peticion.f
    OBVIOUS
  <1>2. /\ EsPeticion /\ TypeOKB /\ peticion.paso = "guardar"
        /\ actualizar_FCB /\ peticion' = Ninguna
    BY DEF Cursa, TiposC, GuardarFinal, En, Terminar
  <1>3. /\ f \in Archivos /\ FCB'[f] = peticion.fcb
        /\ FCB' = [FCB EXCEPT ![peticion.f] = peticion.fcb]
        /\ bitmap' = bitmap /\ punteros' = punteros
        /\ Lugares(f)' = Sitios(Total)
        /\ \A i : BloqueEn(f, i)' = De(peticion.fcb, i)
        /\ Ajeno
    BY <1>1, <1>2, Guardado
  <1>4. EnJuego = Sitios(Total) /\ \A i : Toma(i) = De(peticion.fcb, i)
    BY <1>2, DeSon DEF EnJuego
  <1>5. Seguros(f) = EnJuego
    BY <1>1, <1>2, DeUno DEF EnCurso, GuardaYa, Achican
  <1>6. Total > 1 => peticion.fcb.indirecto # SinBloque
    BY <1>2 DEF Cursa, CuentaCrece, Crecen
  <1>7. TiposC'
    BY <1>2, <1>3, TiposSigue DEF TypeOKB, Valores
  <1>8. Separados' /\ Marcados' /\ LosDemas'
    <2>1. Ocupa(FCB'[f].tam) > 1 => FCB'[f].indirecto # SinBloque
      BY <1>3, <1>6 DEF Total
    <2>2. \A i \in Lugares(f)' : i \in EnJuego /\ i \in Seguros(f) /\ BloqueEn(f, i)' = Toma(i)
      BY <1>3, <1>4, <1>5
    <2> QED BY <1>1, <1>2, <1>3, <2>1, <2>2, VistaTermina
  <1>9. ~EntreGuardados => Conserva
    <2> SUFFICES ASSUME ~EntreGuardados
                 PROVE  Conserva
      OBVIOUS
    <2>1. \A i \in Lugares(f) : BloqueEn(f, i) = Toma(i)
      BY <1>1, EnElDisco
    <2>2. \A i \in Lugares(f) : BloqueEn(f, i)' = BloqueEn(f, i)
      BY <1>3, <1>4, <2>1
    <2> QED BY <1>1, <1>3, <2>2, ConservaSi
  <1>10. ICaida'
    BY <1>2, <1>7, <1>8 DEF Cursa, Marco, ICaida, PeticionBien
  <1> QED BY <1>9, <1>10 DEF Bien

-----------------------------------------------------------------------------
(* liberar_bloques, store by store.                                        *)

\* Once the new size is saved the disk has the FCB of the request.
LEMMA YaGuardado ==
  ASSUME Cursa, peticion.paso \in GuardaYa
  PROVE  FCB[peticion.f] = peticion.fcb /\ peticion.paso \in Achican
         /\ peticion.paso # "guardar_tam"
  BY DEF Cursa, EnDisco, GuardaYa, Achican, Crecen

\* A step of the reduction that goes on, once the size is saved.
LEMMA AchicaSigue ==
  ASSUME Cursa, Marco, peticion.paso \in Achican,
         NEW q \in GuardaYa, NEW k \in 0 .. BLOCK_SIZE + 1, NEW l \in Seq(Valores),
         Queda(q, peticion.fcb, k, l), NEW f, f = peticion.f,
         FCB' = FCB \/ FCB' = [FCB EXCEPT ![peticion.f] = peticion.fcb],
         FCB'[f] = peticion.fcb, punteros' = punteros, bitmap' \subseteq bitmap,
         \A g \in Archivos : \A i \in Seguros(g) :
           Tiene(g, i) \in bitmap => Tiene(g, i) \in bitmap'
  PROVE  /\ peticion'.paso = q /\ peticion'.fcb = peticion.fcb
         /\ peticion'.tam_ant = peticion.tam_ant
         /\ peticion'.faltan = k /\ peticion'.lista = l
         /\ Antes' = Antes /\ Total' = Total
         /\ Base(Total)' = Base(Total)
         /\ \A i : Toma(i)' = Toma(i)
         /\ Ajeno
         /\ CuentaAchica' => ICaida'
  <1>1. EsPeticion /\ TypeOKB /\ f \in Archivos /\ peticion.fcb \in EsFCB
    BY Tamanos DEF Cursa, TiposC
  <1>2. q \in Achican /\ q # "guardar_tam" /\ q \in Crecen \union Achican
    BY DEF GuardaYa
  <1>3. q \notin Crecen /\ q \notin {"datos", "punteros"}
    BY DEF GuardaYa, Achican, Crecen
  <1>4. /\ EsPeticion' /\ peticion'.paso = q /\ peticion'.f = f
        /\ peticion'.tam_ant = peticion.tam_ant /\ peticion'.fcb = peticion.fcb
        /\ peticion'.faltan = k /\ peticion'.lista = l
        /\ Antes' = Antes /\ Total' = Total
        /\ EnJuego' = Sitios(Antes)
    BY <1>1, <1>2, QuedaBien
  <1>5. /\ EnJuego = Sitios(Antes) /\ \A i : Toma(i) = De(peticion.fcb, i)
        /\ \A i \in Sitios(Total) : i \in Sitios(Antes)
    BY Achicando
  <1>6. \A i : Toma(i)' = Toma(i)
    <2>1. \A i : Toma(i)' = De(peticion.fcb, i)'
      BY <1>3, <1>4, DeSon
    <2>2. \A i : De(peticion.fcb, i)' = De(peticion.fcb, i)
      BY <1>4 DEF De
    <2> QED BY <1>5, <2>1, <2>2
  <1>7. Ajeno
    <2>1. \A g \in Archivos : g # peticion.f => FCB'[g] = FCB[g]
      BY <1>1 DEF TypeOKB
    <2> QED BY <2>1, SonAjenos
  <1>8. TiposC'
    BY <1>1, TiposSigue DEF TypeOKB, Valores
  <1>9. EnCurso(f) /\ EnCurso(f)'
    BY <1>1, <1>4, Tamanos, Pasos DEF EnCurso, EsPeticion
  <1>10. Seguros(f)' = Sitios(Total)
    <2>1. Sitios(Total)' = Sitios(Total)
      BY <1>4 DEF Sitios
    <2> QED BY <1>4, <1>9, <2>1, DeUno
  <1>11. Seguros(f) = Sitios(Total) \/ Seguros(f) = Sitios(Antes)
    BY <1>5, <1>9, DeUno
  <1>12. Separados' /\ Marcados' /\ LosDemas'
    <2>1. \A i \in EnJuego' : i \in EnJuego /\ Toma(i)' = Toma(i)
      BY <1>4, <1>5, <1>6
    <2>2. \A i \in Seguros(f)' : i \in EnJuego' /\ i \in Seguros(f) /\ Toma(i)' = Toma(i)
      BY <1>4, <1>5, <1>6, <1>10, <1>11
    <2>3. EsPeticion' /\ peticion'.f = f
      BY <1>4
    <2> QED BY <1>7, <2>1, <2>2, <2>3, VistaSigue
  <1>13. CuentaCrece'
    BY <1>3, <1>4 DEF CuentaCrece
  <1>14. EnDisco'
    BY <1>4 DEF EnDisco
  <1>15. Antes' > 1 => peticion'.fcb.indirecto # SinBloque
    BY <1>4 DEF Cursa
  <1>16. Base(Total)' = Base(Total)
    BY <1>4 DEF Base
  <1> QED BY <1>4, <1>6, <1>7, <1>8, <1>12, <1>13, <1>14, <1>15, <1>16, ICaidaSi

\* The bit that is cleared is that of a block the file will not have.
LEMMA LimpiarSeguro ==
  ASSUME Cursa, peticion.paso \in GuardaYa, NEW x, Limpiar(x),
         NEW j \in Sitios(Antes), j \notin Sitios(Total), Toma(j) = x
  PROVE  /\ bitmap' \subseteq bitmap
         /\ \A g \in Archivos : \A i \in Seguros(g) :
              Tiene(g, i) \in bitmap => Tiene(g, i) \in bitmap'
  <1>1. x # SinBloque /\ bitmap' = bitmap \ {x}
    BY DEF Limpiar
  <1>2. PICK f : f = peticion.f
    OBVIOUS
  <1>3. f \in Archivos /\ EnCurso(f)
    BY <1>2, Tamanos DEF Cursa, TiposC, EnCurso
  <1>4. /\ EnJuego = Sitios(Antes) /\ \A i \in Sitios(Total) : i \in Sitios(Antes)
    BY YaGuardado, Achicando
  <1>5. /\ Seguros(f) = Sitios(Total) /\ LugaresDe(f) = Sitios(Antes)
        /\ Tiene(f, j) = x
    BY <1>3, <1>4, DeUno
  <1>6. ASSUME NEW g \in Archivos, NEW i \in Seguros(g), Tiene(g, i) = x
        PROVE  FALSE
    <2>1. i \in LugaresDe(g)
      BY <1>2, <1>4, <1>5, DeUno DEF EnCurso
    <2>2. g = f /\ i = j
      BY <1>1, <1>3, <1>5, <1>6, <2>1 DEF Cursa, Separados
    <2> QED BY <1>5, <2>2
  <1> QED BY <1>1, <1>6

LEMMA GuardarTamanioBien ==
  ASSUME Cursa, Marco, GuardarTamanio
  PROVE  Bien
  <1>1. PICK f : f = peticion.f
    OBVIOUS
  <1>2. EsPeticion /\ TypeOKB /\ peticion.paso = "guardar_tam" /\ peticion.paso \in Achican
    BY DEF Cursa, TiposC, GuardarTamanio, En, Achican
  <1>3. peticion.fcb.tam < peticion.tam_ant /\ peticion.faltan = Antes - Total
    BY <1>2 DEF Cursa, CuentaAchica
  <1>4. /\ Antes \in Nat \ {0} /\ Total \in Nat /\ Total <= Antes
        /\ \A i : Toma(i) = De(peticion.fcb, i)
    BY <1>2, Achicando
  <1>5. PICK q, k, l :
          /\ Queda(q, peticion.fcb, k, l)
          /\ q = IF Total = 0 THEN "limpiar_directo" ELSE IF Antes > 1 THEN "leer" ELSE "fin"
          /\ k = peticion.faltan /\ l = peticion.lista
    BY <1>2, GuardarTamanioHace
  <1>6. /\ f \in Archivos /\ FCB'[f] = peticion.fcb
        /\ FCB' = [FCB EXCEPT ![peticion.f] = peticion.fcb]
        /\ bitmap' = bitmap /\ punteros' = punteros
        /\ \A i : BloqueEn(f, i)' = De(peticion.fcb, i)
        /\ Ajeno
    BY <1>1, <1>2, GuardarTamanioHace, Guardado
  <1>7. q \in GuardaYa /\ k \in 0 .. BLOCK_SIZE + 1 /\ l \in Seq(Valores)
    BY <1>2, <1>5 DEF GuardaYa, Achican, EsPeticion
  <1>8. /\ peticion'.paso = q /\ peticion'.fcb = peticion.fcb
        /\ peticion'.tam_ant = peticion.tam_ant
        /\ peticion'.faltan = k /\ Antes' = Antes /\ Total' = Total
        /\ Base(Total)' = Base(Total)
        /\ CuentaAchica' => ICaida'
    BY <1>1, <1>2, <1>5, <1>6, <1>7, AchicaSigue
  <1>9. CuentaAchica'
    <2>1. CASE Total = 0
      BY <1>3, <1>5, <1>8, <2>1 DEF CuentaAchica
    <2>2. CASE Total # 0 /\ Antes > 1
      <3>1. Base(Total) = Total
        BY <2>2 DEF Base
      <3> QED BY <1>3, <1>5, <1>8, <2>2, <3>1 DEF CuentaAchica
    <2>3. CASE Total # 0 /\ ~(Antes > 1)
      BY <1>3, <1>5, <1>8, <2>3 DEF CuentaAchica
    <2> QED BY <2>1, <2>2, <2>3
  <1>10. Conserva
    <2>1. ~EntreGuardados
      BY <1>2 DEF EntreGuardados
    <2>2. \A i \in Lugares(f) : BloqueEn(f, i)' = BloqueEn(f, i)
      BY <1>1, <1>4, <1>6, <2>1, EnElDisco
    <2> QED BY <1>1, <1>6, <2>2, ConservaSi
  <1> QED BY <1>8, <1>9, <1>10 DEF Bien

LEMMA LimpiarDirectoBien ==
  ASSUME Cursa, Marco, LimpiarDirecto
  PROVE  Bien
  <1>1. PICK f : f = peticion.f
    OBVIOUS
  <1>2. /\ EsPeticion /\ TypeOKB /\ peticion.paso = "limpiar_directo"
        /\ peticion.paso \in GuardaYa
    BY DEF Cursa, TiposC, LimpiarDirecto, En, GuardaYa, Achican
  <1>3. FCB[f] = peticion.fcb /\ peticion.paso \in Achican
    BY <1>1, <1>2, YaGuardado
  <1>4. /\ peticion.fcb.tam < peticion.tam_ant
        /\ peticion.faltan = Antes - Total /\ Total = 0
    BY <1>2, <1>3 DEF Cursa, CuentaAchica
  <1>5. Antes \in Nat \ {0} /\ Antes <= BLOCK_SIZE + 1
    BY <1>2, <1>3, Achicando, Tamanos
  <1>6. PICK q, k, l :
          /\ Queda(q, peticion.fcb, k, l)
          /\ q = IF Antes > 1 THEN "leer" ELSE "fin"
          /\ k = Antes - 1 /\ l = peticion.lista
    BY <1>2, <1>4, <1>5, LimpiarDirectoHace
  <1>7. FCB' = FCB /\ punteros' = punteros /\ Limpiar(peticion.fcb.directo)
    BY <1>2, LimpiarDirectoHace DEF Limpiar
  <1>8. /\ bitmap' \subseteq bitmap
        /\ \A g \in Archivos : \A i \in Seguros(g) :
              Tiene(g, i) \in bitmap => Tiene(g, i) \in bitmap'
    <2>1. 1 \in Sitios(Antes) /\ 1 \notin Sitios(Total)
      BY <1>4, <1>5 DEF Sitios
    <2>2. Toma(1) = peticion.fcb.directo
      BY DEF Toma
    <2> QED BY <1>2, <1>7, <2>1, <2>2, LimpiarSeguro
  <1>9. q \in GuardaYa /\ k \in 0 .. BLOCK_SIZE + 1 /\ l \in Seq(Valores)
    BY <1>2, <1>5, <1>6, BloquesAssumption DEF GuardaYa, Achican, EsPeticion
  <1>10. /\ peticion'.paso = q /\ peticion'.fcb = peticion.fcb
         /\ peticion'.tam_ant = peticion.tam_ant
         /\ peticion'.faltan = k /\ Antes' = Antes /\ Total' = Total
         /\ Base(Total)' = Base(Total)
         /\ CuentaAchica' => ICaida'
    BY <1>1, <1>3, <1>6, <1>7, <1>8, <1>9, AchicaSigue
  <1>11. CuentaAchica'
    <2>1. Base(Total) = 1
      BY <1>4 DEF Base
    <2> QED BY <1>4, <1>6, <1>10, <2>1 DEF CuentaAchica
  <1>12. Conserva
    BY <1>7, DiscoIgual
  <1> QED BY <1>10, <1>11, <1>12 DEF Bien

LEMMA LeerPunterosBien ==
  ASSUME Cursa, Marco, LeerPunteros
  PROVE  Bien
  <1>1. PICK f, x : f = peticion.f /\ x = peticion.fcb.indirecto
    OBVIOUS
  <1>2. /\ EsPeticion /\ TypeOKB /\ peticion.paso = "leer"
        /\ peticion.paso \in GuardaYa
    BY DEF Cursa, TiposC, LeerPunteros, En, GuardaYa, Achican
  <1>3. FCB[f] = peticion.fcb /\ peticion.paso \in Achican
    BY <1>1, <1>2, YaGuardado
  <1> DEFINE base == Base(Total)
             n == peticion.faltan
  <1>4. peticion.fcb.tam < peticion.tam_ant /\ Antes > 1 /\ n = Antes - base
    BY <1>2, <1>3 DEF Cursa, CuentaAchica
  <1>5. /\ Antes \in Nat \ {0} /\ Antes <= BLOCK_SIZE + 1 /\ base \in Nat \ {0}
        /\ Total \in Nat /\ n \in 0 .. BLOCK_SIZE + 1 /\ n \in Nat
        /\ x \in Valores
    BY <1>1, <1>2, <1>3, Achicando, Tamanos, BloquesAssumption DEF EsPeticion
  <1>6. FCB' = FCB /\ punteros' = punteros /\ bitmap' = bitmap
    BY DEF LeerPunteros
  <1>7. Conserva
    BY <1>6, DiscoIgual
  <1>8. CASE n = 0
    <2>1. PICK q, k, l :
            /\ Queda(q, peticion.fcb, k, l)
            /\ q = TrasDatos /\ k = n /\ l = peticion.lista
      BY <1>2, <1>5, <1>8, LeerPunterosHace
    <2>2. q \in GuardaYa /\ k \in 0 .. BLOCK_SIZE + 1 /\ l \in Seq(Valores)
      BY <1>2, <1>5, <2>1 DEF TrasDatos, GuardaYa, Achican, EsPeticion
    <2>3. /\ peticion'.paso = q /\ peticion'.fcb = peticion.fcb
          /\ peticion'.tam_ant = peticion.tam_ant
          /\ peticion'.faltan = k /\ Antes' = Antes /\ Total' = Total
          /\ CuentaAchica' => ICaida'
      BY <1>1, <1>3, <1>6, <2>1, <2>2, AchicaSigue
    <2>4. CuentaAchica'
      BY <1>4, <2>1, <2>3 DEF CuentaAchica, TrasDatos
    <2> QED BY <1>7, <2>3, <2>4 DEF Bien
  <1>9. CASE n > 0
    <2>1. PICK q, k, l :
            /\ Queda(q, peticion.fcb, k, l) /\ x # SinBloque
            /\ q = "limpiar_datos" /\ k = n
            /\ l = [j \in 1 .. n |-> punteros[x][Antes - 1 - n + j - 1]]
      BY <1>1, <1>2, <1>5, <1>9, LeerPunterosHace
    <2>2. ASSUME NEW j \in 1 .. n
          PROVE  /\ l[j] = Toma(base + j) /\ l[j] \in Valores
                 /\ base + j \in base + 1 .. Antes
      <3>1. Antes - 1 - n + j - 1 = base + j - 2 /\ base + j \in base + 1 .. Antes
            /\ base + j \notin {0, 1} /\ base + j - 2 \in Indices
        BY <1>4, <1>5, BloquesAssumption DEF Indices
      <3>2. l[j] = punteros[x][base + j - 2]
        BY <2>1, <3>1
      <3>3. Toma(base + j) = punteros[x][base + j - 2]
        <4>1. PICK i : i = base + j
          OBVIOUS
        <4>2. Toma(i) = De(peticion.fcb, i)
          BY <1>2, DeSon
        <4>3. De(peticion.fcb, i) = punteros[x][i - 2]
          BY <1>1, <3>1, <4>1 DEF De
        <4>4. i - 2 = base + j - 2
          BY <1>5, <4>1
        <4> QED BY <4>1, <4>2, <4>3, <4>4
      <3>4. x \in Bloques
        BY <1>5, <2>1 DEF Valores
      <3>5. punteros[x][base + j - 2] \in Valores
        BY <1>2, <3>1, <3>4 DEF TypeOKB, Valores
      <3> QED BY <3>1, <3>2, <3>3, <3>5
    <2> HIDE DEF base, n
    <2>3. l \in Seq(Valores) /\ DOMAIN l = 1 .. n /\ l # <<>>
      <3>1. l \in [1 .. n -> Valores] /\ n \in Nat
        BY <1>5, <2>1, <2>2
      <3>2. l \in Seq(Valores) /\ DOMAIN l = 1 .. n
        BY <3>1, SeqDef
      <3>3. 1 \in DOMAIN l /\ DOMAIN <<>> = {}
        BY <1>5, <1>9, <3>2
      <3> QED BY <3>2, <3>3
    <2>4. q \in GuardaYa /\ k \in 0 .. BLOCK_SIZE + 1
      BY <1>5, <2>1 DEF GuardaYa, Achican
    <2>5. /\ peticion'.paso = q /\ peticion'.fcb = peticion.fcb
          /\ peticion'.tam_ant = peticion.tam_ant
          /\ peticion'.lista = l /\ Antes' = Antes /\ Total' = Total
          /\ Base(Total)' = Base(Total)
          /\ \A i : Toma(i)' = Toma(i)
          /\ CuentaAchica' => ICaida'
      BY <1>1, <1>3, <1>6, <2>1, <2>3, <2>4, AchicaSigue
    <2>6. CuentaAchica'
      <3>1. \A j \in DOMAIN l : \E i \in base + 1 .. Antes : l[j] = Toma(i)'
        BY <2>2, <2>3, <2>5
      <3>2. (Base(Total) + 1 .. Antes)' = base + 1 .. Antes
        BY <2>5 DEF base
      <3>3. \A j \in DOMAIN peticion'.lista :
              \E i \in (Base(Total) + 1 .. Antes)' : peticion'.lista[j] = Toma(i)'
        BY <2>5, <3>1, <3>2
      <3> QED BY <1>4, <2>1, <2>3, <2>5, <3>3 DEF CuentaAchica
    <2> QED BY <1>7, <2>5, <2>6 DEF Bien
  <1> QED BY <1>5, <1>8, <1>9

LEMMA LimpiarDatoBien ==
  ASSUME Cursa, Marco, LimpiarDato
  PROVE  Bien
  <1>1. PICK f, p : f = peticion.f /\ p = peticion.lista
    OBVIOUS
  <1>2. /\ EsPeticion /\ TypeOKB /\ peticion.paso = "limpiar_datos"
        /\ peticion.paso \in GuardaYa
    BY DEF Cursa, TiposC, LimpiarDato, En, GuardaYa, Achican
  <1>3. FCB[f] = peticion.fcb /\ peticion.paso \in Achican
    BY <1>1, <1>2, YaGuardado
  <1> DEFINE base == Base(Total)
  <1>4. /\ peticion.fcb.tam < peticion.tam_ant /\ Antes > 1 /\ p # <<>>
        /\ \A j \in DOMAIN p : \E i \in base + 1 .. Antes : p[j] = Toma(i)
    BY <1>1, <1>2, <1>3 DEF Cursa, CuentaAchica
  <1>5. /\ Antes \in Nat \ {0} /\ base \in Nat \ {0} /\ Total \in Nat /\ Total <= base
        /\ p \in Seq(Valores) /\ peticion.faltan \in 0 .. BLOCK_SIZE + 1
    BY <1>1, <1>2, <1>4, Tamanos DEF EsPeticion, Achican
  <1> HIDE DEF base
  <1>6. /\ Tail(p) \in Seq(Valores)
        /\ DOMAIN Tail(p) = 1 .. Len(Tail(p))
        /\ \A j \in DOMAIN Tail(p) : j + 1 \in DOMAIN p /\ Tail(p)[j] = p[j + 1]
        /\ Head(p) = p[1] /\ 1 \in DOMAIN p
    <2>1. /\ Len(p) \in Nat /\ DOMAIN p = 1 .. Len(p)
      BY <1>5, LenProperties
    <2>2. /\ Tail(p) \in Seq(Valores) /\ Len(Tail(p)) = Len(p) - 1
          /\ \A j \in 1 .. Len(Tail(p)) : Tail(p)[j] = p[j + 1]
      BY <1>4, <1>5, HeadTailProperties
    <2>3. DOMAIN Tail(p) = 1 .. Len(Tail(p)) /\ Len(Tail(p)) \in Nat
      BY <2>2, LenProperties
    <2>4. \A j \in 1 .. Len(Tail(p)) : j + 1 \in 1 .. Len(p)
      BY <2>1, <2>2, <2>3
    <2>5. 1 \in 1 .. Len(p)
      BY <2>1, <2>2, <2>3
    <2>6. Head(p) = p[1]
      OBVIOUS
    <2> QED BY <2>1, <2>2, <2>3, <2>4, <2>5, <2>6
  <1>7. PICK q, k, l :
          /\ Queda(q, peticion.fcb, k, l)
          /\ q = IF Tail(p) = <<>> THEN TrasDatos ELSE "limpiar_datos"
          /\ k = peticion.faltan /\ l = Tail(p)
    BY <1>1, <1>2, LimpiarDatoHace
  <1>8. FCB' = FCB /\ punteros' = punteros /\ Limpiar(Head(p))
    BY <1>1, <1>2, LimpiarDatoHace DEF Limpiar
  <1>9. /\ bitmap' \subseteq bitmap
        /\ \A g \in Archivos : \A i \in Seguros(g) :
              Tiene(g, i) \in bitmap => Tiene(g, i) \in bitmap'
    <2>1. PICK i \in base + 1 .. Antes : Head(p) = Toma(i)
      BY <1>4, <1>6
    <2>2. i \in Sitios(Antes) /\ i \notin Sitios(Total)
      BY <1>4, <1>5, <2>1 DEF Sitios
    <2> QED BY <1>2, <1>8, <2>1, <2>2, LimpiarSeguro
  <1>10. q \in GuardaYa /\ k \in 0 .. BLOCK_SIZE + 1 /\ l \in Seq(Valores)
    BY <1>5, <1>6, <1>7 DEF TrasDatos, GuardaYa, Achican
  <1>11. /\ peticion'.paso = q /\ peticion'.fcb = peticion.fcb
         /\ peticion'.tam_ant = peticion.tam_ant
         /\ peticion'.lista = l /\ Antes' = Antes /\ Total' = Total
         /\ Base(Total)' = Base(Total)
         /\ \A i : Toma(i)' = Toma(i)
         /\ CuentaAchica' => ICaida'
    BY <1>1, <1>3, <1>7, <1>8, <1>9, <1>10, AchicaSigue
  <1>12. CuentaAchica'
    <2>1. \A j \in DOMAIN l : \E i \in base + 1 .. Antes : l[j] = Toma(i)'
      BY <1>4, <1>6, <1>7, <1>11
    <2>2. (Base(Total) + 1 .. Antes)' = base + 1 .. Antes
      BY <1>11 DEF base
    <2>3. \A j \in DOMAIN peticion'.lista :
            \E i \in (Base(Total) + 1 .. Antes)' : peticion'.lista[j] = Toma(i)'
      BY <1>11, <2>1, <2>2
    <2>4. /\ q = "limpiar_datos" => l # <<>>
          /\ q = "limpiar_indirecto" => Total <= 1
          /\ q \in {"limpiar_datos", "limpiar_indirecto", "fin"}
      BY <1>7 DEF TrasDatos
    <2> QED BY <1>4, <1>11, <2>3, <2>4 DEF CuentaAchica
  <1>13. Conserva
    BY <1>8, DiscoIgual
  <1> QED BY <1>11, <1>12, <1>13 DEF Bien

LEMMA LimpiarIndirectoBien ==
  ASSUME Cursa, Marco, LimpiarIndirecto
  PROVE  Bien
  <1>1. PICK f : f = peticion.f
    OBVIOUS
  <1>2. /\ EsPeticion /\ TypeOKB /\ peticion.paso = "limpiar_indirecto"
        /\ peticion.paso \in GuardaYa
    BY DEF Cursa, TiposC, LimpiarIndirecto, En, GuardaYa, Achican
  <1>3. FCB[f] = peticion.fcb /\ peticion.paso \in Achican
    BY <1>1, <1>2, YaGuardado
  <1>4. peticion.fcb.tam < peticion.tam_ant /\ Antes > 1 /\ Total <= 1
    BY <1>2, <1>3 DEF Cursa, CuentaAchica
  <1>5. Antes \in Nat /\ Total \in Nat
    BY <1>2, Tamanos
  <1>6. PICK q, k, l :
          /\ Queda(q, peticion.fcb, k, l)
          /\ q = "fin" /\ k = peticion.faltan /\ l = peticion.lista
    BY <1>2, SoloElPaso DEF LimpiarIndirecto
  <1>7. FCB' = FCB /\ punteros' = punteros /\ Limpiar(peticion.fcb.indirecto)
    BY DEF LimpiarIndirecto, Limpiar
  <1>8. /\ bitmap' \subseteq bitmap
        /\ \A g \in Archivos : \A i \in Seguros(g) :
              Tiene(g, i) \in bitmap => Tiene(g, i) \in bitmap'
    <2>1. 0 \in Sitios(Antes) /\ 0 \notin Sitios(Total)
      BY <1>4, <1>5, SitiosSon
    <2>2. Toma(0) = peticion.fcb.indirecto
      BY DEF Toma
    <2> QED BY <1>2, <1>7, <2>1, <2>2, LimpiarSeguro
  <1>9. q \in GuardaYa /\ k \in 0 .. BLOCK_SIZE + 1 /\ l \in Seq(Valores)
    BY <1>2, <1>6 DEF GuardaYa, Achican, EsPeticion
  <1>10. /\ peticion'.paso = q /\ peticion'.fcb = peticion.fcb
         /\ peticion'.tam_ant = peticion.tam_ant
         /\ CuentaAchica' => ICaida'
    BY <1>1, <1>3, <1>6, <1>7, <1>8, <1>9, AchicaSigue
  <1>11. CuentaAchica'
    BY <1>4, <1>6, <1>10 DEF CuentaAchica
  <1>12. Conserva
    BY <1>7, DiscoIgual
  <1> QED BY <1>10, <1>11, <1>12 DEF Bien

LEMMA FinDeLiberarBien ==
  ASSUME Cursa, Marco, FinDeLiberar
  PROVE  Bien
  <1>1. PICK f : f = peticion.f
    OBVIOUS
  <1>2. /\ EsPeticion /\ TypeOKB /\ peticion.paso = "fin" /\ peticion' = Ninguna
        /\ FCB' = FCB /\ punteros' = punteros /\ bitmap' = bitmap
    BY DEF Cursa, TiposC, FinDeLiberar, En, Terminar
  <1>3. ~EntreGuardados
    BY <1>2 DEF EntreGuardados
  <1>4. f \in Archivos
    BY <1>1, <1>2, Tamanos
  <1>5. TiposC'
    BY <1>2, TiposSigue DEF TypeOKB, Valores
  <1>6. Ajeno /\ Conserva /\ Lugares(f)' = Lugares(f)
        /\ \A i : BloqueEn(f, i)' = BloqueEn(f, i)
    BY <1>2, <1>4, DiscoIgual
  <1>7. Separados' /\ Marcados' /\ LosDemas'
    <2>1. \A i \in Lugares(f)' : i \in EnJuego /\ i \in Seguros(f) /\ BloqueEn(f, i)' = Toma(i)
      BY <1>1, <1>3, <1>6, EnElDisco
    <2>2. Ocupa(FCB'[f].tam) > 1 => FCB'[f].indirecto # SinBloque
      BY <1>1, <1>2, <1>3, EnElDisco
    <2> QED BY <1>1, <1>2, <1>6, <2>1, <2>2, VistaTermina
  <1>8. ICaida'
    BY <1>2, <1>5, <1>7 DEF Cursa, Marco, ICaida, PeticionBien
  <1> QED BY <1>6, <1>8 DEF Bien

-----------------------------------------------------------------------------
(* A request that begins.                                                  *)

\* Between two requests.
LEMMA Libre ==
  ASSUME ICaida, En("libre")
  PROVE  /\ peticion = Ninguna
         /\ \A g : ~EnCurso(g)
         /\ \A g : LugaresDe(g) = Lugares(g) /\ Seguros(g) = Lugares(g)
         /\ \A g, i : Tiene(g, i) = BloqueEn(g, i)
         /\ ~EntreGuardados
  <1>1. peticion = Ninguna
    BY Pasos DEF ICaida, PeticionBien, EsPeticion, En
  <1>2. \A g : ~EnCurso(g)
    BY DEF EnCurso, En
  <1>3. ~EntreGuardados
    BY DEF EntreGuardados, En
  <1> QED BY <1>1, <1>2, <1>3, DeUno

\* Where a request to take the file from size a to size t begins.
Empieza(a, t, k) ==
  IF t < a THEN "guardar_tam"
  ELSE IF a = 0 THEN "directo"
  ELSE IF Ocupa(t) > 1 /\ a <= BLOCK_SIZE THEN "indirecto"
  ELSE IF Ocupa(t) > 1 /\ k > 0 THEN "datos" ELSE "guardar"

Cuantos(a, t) == IF t > a THEN Ocupa(t) - Ocupa(a) ELSE Ocupa(a) - Ocupa(t)

LEMMA TruncarHace ==
  ASSUME NEW f \in Archivos, NEW t \in Nat, FCB[f] \in EsFCB, Truncar(f, t)
  PROVE  LET a == FCB[f].tam
             c == FCB_(t, FCB[f].directo, FCB[f].indirecto)
             k == Cuantos(a, t) IN
         /\ peticion' = Peticion_(Empieza(a, t, k), f, a, c, k, <<>>)
         /\ t # a /\ (t > a => t <= tam_max_arch)
  <1> DEFINE a == FCB[f].tam
             c == FCB_(t, FCB[f].directo, FCB[f].indirecto)
             k == Cuantos(a, t)
             p == Peticion_("libre", f, a, c, k, <<>>)
             q == Empieza(a, t, k)
  <1>1. [FCB[f] EXCEPT !.tam = t] = c
    BY DEF EsFCB, FCB_
  <1>2. /\ p.tam_ant = a /\ p.faltan = k /\ p.fcb = c
        /\ c.tam = t /\ a \in Nat
    BY CamposDe DEF FCB_, EsFCB
  <1> DEFINE p0 == [paso |-> "libre", f |-> f, tam_ant |-> FCB[f].tam,
                    fcb |-> [FCB[f] EXCEPT !.tam = t],
                    faltan |-> IF t > FCB[f].tam THEN Ocupa(t) - Ocupa(FCB[f].tam)
                               ELSE Ocupa(FCB[f].tam) - Ocupa(t),
                    lista |-> <<>>]
  <1>3. p0 = p
    BY <1>1 DEF Peticion_, Cuantos
  <1>4. \/ t < a /\ Ir(p0, PrimerPasoDeLiberar(p0))
        \/ t > a /\ t <= tam_max_arch /\ Ir(p0, IF a = 0 THEN "directo" ELSE TrasDirecto(p0))
    BY DEF Truncar
  <1> HIDE DEF p0, p, c, k, a
  <1>5. TrasDirecto(p) = IF Ocupa(t) > 1 /\ a <= BLOCK_SIZE THEN "indirecto"
                         ELSE IF Ocupa(t) > 1 /\ k > 0 THEN "datos" ELSE "guardar"
    BY <1>2 DEF TrasDirecto, TrasIndirecto
  <1>6. Ir(p, q) /\ t # a /\ (t > a => t <= tam_max_arch)
    <2>1. CASE t < a /\ Ir(p, PrimerPasoDeLiberar(p))
      BY <1>2, <2>1 DEF PrimerPasoDeLiberar, Empieza
    <2>2. CASE t > a /\ t <= tam_max_arch /\ Ir(p, IF a = 0 THEN "directo" ELSE TrasDirecto(p))
      BY <1>2, <1>5, <2>2 DEF Empieza
    <2> QED BY <1>3, <1>4, <2>1, <2>2
  <1> HIDE DEF q
  <1>7. ConPaso(p, q) = Peticion_(q, f, a, c, k, <<>>)
    BY DEF ConPaso, Peticion_, p
  <1>8. peticion' = Peticion_(q, f, a, c, k, <<>>)
    BY <1>6, <1>7 DEF Ir, ConPaso
  <1> QED BY <1>6, <1>8 DEF q, k, c, a

LEMMA TruncarBien ==
  ASSUME ICaida, NEW f \in Archivos, NEW t \in Nat, Truncar(f, t)
  PROVE  ICaida' /\ Conserva
  <1>1. /\ En("libre") /\ rotos = {} /\ pedidos < MaxPedidos /\ pedidos' = pedidos + 1
        /\ f \in existe
        /\ FCB' = FCB /\ punteros' = punteros /\ bitmap' = bitmap /\ existe' = existe
        /\ caido' = caido /\ caidas' = caidas /\ rotos' = rotos
    BY DEF Truncar, Recibe, disco
  <1>2. /\ TiposC /\ TypeOKB /\ Acotados /\ Separados /\ Marcados /\ LosDemas
        /\ FCB[f] \in EsFCB
    BY <1>1 DEF ICaida, TiposC, TypeOKB, EsFCB, Valores
  <1>3. PICK q, a, c, k :
          /\ peticion' = Peticion_(q, f, a, c, k, <<>>)
          /\ a = FCB[f].tam /\ c = FCB_(t, FCB[f].directo, FCB[f].indirecto)
          /\ k = Cuantos(a, t) /\ q = Empieza(a, t, k)
          /\ t # a /\ (t > a => t <= tam_max_arch)
    BY <1>2, TruncarHace
  <1>4. PICK A, T : A = Ocupa(a) /\ T = Ocupa(t)
    OBVIOUS
  <1>5. /\ a \in Nat /\ A \in Nat /\ T \in Nat /\ A <= BLOCK_SIZE + 1
        /\ A = 0 <=> a = 0
        /\ A <= 1 <=> a <= BLOCK_SIZE
        /\ T = 0 <=> t = 0
    BY <1>2, <1>3, <1>4, OcupaEs, OcupaCasos DEF EsFCB, Acotados
  <1>6. /\ t < a => T <= A
        /\ t > a => A <= T
        /\ T <= BLOCK_SIZE + 1
        /\ k = IF t > a THEN T - A ELSE A - T
    BY <1>3, <1>4, <1>5, OcupaCrece, OcupaMaxima, BloquesAssumption DEF Cuantos
  <1>7. /\ c \in EsFCB /\ c.tam = t /\ c.directo = FCB[f].directo
        /\ c.indirecto = FCB[f].indirecto
    BY <1>2, <1>3 DEF EsFCB, FCB_
  <1>8. /\ peticion'.paso = q /\ peticion'.f = f /\ peticion'.tam_ant = a
        /\ peticion'.fcb = c /\ peticion'.faltan = k /\ peticion'.lista = <<>>
        /\ peticion' = Peticion_(q, f, a, c, k, <<>>)
        /\ Antes' = A /\ Total' = T
    <2>1. /\ peticion'.paso = q /\ peticion'.f = f /\ peticion'.tam_ant = a
          /\ peticion'.fcb = c /\ peticion'.faltan = k /\ peticion'.lista = <<>>
          /\ peticion' = Peticion_(q, f, a, c, k, <<>>)
      BY <1>3, CamposDe
    <2> QED BY <1>4, <1>7, <2>1 DEF Antes, Total, Ocupa
  <1>9. \/ q = "guardar_tam" /\ t < a
        \/ q = "directo" /\ A = 0 /\ t > a
        \/ q = "indirecto" /\ A = 1 /\ T > 1 /\ t > a
        \/ q = "datos" /\ A > 1 /\ T > 1 /\ k > 0 /\ t > a
        \/ q = "guardar" /\ A = T /\ t > a
    <2>1. CASE t < a
      BY <1>3, <2>1 DEF Empieza
    <2>2. CASE t > a /\ a = 0
      BY <1>3, <1>5, <2>2 DEF Empieza
    <2>3. CASE t > a /\ a # 0 /\ T > 1 /\ a <= BLOCK_SIZE
      BY <1>3, <1>4, <1>5, <2>3 DEF Empieza
    <2>4. CASE t > a /\ a # 0 /\ T > 1 /\ ~(a <= BLOCK_SIZE)
      BY <1>3, <1>4, <1>5, <1>6, <2>4 DEF Empieza
    <2>5. CASE t > a /\ a # 0 /\ ~(T > 1)
      BY <1>3, <1>4, <1>5, <1>6, <2>5 DEF Empieza
    <2> QED BY <1>3, <1>5, <2>1, <2>2, <2>3, <2>4, <2>5
  <1>10. /\ q \in Crecen \union {"guardar_tam"} /\ q \in Crecen \union Achican
         /\ q \notin GuardaYa /\ q # "libre"
    BY <1>9 DEF Crecen, Achican, GuardaYa
  <1>11. EsPeticion'
    <2>1. k \in 0 .. BLOCK_SIZE + 1
      BY <1>3, <1>5, <1>6, BloquesAssumption
    <2>2. <<>> \in Seq(Valores)
      OBVIOUS
    <2> QED BY <1>1, <1>5, <1>6, <1>7, <1>8, <1>10, <2>1, <2>2 DEF EsPeticion
  <1>12. EnJuego' = Sitios(A)
    <2>1. EnJuego' = IF q = "directo" THEN {}
                     ELSE IF q = "indirecto" THEN {1}
                     ELSE IF q = "guardar_indirecto" THEN {0, 1}
                     ELSE IF q = "datos" THEN 0 .. Base(A) + 0
                     ELSE IF q \in {"punteros", "guardar"} THEN Sitios(T)
                     ELSE Sitios(A)
      BY <1>8 DEF EnJuego, Base, Sitios
    <2>2. A = 0 => Sitios(A) = {}
      BY DEF Sitios
    <2>3. A = 1 => Sitios(A) = {1}
      BY DEF Sitios
    <2>4. A > 1 => Sitios(A) = 0 .. Base(A) + 0
      BY <1>5 DEF Sitios, Base
    <2> QED BY <1>9, <2>1, <2>2, <2>3, <2>4
  <1>13. Lugares(f) = Sitios(A)
    BY <1>3, <1>4, LugaresSon
  <1>14. \A i \in Sitios(A) : Toma(i)' = BloqueEn(f, i)
    <2> SUFFICES ASSUME NEW i \in Sitios(A)
                 PROVE  Toma(i)' = BloqueEn(f, i)
      OBVIOUS
    <2>1. Toma(i)' = IF i = 0 THEN c.indirecto
                     ELSE IF i = 1 THEN c.directo
                     ELSE IF q \in {"datos", "punteros"} /\ i > Base(A)
                          THEN <<>>[i - Base(A)]
                          ELSE punteros'[c.indirecto][i - 2]
      BY <1>8 DEF Toma, Base
    <2>2. ~(i > Base(A))
      BY <1>5, SitiosSon DEF Base
    <2>3. BloqueEn(f, i) = De(FCB[f], i)
      BY DeSon
    <2> QED BY <1>1, <1>7, <2>1, <2>2, <2>3 DEF De
  <1>15. \A g \in Archivos : \A i : BloqueEn(g, i)' = BloqueEn(g, i) /\ Lugares(g)' = Lugares(g)
    BY <1>1, DiscoIgual
  <1>16. TiposC'
    BY <1>1, <1>2, CaidaAssumption DEF TiposC, TypeOKB, Acotados, SinCrearVacios, Ocupa
  <1>17. EnCurso(f)' /\ \A g : g # f => (~EnCurso(g))'
    BY <1>8, <1>10 DEF EnCurso
  <1>18. Separados' /\ Marcados'
    <2>1. ASSUME NEW g \in Archivos, NEW i \in LugaresDe(g)'
          PROVE  i \in Lugares(g) /\ Tiene(g, i)' = BloqueEn(g, i)
      <3>1. CASE g = f
        BY <1>12, <1>13, <1>14, <1>17, <2>1, <3>1, DeUno
      <3>2. CASE g # f
        BY <1>15, <1>17, <2>1, <3>2, DeUno
      <3> QED BY <3>1, <3>2
    <2>2. \A g \in Archivos : Seguros(g)' = LugaresDe(g)'
      BY <1>8, <1>10, <1>17, DeUno
    <2> QED BY <1>1, <1>2, <2>1, <2>2, Libre, VistaQuieta
  <1>19. LosDemas'
    BY <1>1, <1>2, Libre, LosDemasSon
  <1>20. CuentaCrece'
    <2>1. Base(Antes)' = Base(A)
      BY <1>8 DEF Base
    <2>2. /\ A > 1 => Base(A) = A
          /\ Len(<<>>) = 0
      BY <1>5 DEF Base
    <2>3. CASE q = "guardar_tam"
      BY <1>8, <2>3 DEF CuentaCrece, Crecen
    <2>4. CASE q = "directo" /\ A = 0 /\ t > a
      BY <1>5, <1>6, <1>7, <1>8, <2>4 DEF CuentaCrece
    <2>5. CASE q = "indirecto" /\ A = 1 /\ T > 1 /\ t > a
      BY <1>6, <1>7, <1>8, <2>5 DEF CuentaCrece
    <2>6. CASE q = "datos" /\ A > 1 /\ T > 1 /\ k > 0 /\ t > a
      BY <1>5, <1>6, <1>7, <1>8, <2>1, <2>2, <2>6 DEF CuentaCrece
    <2>7. CASE q = "guardar" /\ A = T /\ t > a
      <3>1. T > 1 => c.indirecto # SinBloque
        BY <1>1, <1>2, <1>3, <1>4, <1>7, <2>7, Libre DEF LosDemas
      <3> QED BY <1>7, <1>8, <2>7, <3>1 DEF CuentaCrece
    <2> QED BY <1>9, <2>3, <2>4, <2>5, <2>6, <2>7
  <1>21. CuentaAchica'
    <2>1. CASE q = "guardar_tam" /\ t < a
      <3>1. k = A - T
        BY <1>3, <1>5, <1>6, <2>1 DEF EsFCB
      <3> QED BY <1>7, <1>8, <2>1, <3>1 DEF CuentaAchica
    <2>2. CASE q \in {"directo", "indirecto", "datos", "guardar"}
      <3>1. q \notin Achican
        BY <2>2 DEF Achican
      <3> QED BY <1>8, <3>1 DEF CuentaAchica
    <2> QED BY <1>9, <2>1, <2>2
  <1>22. EnDisco'
    <2>1. FCB'[peticion'.f].tam = peticion'.tam_ant
      BY <1>1, <1>3, <1>8
    <2>2. Sitios(Antes)' = Sitios(A)
      BY <1>8 DEF Sitios
    <2>3. \A i \in Sitios(Antes)' : i \in EnJuego' /\ Toma(i)' = BloqueEn(f, i)'
      BY <1>12, <1>14, <1>15, <2>2
    <2> QED BY <1>8, <1>10, <2>1, <2>3 DEF EnDisco
  <1>23. Antes' > 1 => peticion'.fcb.indirecto # SinBloque
    BY <1>1, <1>2, <1>3, <1>4, <1>7, <1>8, Libre DEF LosDemas
  <1>24. Conserva
    BY <1>1, DiscoIgual
  <1> QED BY <1>1, <1>11, <1>16, <1>18, <1>19, <1>20, <1>21, <1>22, <1>23, <1>24
    DEF ICaida, PeticionBien

LEMMA CrearBien ==
  ASSUME ICaida, NEW f \in Archivos, Crear(f)
  PROVE  ICaida' /\ Conserva
  <1>1. /\ En("libre") /\ rotos = {} /\ pedidos < MaxPedidos /\ pedidos' = pedidos + 1
        /\ f \notin existe /\ existe' = existe \union {f}
        /\ FCB' = [FCB EXCEPT ![f] = [tam |-> 0, directo |-> SinBloque,
                                      indirecto |-> SinBloque]]
        /\ punteros' = punteros /\ bitmap' = bitmap
        /\ caido' = caido /\ caidas' = caidas /\ rotos' = rotos /\ peticion' = peticion
    BY DEF Crear, Recibe, F_CREATE
  <1>2. /\ TiposC /\ TypeOKB /\ Acotados /\ SinCrearVacios
        /\ Separados /\ Marcados /\ LosDemas
        /\ FCB[f].tam = 0
    BY <1>1 DEF ICaida, TiposC, SinCrearVacios
  <1>3. /\ \A g \in Archivos : FCB'[g].tam = FCB[g].tam
        /\ \A g \in Archivos : g # f => FCB'[g] = FCB[g]
    BY <1>1, <1>2 DEF TypeOKB
  <1>4. \A g \in Archivos : Lugares(g)' = Lugares(g)
    BY <1>3, LugaresSon
  <1>5. Lugares(f) = {} /\ Ocupa(0) = 0
    BY <1>2, LugaresSon, OcupaCasos DEF Sitios
  <1>6. \A g \in Archivos : \A i \in Lugares(g) : BloqueEn(g, i)' = BloqueEn(g, i)
    <2> SUFFICES ASSUME NEW g \in Archivos, NEW i \in Lugares(g)
                 PROVE  BloqueEn(g, i)' = BloqueEn(g, i)
      OBVIOUS
    <2>1. g # f /\ FCB'[g] = FCB[g]
      BY <1>3, <1>5
    <2> QED BY <1>1, <2>1, DeSon DEF De
  <1>7. peticion' = Ninguna /\ \A g : (~EnCurso(g))'
    BY <1>1, Libre DEF EnCurso, Ninguna
  <1>8. TiposC'
    <2>1. TypeOKB'
      BY <1>1, <1>2, BloquesAssumption DEF TypeOKB
    <2>2. Acotados'
      <3>1. \A g \in Archivos : Ocupa(FCB'[g].tam) = Ocupa(FCB[g].tam)
        BY <1>3
      <3> QED BY <1>2, <3>1 DEF Acotados, Ocupa
    <2>3. SinCrearVacios'
      BY <1>1, <1>2, <1>3 DEF SinCrearVacios
    <2> QED BY <1>1, <1>2, <2>1, <2>2, <2>3, CaidaAssumption DEF TiposC
  <1>9. Separados' /\ Marcados'
    <2>1. \A g \in Archivos : \A i \in LugaresDe(g)' :
            i \in Lugares(g) /\ Tiene(g, i)' = BloqueEn(g, i)
      BY <1>4, <1>6, <1>7, DeUno
    <2>2. \A g \in Archivos : \A i \in Seguros(g)' : i \in LugaresDe(g)'
      BY <1>7, DeUno
    <2> QED BY <1>1, <1>2, <2>1, <2>2, Libre, VistaQuieta
  <1>10. LosDemas'
    <2>1. ASSUME NEW g \in Archivos, Ocupa(FCB'[g].tam) > 1
          PROVE  FCB'[g].indirecto # SinBloque
      <3>1. g # f
        BY <1>2, <1>3, <1>5, <2>1
      <3> QED BY <1>1, <1>2, <1>3, <2>1, <3>1, Libre, LosDemasSon
    <2> QED BY <2>1, LosDemasSon
  <1>11. Conserva
    BY <1>6 DEF Conserva
  <1> QED BY <1>1, <1>7, <1>8, <1>9, <1>10, <1>11 DEF ICaida, PeticionBien

-----------------------------------------------------------------------------
(* A death, and the steps in which nothing happens.                        *)

LEMMA CaidaBien ==
  ASSUME ICaida, Caida
  PROVE  ICaida' /\ Conserva
  <1>1. /\ rotos = {} /\ peticion' = Ninguna
        /\ caidas' = IF caidas < MaxCaidas THEN caidas + 1 ELSE caidas
        /\ rotos' = IF EntreGuardados THEN rotos \union {peticion.f} ELSE rotos
        /\ FCB' = FCB /\ punteros' = punteros /\ bitmap' = bitmap /\ existe' = existe
        /\ caido' = caido /\ pedidos' = pedidos
    BY DEF Caida, Terminar, disco
  <1>2. /\ TiposC /\ TypeOKB /\ Acotados /\ PeticionBien /\ Separados /\ Marcados /\ LosDemas
    BY <1>1 DEF ICaida, TiposC
  <1>3. EntreGuardados => peticion.f \in Archivos
    <2>1. EntreGuardados => peticion # Ninguna
      BY DEF EntreGuardados, Ninguna
    <2> QED BY <1>2, <2>1, Tamanos DEF PeticionBien
  <1>4. TiposC'
    BY <1>1, <1>2, <1>3, CaidaAssumption DEF TiposC, TypeOKB, Acotados, SinCrearVacios, Ocupa
  <1>5. /\ \A g \in Archivos : Lugares(g)' = Lugares(g)
        /\ \A g \in Archivos : \A i : BloqueEn(g, i)' = BloqueEn(g, i)
        /\ Conserva
    BY <1>1, DiscoIgual
  <1>6. CASE EntreGuardados
    <2>1. rotos' # {}
      BY <1>1, <1>6
    <2> QED BY <1>1, <1>4, <1>5, <2>1 DEF ICaida
  <1>7. CASE ~EntreGuardados /\ peticion = Ninguna
    <2>1. En("libre") /\ peticion' = peticion
      BY <1>1, <1>7 DEF En, Ninguna
    <2>2. \A g : (~EnCurso(g))'
      BY <1>1 DEF EnCurso, Ninguna
    <2>3. Separados' /\ Marcados'
      <3>1. \A g \in Archivos : \A i \in LugaresDe(g)' :
              i \in Lugares(g) /\ Tiene(g, i)' = BloqueEn(g, i)
        BY <1>5, <2>2, DeUno
      <3>2. \A g \in Archivos : \A i \in Seguros(g)' : i \in LugaresDe(g)'
        BY <2>2, DeUno
      <3> QED BY <1>1, <1>2, <1>7, <3>1, <3>2, VistaQuieta
    <2>4. LosDemas'
      BY <1>1, <1>2, <2>1, Libre, LosDemasSon
    <2> QED BY <1>1, <1>4, <1>5, <1>7, <2>3, <2>4 DEF ICaida, PeticionBien
  <1>8. CASE ~EntreGuardados /\ peticion # Ninguna
    <2>1. Cursa
      BY <1>1, <1>8, CursaEs
    <2>2. PICK f : f = peticion.f
      OBVIOUS
    <2>3. f \in Archivos
      BY <2>1, <2>2, Tamanos DEF Cursa, TiposC
    <2>4. /\ \A i \in Lugares(f) :
               i \in EnJuego /\ i \in Seguros(f) /\ BloqueEn(f, i) = Toma(i)
          /\ Ocupa(FCB[f].tam) > 1 => FCB[f].indirecto # SinBloque
      BY <1>8, <2>1, <2>2, EnElDisco
    <2>5. Ajeno
      BY <1>1, <2>1, DiscoIgual
    <2>6. /\ \A i \in Lugares(f)' :
               i \in EnJuego /\ i \in Seguros(f) /\ BloqueEn(f, i)' = Toma(i)
          /\ Ocupa(FCB'[f].tam) > 1 => FCB'[f].indirecto # SinBloque
      BY <1>1, <1>5, <2>3, <2>4
    <2>7. Separados' /\ Marcados' /\ LosDemas'
      BY <1>1, <2>1, <2>2, <2>5, <2>6, VistaTermina
    <2> QED BY <1>1, <1>4, <1>5, <1>8, <2>7 DEF ICaida, PeticionBien
  <1> QED BY <1>6, <1>7, <1>8

LEMMA NadaBien ==
  ASSUME ICaida, UNCHANGED varsC
  PROVE  ICaida' /\ Conserva
  <1>1. /\ FCB' = FCB /\ punteros' = punteros /\ bitmap' = bitmap /\ existe' = existe
        /\ caido' = caido /\ pedidos' = pedidos /\ caidas' = caidas /\ rotos' = rotos
        /\ peticion' = peticion
    BY DEF varsC, varsB
  <1>2. /\ \A g \in Archivos : Lugares(g)' = Lugares(g)
        /\ \A g \in Archivos : \A i : BloqueEn(g, i)' = BloqueEn(g, i)
        /\ Conserva
    BY <1>1, DiscoIgual
  <1>3. Antes' = Antes /\ Total' = Total
    BY <1>1 DEF Antes, Total, Ocupa
  <1>4. EnJuego' = EnJuego /\ Sitios(Total)' = Sitios(Total) /\ Sitios(Antes)' = Sitios(Antes)
    BY <1>1, <1>3 DEF EnJuego, Base, Sitios
  <1>5. \A i : Toma(i)' = Toma(i)
    BY <1>1, <1>3 DEF Toma, Base
  <1>6. \A g : (EnCurso(g))' <=> EnCurso(g)
    BY <1>1 DEF EnCurso
  <1>7. \A g \in Archivos : /\ LugaresDe(g)' = LugaresDe(g) /\ Seguros(g)' = Seguros(g)
                            /\ \A i : Tiene(g, i)' = Tiene(g, i)
    BY <1>1, <1>2, <1>4, <1>5, <1>6, DeUno
  <1>8. TiposC => TiposC'
    BY <1>1 DEF TiposC, TypeOKB, Acotados, SinCrearVacios, Ocupa
  <1>9. Separados => Separados'
    BY <1>7 DEF Separados
  <1>10. Marcados => Marcados'
    BY <1>1, <1>7 DEF Marcados
  <1>11. LosDemas => LosDemas'
    BY <1>1, <1>6, LosDemasSon
  <1>12. PeticionBien => PeticionBien'
    <2>1. EsPeticion => EsPeticion'
      BY <1>1, <1>3 DEF EsPeticion, Peticion_
    <2>2. CuentaCrece => CuentaCrece'
      <3>1. Base(Antes)' = Base(Antes)
        BY <1>3 DEF Base
      <3> QED BY <1>1, <1>3, <3>1 DEF CuentaCrece
    <2>3. CuentaAchica => CuentaAchica'
      <3>1. Base(Total)' = Base(Total) /\ (Base(Total) + 1 .. Antes)' = Base(Total) + 1 .. Antes
        BY <1>3 DEF Base
      <3> QED BY <1>1, <1>3, <1>5, <3>1 DEF CuentaAchica
    <2>4. TypeOKB /\ EsPeticion /\ EnDisco => EnDisco'
      <3>1. PICK f : f = peticion.f
        OBVIOUS
      <3>2. TypeOKB /\ EsPeticion => f \in Archivos
        BY <3>1, Tamanos
      <3>3. f \in Archivos => \A i : BloqueEn(f, i)' = BloqueEn(f, i)
        BY <1>2
      <3> QED BY <1>1, <1>4, <1>5, <3>1, <3>2, <3>3 DEF EnDisco
    <2> QED BY <1>1, <1>3, <2>1, <2>2, <2>3, <2>4 DEF PeticionBien, ICaida, TiposC
  <1> QED BY <1>1, <1>2, <1>8, <1>9, <1>10, <1>11, <1>12 DEF ICaida

LEMMA InicioICaida ==
  ASSUME InitC
  PROVE  ICaida
  <1>1. IBloques /\ \A f \in Archivos : Lugares(f) = {}
    <2>1. Ocupa(0) = 0
      BY OcupaCasos
    <2>2. \A f \in Archivos : Lugares(f) = Sitios(0)
      BY <2>1, LugaresSon DEF InitC, InitB
    <2>3. Sitios(0) = {}
      BY DEF Sitios
    <2> QED BY <2>2, <2>3, InicioIBloques DEF InitC
  <1>2. /\ peticion = Ninguna /\ pedidos = 0 /\ caidas = 0 /\ rotos = {} /\ caido = FALSE
    BY DEF InitC, InitB
  <1>3. \A g : ~EnCurso(g)
    BY <1>2 DEF EnCurso, Ninguna
  <1>4. TiposC
    BY <1>1, <1>2, CaidaAssumption DEF TiposC, IBloques
  <1>5. \A g \in Archivos : LugaresDe(g) = {} /\ Seguros(g) = {}
    BY <1>1, <1>3, DeUno
  <1>6. Separados /\ Marcados
    BY <1>5 DEF Separados, Marcados
  <1>7. LosDemas
    BY <1>1, <1>2 DEF LosDemas, IBloques, ConIndirecto
  <1> QED BY <1>2, <1>4, <1>6, <1>7 DEF ICaida, PeticionBien

\* No step of a request, no death and no restart breaks the invariant, nor moves
\* a block while the disk is whole.
LEMMA PasoDeCaida == ICaida /\ [NextC]_varsC => ICaida' /\ (~EntreGuardados => Conserva)
  <1> SUFFICES ASSUME ICaida, [NextC]_varsC
               PROVE  ICaida' /\ (~EntreGuardados => Conserva)
    OBVIOUS
  <1>1. CASE UNCHANGED varsC
    BY <1>1, NadaBien
  <1>2. ASSUME NEW f \in Archivos, Crear(f)
        PROVE  ICaida' /\ (~EntreGuardados => Conserva)
    BY <1>2, CrearBien
  <1>3. ASSUME NEW f \in Archivos, NEW t \in Tamanios[f], Truncar(f, t)
        PROVE  ICaida' /\ (~EntreGuardados => Conserva)
    <2>1. t \in Nat
      BY BloquesAssumption
    <2> QED BY <1>3, <2>1, TruncarBien
  <1>4. CASE Caida
    BY <1>4, CaidaBien
  <1>5. CASE Paso
    <2>1. peticion # Ninguna
      <3>1. ~En("libre")
        BY <1>5 DEF Paso, En, AsignarDirecto, AsignarIndirecto, GuardarIndirecto,
          AsignarDato, EscribirPunteros, GuardarFinal, GuardarTamanio, LimpiarDirecto,
          LeerPunteros, LimpiarDato, LimpiarIndirecto, FinDeLiberar
      <3> QED BY <3>1 DEF En, Ninguna
    <2>2. Cursa
      BY <2>1, CursaEs DEF ICaida
    <2>3. Marco
      BY <1>5 DEF Paso, Marco
    <2>4. Bien
      <3>1. CASE AsignarDirecto
        BY <2>2, <2>3, <3>1, AsignarDirectoBien
      <3>2. CASE AsignarIndirecto
        BY <2>2, <2>3, <3>2, AsignarIndirectoBien
      <3>3. CASE GuardarIndirecto
        BY <2>2, <2>3, <3>3, GuardarIndirectoBien
      <3>4. CASE AsignarDato
        BY <2>2, <2>3, <3>4, AsignarDatoBien
      <3>5. CASE EscribirPunteros
        BY <2>2, <2>3, <3>5, EscribirPunterosBien
      <3>6. CASE GuardarFinal
        BY <2>2, <2>3, <3>6, GuardarFinalBien
      <3>7. CASE GuardarTamanio
        BY <2>2, <2>3, <3>7, GuardarTamanioBien
      <3>8. CASE LimpiarDirecto
        BY <2>2, <2>3, <3>8, LimpiarDirectoBien
      <3>9. CASE LeerPunteros
        BY <2>2, <2>3, <3>9, LeerPunterosBien
      <3>10. CASE LimpiarDato
        BY <2>2, <2>3, <3>10, LimpiarDatoBien
      <3>11. CASE LimpiarIndirecto
        BY <2>2, <2>3, <3>11, LimpiarIndirectoBien
      <3>12. CASE FinDeLiberar
        BY <2>2, <2>3, <3>12, FinDeLiberarBien
      <3> QED BY <1>5, <3>1, <3>2, <3>3, <3>4, <3>5, <3>6, <3>7, <3>8, <3>9, <3>10,
                 <3>11, <3>12 DEF Paso
    <2> QED BY <2>4 DEF Bien
  <1> QED BY <1>1, <1>2, <1>3, <1>4, <1>5 DEF NextC

LEMMA CaidaSiempre == SpecC => []ICaida
  BY InicioICaida, PasoDeCaida, PTL DEF SpecC

-----------------------------------------------------------------------------
(* What it is for.                                                         *)

\* With no file halfway, what the disk has of a file is what the request under
\* way makes of it.
LEMMA Entero ==
  ASSUME ICaida, AMedias = {}
  PROVE  /\ Separados /\ Marcados /\ ~EntreGuardados
         /\ \A g \in Archivos : \A i \in Lugares(g) :
              i \in LugaresDe(g) /\ i \in Seguros(g) /\ Tiene(g, i) = BloqueEn(g, i)
  <1>1. rotos = {} /\ ~EntreGuardados
    BY DEF AMedias
  <1>2. Separados /\ Marcados
    BY <1>1 DEF ICaida
  <1>3. ASSUME NEW g \in Archivos, NEW i \in Lugares(g)
        PROVE  i \in LugaresDe(g) /\ i \in Seguros(g) /\ Tiene(g, i) = BloqueEn(g, i)
    <2>1. CASE ~EnCurso(g)
      BY <1>3, <2>1, DeUno
    <2>2. CASE EnCurso(g)
      <3>1. peticion # Ninguna /\ g = peticion.f
        BY <2>2 DEF EnCurso, Ninguna
      <3>2. Cursa
        BY <1>1, <3>1, CursaEs
      <3>3. i \in EnJuego /\ i \in Seguros(g) /\ BloqueEn(g, i) = Toma(i)
        BY <1>1, <1>3, <3>1, <3>2, EnElDisco
      <3> QED BY <2>2, <3>3, DeUno
    <2> QED BY <2>1, <2>2
  <1> QED BY <1>1, <1>2, <1>3

\* Types: bitmap, FCBs and pointers keep their shape through every store, death
\* and restart, and the locals of a truncation stay within their bounds: faltan
\* (a_liberar, bloques_nuevos_a_ocupar) is never below zero.
THEOREM TiposDeCaida == SpecC => []TypeOKC
  <1>1. ASSUME ICaida
        PROVE  TypeOKC
    <2>1. TiposC /\ (peticion = Ninguna \/ EsPeticion)
      BY <1>1 DEF ICaida, PeticionBien
    <2>2. CASE peticion = Ninguna
      <3>1. DOMAIN peticion = {"paso"} /\ En("libre")
        BY <2>2 DEF Ninguna, En
      <3> QED BY <2>1, <3>1 DEF TypeOKC, TiposC
    <2>3. CASE EsPeticion
      <3>1. DOMAIN peticion = {"paso", "f", "tam_ant", "fcb", "faltan", "lista"}
        BY <2>3 DEF EsPeticion, Peticion_
      <3>2. /\ peticion.f \in existe /\ peticion.faltan \in 0 .. BLOCK_SIZE + 1
            /\ peticion.lista \in Seq(Bloques \union {SinBloque})
        BY <2>3 DEF EsPeticion, Valores
      <3> QED BY <2>1, <3>1, <3>2 DEF TypeOKC, TiposC
    <2> QED BY <2>1, <2>2, <2>3
  <1> QED BY <1>1, CaidaSiempre, PTL

\* Whenever the process dies, however many times and with the disk full or not,
\* the files on disk do not share a block, the gap of bloques.c:282-308 apart.
THEOREM LasCaidasNoMezclan == SpecC => []SinCompartirEnDisco
  <1>1. ASSUME ICaida
        PROVE  SinCompartirEnDisco
    <2> SUFFICES ASSUME AMedias = {}, NEW f \in Archivos, NEW g \in Archivos,
                        NEW i \in Lugares(f), NEW j \in Lugares(g),
                        BloqueEn(f, i) = BloqueEn(g, j), BloqueEn(f, i) # SinBloque
                 PROVE  f = g /\ i = j
      BY DEF SinCompartirEnDisco
    <2>1. /\ i \in LugaresDe(f) /\ Tiene(f, i) = BloqueEn(f, i)
          /\ j \in LugaresDe(g) /\ Tiene(g, j) = BloqueEn(g, j) /\ Separados
      BY <1>1, Entero
    <2> QED BY <2>1 DEF Separados
  <1> QED BY <1>1, CaidaSiempre, PTL

\* Nor is the bit of a block they use ever clear: a restart gives away no block
\* that a file has (asignar_bloques sets the bit before it saves the pointer,
\* liberar_bloques saves the size before it clears the bit).
THEOREM LasCaidasNoRegalan == SpecC => []UsadosMarcados
  <1>1. ASSUME ICaida
        PROVE  UsadosMarcados
    <2> SUFFICES ASSUME AMedias = {}, NEW f \in Archivos, NEW i \in Lugares(f),
                        BloqueEn(f, i) # SinBloque
                 PROVE  BloqueEn(f, i) \in bitmap
      BY DEF UsadosMarcados
    <2>1. i \in Seguros(f) /\ Tiene(f, i) = BloqueEn(f, i) /\ Marcados
      BY <1>1, Entero
    <2> QED BY <2>1 DEF Marcados
  <1> QED BY <1>1, CaidaSiempre, PTL

\* And no store of a truncation, no death and no restart moves a block of data
\* of any file.
THEOREM LasCaidasNoMueven == SpecC => ConservaEnDisco
  <1>1. ICaida /\ [NextC]_varsC => (AMedias = {} => Conserva)
    BY PasoDeCaida DEF AMedias
  <1>2. SpecC => [][AMedias = {} => Conserva]_varsC
    BY <1>1, CaidaSiempre, PTL DEF SpecC
  <1> QED BY <1>2, PTL DEF ConservaEnDisco, Conserva

-----------------------------------------------------------------------------
(* The blocks that so many calls of get_free_block give.                   *)

\* The first n blocks taken of those of L: the lowest ones, in order, and -1 from
\* the moment there are no more.
EnOrden(s, n, L) ==
  /\ s \in [1 .. n -> L \union {SinBloque}]
  /\ \A i, j \in 1 .. n : i < j /\ s[j] # SinBloque => s[i] # SinBloque /\ s[i] < s[j]
  /\ \A i \in 1 .. n : s[i] # SinBloque =>
       \A c \in L : c < s[i] => \E j \in 1 .. n : s[j] = c
  /\ (\E i \in 1 .. n : s[i] = SinBloque) =>
       \A c \in L : \E j \in 1 .. n : s[j] = c

LEMMA MasBajoMinimo ==
  /\ MasBajo = SinBloque => Libres = {}
  /\ MasBajo # SinBloque => MasBajo \in Libres /\ \A c \in Libres : MasBajo <= c
  <1>1. Libres \in SUBSET Nat /\ ~(SinBloque \in Libres)
    BY BloquesAssumption DEF Libres, Bloques, SinBloque
  <1>2. CASE Libres = {}
    BY <1>2 DEF MasBajo
  <1>3. CASE Libres # {}
    <2>1. \E b \in Libres : \A c \in Libres : b <= c
      BY <1>1, <1>3, Minimo
    <2>2. MasBajo = CHOOSE b \in Libres : \A c \in Libres : b <= c
      BY <1>3 DEF MasBajo
    <2> QED BY <1>1, <2>1, <2>2
  <1> QED BY <1>2, <1>3

\* One more call: the lowest of those not taken.
LEMMA OtroEnOrden ==
  ASSUME NEW n \in Nat, NEW L \in SUBSET Nat, NEW s, NEW r, NEW b, EnOrden(s, n, L),
         r \in [1 .. n + 1 -> L \union {SinBloque}],
         r[n + 1] = b, \A i \in 1 .. n : r[i] = s[i],
         b = SinBloque => \A c \in L : \E j \in 1 .. n : s[j] = c,
         b # SinBloque => /\ b \in L /\ \A j \in 1 .. n : s[j] # b
                          /\ \A c \in L : (\A j \in 1 .. n : s[j] # c) => b <= c
  PROVE  EnOrden(r, n + 1, L)
  <1>1. /\ s \in [1 .. n -> L \union {SinBloque}]
        /\ \A i, j \in 1 .. n : i < j /\ s[j] # SinBloque => s[i] # SinBloque /\ s[i] < s[j]
        /\ \A i \in 1 .. n : s[i] # SinBloque =>
             \A c \in L : c < s[i] => \E j \in 1 .. n : s[j] = c
        /\ (\E i \in 1 .. n : s[i] = SinBloque) =>
             \A c \in L : \E j \in 1 .. n : s[j] = c
    BY DEF EnOrden
  <1>2. 1 .. n + 1 = (1 .. n) \union {n + 1} /\ ~(n + 1 \in 1 .. n)
    OBVIOUS
  <1>3. ASSUME NEW c \in L, \E j \in 1 .. n : s[j] = c
        PROVE  \E j \in 1 .. n + 1 : r[j] = c
    BY <1>2, <1>3
  <1>4. ASSUME NEW i \in 1 .. n, b # SinBloque
        PROVE  s[i] # SinBloque /\ s[i] < b
    <2>1. s[i] # SinBloque
      BY <1>1, <1>4
    <2>2. s[i] \in L /\ s[i] \in Nat /\ b \in Nat
      BY <1>1, <1>4, <2>1
    <2>3. ~(b < s[i])
      BY <1>1, <1>4, <2>1
    <2>4. s[i] # b
      BY <1>4
    <2> QED BY <2>1, <2>2, <2>3, <2>4
  <1>5. ASSUME NEW i \in 1 .. n + 1, NEW j \in 1 .. n + 1, i < j, r[j] # SinBloque
        PROVE  r[i] # SinBloque /\ r[i] < r[j]
    <2>1. i \in 1 .. n
      BY <1>5
    <2>2. CASE j \in 1 .. n
      BY <1>1, <1>5, <2>1, <2>2
    <2>3. CASE j = n + 1
      BY <1>4, <1>5, <2>1, <2>3
    <2> QED BY <1>2, <2>2, <2>3
  <1>6. ASSUME NEW i \in 1 .. n + 1, r[i] # SinBloque, NEW c \in L, c < r[i]
        PROVE  \E j \in 1 .. n + 1 : r[j] = c
    <2>1. CASE i \in 1 .. n
      BY <1>1, <1>3, <1>6, <2>1
    <2>2. CASE i = n + 1
      <3>1. ~(b <= c)
        <4>1. c \in Nat /\ b \in Nat
          BY <1>6, <2>2
        <4> QED BY <4>1, <1>6, <2>2
      <3>2. \E j \in 1 .. n : s[j] = c
        BY <3>1, <1>6, <2>2
      <3> QED BY <1>3, <3>2
    <2> QED BY <1>2, <2>1, <2>2
  <1>7. ASSUME NEW i \in 1 .. n + 1, r[i] = SinBloque, NEW c \in L
        PROVE  \E j \in 1 .. n + 1 : r[j] = c
    <2>1. CASE i \in 1 .. n
      BY <1>1, <1>3, <1>7, <2>1
    <2>2. CASE i = n + 1
      BY <1>3, <1>7, <2>2
    <2> QED BY <1>2, <2>1, <2>2
  <1> QED BY <1>5, <1>6, <1>7 DEF EnOrden

\* The set that get_free_block(k) chooses from, with the blocks of L free.
Tomas(k, L) ==
  LET hay == Cardinality(L)
      Bajos(m) == {s \in [1 .. m -> {b \in L : Cardinality({c \in L : c < b}) < m}] :
                     \A i, j \in 1 .. m : i < j => s[i] < s[j]} IN
  IF k <= hay THEN Bajos(k)
  ELSE {[i \in 1 .. k |-> IF i <= hay THEN s[i] ELSE SinBloque] : s \in Bajos(hay)}

\* Increasing blocks below which there are no others: of the first m of L.
LEMMA SonBajos ==
  ASSUME NEW m \in Nat, NEW L \in SUBSET Nat, IsFiniteSet(L), NEW r \in [1 .. m -> L],
         \A i, j \in 1 .. m : i < j => r[i] < r[j],
         \A i \in 1 .. m : \A c \in L : c < r[i] => \E j \in 1 .. m : r[j] = c
  PROVE  /\ Cardinality({r[i] : i \in 1 .. m}) = m
         /\ \A i \in 1 .. m : Cardinality({c \in L : c < r[i]}) < m
  <1> DEFINE R == {r[i] : i \in 1 .. m}
  <1>1. IsFiniteSet(1 .. m) /\ Cardinality(1 .. m) = m
    BY FS_Interval
  <1>2. r \in Bijection(1 .. m, R)
    <2>1. r \in [1 .. m -> R]
      OBVIOUS
    <2>2. ASSUME NEW i \in 1 .. m, NEW j \in 1 .. m, r[i] = r[j]
          PROVE  i = j
      <3>1. r[i] \in Nat /\ r[j] \in Nat
        OBVIOUS
      <3>2. ~(i < j) /\ ~(j < i)
        BY <2>2, <3>1
      <3> QED BY <3>2
    <2>3. r \in Injection(1 .. m, R)
      BY <2>1, <2>2 DEF Injection, IsInjective
    <2>4. r \in Surjection(1 .. m, R)
      BY <2>1 DEF Surjection
    <2> QED BY <2>3, <2>4 DEF Bijection
  <1>3. IsFiniteSet(R) /\ Cardinality(R) = m
    BY <1>1, <1>2, FS_Bijection DEF ExistsBijection
  <1>4. ASSUME NEW i \in 1 .. m
        PROVE  Cardinality({c \in L : c < r[i]}) < m
    <2> DEFINE C == {c \in L : c < r[i]}
    <2>1. C \subseteq R /\ r[i] \in R /\ r[i] \notin C
      <3>1. ASSUME NEW c \in C
            PROVE  c \in R
        <4>1. c \in L /\ c < r[i]
          OBVIOUS
        <4>2. \E j \in 1 .. m : r[j] = c
          BY <4>1
        <4> QED BY <4>2
      <3>2. r[i] \in R /\ r[i] \in Nat
        OBVIOUS
      <3>3. ~(r[i] < r[i])
        BY <3>2
      <3> QED BY <3>1, <3>2, <3>3
    <2>2. IsFiniteSet(C) /\ Cardinality(C) <= Cardinality(R)
      BY <1>3, <2>1, FS_Subset
    <2>3. C # R
      BY <2>1
    <2>4. Cardinality(C) # Cardinality(R)
      BY <1>3, <2>1, <2>3, FS_Subset
    <2>5. Cardinality(C) \in Nat /\ Cardinality(R) \in Nat
      BY <1>3, <2>2, FS_CardinalityType
    <2> HIDE DEF C, R
    <2>6. Cardinality(C) < m
      BY <1>3, <2>2, <2>4, <2>5
    <2> QED BY <2>6 DEF C
  <1> QED BY <1>3, <1>4

LEMMA EnOrdenToma ==
  ASSUME NEW n \in Nat, NEW L \in SUBSET Nat, IsFiniteSet(L), NEW s, EnOrden(s, n, L)
  PROVE  s \in Tomas(n, L)
  <1> DEFINE hay == Cardinality(L)
             Bajos(m) == {r \in [1 .. m -> {b \in L : Cardinality({c \in L : c < b}) < m}] :
                            \A i, j \in 1 .. m : i < j => r[i] < r[j]}
  <1>1. /\ s \in [1 .. n -> L \union {SinBloque}]
        /\ \A i, j \in 1 .. n : i < j /\ s[j] # SinBloque => s[i] # SinBloque /\ s[i] < s[j]
        /\ \A i \in 1 .. n : s[i] # SinBloque =>
             \A c \in L : c < s[i] => \E j \in 1 .. n : s[j] = c
        /\ (\E i \in 1 .. n : s[i] = SinBloque) =>
             \A c \in L : \E j \in 1 .. n : s[j] = c
    BY DEF EnOrden
  <1>2. hay \in Nat /\ ~(SinBloque \in L)
    BY FS_CardinalityType DEF SinBloque
  <1> HIDE DEF hay, Bajos
  \* The first m of them are in order, if none is -1.
  <1>3. ASSUME NEW m \in Nat, m <= n, NEW r, r = [i \in 1 .. m |-> s[i]],
               \A i \in 1 .. m : s[i] # SinBloque,
               \A i \in 1 .. n : s[i] # SinBloque => i \in 1 .. m
        PROVE  /\ r \in [1 .. m -> L] /\ Cardinality({r[i] : i \in 1 .. m}) = m
               /\ r \in Bajos(m)
    <2>1. 1 .. m \subseteq 1 .. n
      BY <1>3
    <2>2. r \in [1 .. m -> L] /\ \A i \in 1 .. m : r[i] = s[i]
      BY <1>1, <1>3, <2>1
    <2>3. \A i, j \in 1 .. m : i < j => r[i] < r[j]
      BY <1>1, <1>3, <2>1, <2>2
    <2>4. ASSUME NEW i \in 1 .. m, NEW c \in L, c < r[i]
          PROVE  \E j \in 1 .. m : r[j] = c
      <3>1. PICK j \in 1 .. n : s[j] = c
        BY <1>1, <1>3, <2>1, <2>2, <2>4
      <3>2. j \in 1 .. m
        BY <1>2, <1>3, <3>1
      <3> QED BY <2>2, <3>1, <3>2
    <2>5. /\ Cardinality({r[i] : i \in 1 .. m}) = m
          /\ \A i \in 1 .. m : Cardinality({c \in L : c < r[i]}) < m
      BY <2>2, <2>3, <2>4, SonBajos
    <2>6. r \in [1 .. m -> {b \in L : Cardinality({c \in L : c < b}) < m}]
      BY <2>2, <2>5
    <2>7. r \in Bajos(m)
      BY <2>3, <2>6 DEF Bajos
    <2> QED BY <2>2, <2>5, <2>7
  <1>4. CASE \A i \in 1 .. n : s[i] # SinBloque
    <2>1. s = [i \in 1 .. n |-> s[i]]
      BY <1>1
    <2>2. /\ s \in [1 .. n -> L] /\ Cardinality({s[i] : i \in 1 .. n}) = n
          /\ s \in Bajos(n)
      <3>1. n <= n /\ \A i \in 1 .. n : s[i] # SinBloque => i \in 1 .. n
        OBVIOUS
      <3> QED BY ONLY <1>3, <1>4, <2>1, <3>1, n \in Nat
    <2>3. {s[i] : i \in 1 .. n} \subseteq L
      BY <2>2
    <2>4. n <= hay
      BY <2>2, <2>3, FS_Subset DEF hay
    <2> QED BY <2>2, <2>4 DEF Tomas, Bajos, hay
  <1>5. CASE \E i \in 1 .. n : s[i] = SinBloque
    <2> DEFINE N1 == {i \in 1 .. n : s[i] = SinBloque}
    <2>1. N1 \in SUBSET Nat /\ N1 # {}
      BY <1>5
    <2>2. PICK q \in N1 : \A i \in N1 : q <= i
      BY <2>1, Minimo
    <2> DEFINE m == q - 1
               r == [i \in 1 .. m |-> s[i]]
    <2>3. q \in 1 .. n /\ s[q] = SinBloque /\ m \in Nat /\ m < n /\ m <= n /\ q \in Nat
      BY <2>2
    <2>4. ASSUME NEW i \in 1 .. n
          PROVE  s[i] # SinBloque <=> i \in 1 .. m
      <3>1. CASE i < q
        BY <2>2, <2>3, <2>4, <3>1
      <3>2. CASE i = q
        BY <2>3, <3>2
      <3>3. CASE q < i
        BY <1>1, <2>3, <2>4, <3>3
      <3> QED BY <2>3, <3>1, <3>2, <3>3
    <2>5. 1 .. m \subseteq 1 .. n
      BY <2>3
    <2> HIDE DEF m
    <2>6. /\ r \in [1 .. m -> L] /\ Cardinality({r[i] : i \in 1 .. m}) = m
          /\ r \in Bajos(m)
      BY <1>3, <2>3, <2>4, <2>5
    <2>7. {r[i] : i \in 1 .. m} = L
      <3>1. ASSUME NEW c \in L
            PROVE  \E i \in 1 .. m : r[i] = c
        <4>1. PICK i \in 1 .. n : s[i] = c
          BY <1>1, <1>5
        <4>2. i \in 1 .. m
          BY <1>2, <2>4, <4>1
        <4> QED BY <4>1, <4>2
      <3> QED BY <2>6, <3>1
    <2>8. hay = m
      BY <2>6, <2>7 DEF hay
    <2>9. s = [i \in 1 .. n |-> IF i <= hay THEN r[i] ELSE SinBloque]
      <3> DEFINE z == [i \in 1 .. n |-> IF i <= hay THEN r[i] ELSE SinBloque]
      <3>1. ASSUME NEW i \in 1 .. n
            PROVE  s[i] = z[i]
        <4>1. i <= m <=> i \in 1 .. m
          BY <2>3
        <4> QED BY <2>4, <2>8, <4>1
      <3>2. DOMAIN s = 1 .. n /\ s = [i \in 1 .. n |-> s[i]]
        BY <1>1
      <3> QED BY <3>1, <3>2
    <2>10. ~(n <= hay) /\ r \in Bajos(hay)
      BY <1>2, <2>3, <2>6, <2>8
    <2> HIDE DEF r
    <2> QED BY <2>9, <2>10 DEF Tomas, Bajos, hay
  <1> QED BY <1>4, <1>5

-----------------------------------------------------------------------------
(* The disk as Bloques sees it: as the last whole request left it.         *)

\* It is b, F, e and p, and then b2, F2, e2 and p2.
VeAntes(b, F, e, p) ==
  /\ (IF Quieto THEN bitmap ELSE previo.bitmap) = b
  /\ (IF Quieto THEN FCB ELSE previo.FCB) = F
  /\ (IF Quieto THEN existe ELSE previo.existe) = e
  /\ (IF Quieto THEN punteros ELSE previo.punteros) = p

VeDespues(b, F, e, p) ==
  /\ (IF Quieto THEN bitmap ELSE previo.bitmap)' = b
  /\ (IF Quieto THEN FCB ELSE previo.FCB)' = F
  /\ (IF Quieto THEN existe ELSE previo.existe)' = e
  /\ (IF Quieto THEN punteros ELSE previo.punteros)' = p

LEMMA VeQuieto ==
  /\ Quieto => VeAntes(bitmap, FCB, existe, punteros)
  /\ ~Quieto => VeAntes(previo.bitmap, previo.FCB, previo.existe, previo.punteros)
  /\ Quieto' => VeDespues(bitmap', FCB', existe', punteros')
  /\ ~Quieto' => VeDespues(previo'.bitmap, previo'.FCB, previo'.existe, previo'.punteros)
  <1>1. Quieto => VeAntes(bitmap, FCB, existe, punteros)
    BY DEF VeAntes
  <1>2. ~Quieto => VeAntes(previo.bitmap, previo.FCB, previo.existe, previo.punteros)
    BY DEF VeAntes
  <1>3. Quieto' => VeDespues(bitmap', FCB', existe', punteros')
    BY DEF VeDespues
  <1>4. ~Quieto' => VeDespues(previo'.bitmap, previo'.FCB, previo'.existe, previo'.punteros)
    BY DEF VeDespues
  <1> QED BY <1>1, <1>2, <1>3, <1>4

\* What Bloques does when it sees nothing new, and when it sees a creation.
LEMMA VeNada ==
  ASSUME NEW b, NEW F, NEW e, NEW p, VeAntes(b, F, e, p), VeDespues(b, F, e, p),
         caido' = caido
  PROVE  UNCHANGED B!varsB
  BY DEF VeAntes, VeDespues, B!varsB

LEMMA VeCrear ==
  ASSUME NEW b, NEW F, NEW e, NEW p, VeAntes(b, F, e, p), NEW f \in Archivos, caido = FALSE,
         VeDespues(b, [F EXCEPT ![f] = FCB_(0, SinBloque, SinBloque)], e \union {f}, p),
         f \notin e, caido' = caido
  PROVE  B!NextB
  <1>1. B!F_CREATE(f)
    BY DEF VeAntes, VeDespues, B!F_CREATE, FCB_, SinBloque, B!SinBloque
  <1> QED BY <1>1 DEF B!NextB

LEMMA OcupaEnB ==
  /\ \A t : B!Ocupa(t) = Ocupa(t)
  /\ B!tam_max_arch = tam_max_arch /\ B!Bloques = Bloques /\ B!SinBloque = SinBloque
  /\ B!Indices = Indices
  BY DEF B!Ocupa, Ocupa, B!tam_max_arch, tam_max_arch, B!Bloques, Bloques,
         B!SinBloque, SinBloque, B!Indices, Indices

LEMMA CardinalidadEnB == \A S : B!Cardinality(S) = Cardinality(S)
  BY DEF B!Cardinality, Cardinality

LEMMA LibresEnB ==
  ASSUME NEW b, NEW F, NEW e, NEW p, VeAntes(b, F, e, p)
  PROVE  \A k : B!get_free_block(k) = Tomas(k, Bloques \ b)
  <1>1. B!Libres = Bloques \ b
    BY OcupaEnB DEF VeAntes, B!Libres
  <1> DEFINE L == Bloques \ b
             Sin(x) == {c \in L : c < x}
             Bajo(m) == {x \in L : Cardinality(Sin(x)) < m}
             BajoB(m) == {x \in L : B!Cardinality(Sin(x)) < m}
             Bajos(m) == {s \in [1 .. m -> Bajo(m)] : \A i, j \in 1 .. m : i < j => s[i] < s[j]}
             hay == Cardinality(L)
  <1>2. \A m : BajoB(m) = Bajo(m)
    <2> HIDE DEF L, Sin
    <2> QED BY CardinalidadEnB
  <1> HIDE DEF Bajo
  <1>3. \A m : B!MasBajos(m) = Bajos(m)
    <2>1. \A m : B!MasBajos(m)
            = {s \in [1 .. m -> BajoB(m)] : \A i, j \in 1 .. m : i < j => s[i] < s[j]}
      BY <1>1 DEF B!MasBajos
    <2> HIDE DEF BajoB
    <2> QED BY <1>2, <2>1
  <1>4. B!Cardinality(B!Libres) = hay
    BY <1>1, CardinalidadEnB
  <1> SUFFICES ASSUME NEW k
               PROVE  B!get_free_block(k) = Tomas(k, L)
    OBVIOUS
  <1>5. Tomas(k, L) = IF k <= hay THEN Bajos(k)
                      ELSE {[i \in 1 .. k |-> IF i <= hay THEN s[i] ELSE SinBloque] :
                              s \in Bajos(hay)}
    BY DEF Tomas, Bajo
  <1> HIDE DEF Bajos, hay, L
  <1>6. B!get_free_block(k) = IF k <= hay THEN Bajos(k)
                      ELSE {[i \in 1 .. k |-> IF i <= hay THEN s[i] ELSE SinBloque] :
                              s \in Bajos(hay)}
    <2>1. B!get_free_block(k)
            = IF k <= B!Cardinality(B!Libres) THEN B!MasBajos(k)
              ELSE {[i \in 1 .. k |-> IF i <= B!Cardinality(B!Libres) THEN s[i]
                                      ELSE SinBloque] :
                      s \in B!MasBajos(B!Cardinality(B!Libres))}
      BY DEF B!get_free_block, B!SinBloque, SinBloque
    <2>2. B!MasBajos(k) = Bajos(k) /\ B!MasBajos(hay) = Bajos(hay)
      BY <1>3
    <2>3. CASE k <= hay
      BY <1>4, <2>1, <2>2, <2>3
    <2>4. CASE ~(k <= hay)
      <3>1. B!get_free_block(k)
              = {[i \in 1 .. k |-> IF i <= hay THEN s[i] ELSE SinBloque] :
                   s \in B!MasBajos(hay)}
        BY <1>4, <2>1, <2>4
      <3> QED BY <2>2, <2>4, <3>1
    <2> QED BY <2>3, <2>4
  <1> QED BY <1>5, <1>6

\* asignar_bloques and liberar_bloques as relations between what the disk was and
\* is: its bitmap b, FCBs F and pointers p, and whether the process died.
Crece(b, F, p, c, f, t, s, b2, F2, p2, c2) ==
  LET ya == Ocupa(F[f].tam)
      nuevos == Ocupa(t) - ya
      d == IF F[f].tam = 0 THEN 1 ELSE 0
      pp == IF Ocupa(t) > 1 /\ F[f].tam <= BLOCK_SIZE THEN 1 ELSE 0
      ultimo == IF ya = 0 THEN 0 ELSE ya - 1
      pd == IF d = 1 THEN s[1] ELSE F[f].directo
      pis == IF pp = 1 THEN s[d + 1] ELSE F[f].indirecto IN
  /\ b2 = b \union ({s[i] : i \in DOMAIN s} \ {SinBloque})
  /\ F2 = [F EXCEPT ![f] = [tam |-> t, directo |-> pd, indirecto |-> pis]]
  /\ IF Ocupa(t) > 1 /\ nuevos > d
     THEN /\ c2 = (pis = SinBloque)
          /\ p2 = IF pis = SinBloque THEN p
                  ELSE [p EXCEPT ![pis] =
                          [i \in Indices |->
                             IF i - ultimo \in 0 .. nuevos - d - 1
                             THEN s[d + pp + 1 + i - ultimo] ELSE @[i]]]
     ELSE <<p2, c2>> = <<p, c>>

Achica(b, F, p, c, f, t, b2, F2, p2, c2) ==
  LET antes == Ocupa(F[f].tam)
      ahora == Ocupa(t)
      directo == IF ahora = 0 THEN {F[f].directo} ELSE {}
      a_liberar == antes - ahora - Cardinality(directo)
      dd == IF antes > 1
            THEN {p[F[f].indirecto][i] : i \in antes - 1 - a_liberar .. antes - 2}
            ELSE {}
      indirecto == IF antes > 1 /\ ahora <= 1 THEN {F[f].indirecto} ELSE {} IN
  /\ b2 = b \ (directo \union dd \union indirecto)
  /\ F2 = [F EXCEPT ![f].tam = t]
  /\ c2 = (SinBloque \in directo \union dd \union indirecto)
  /\ p2 = p

\* The disk that Bloques sees.
VeBitmap == IF Quieto THEN bitmap ELSE previo.bitmap
VeFCB == IF Quieto THEN FCB ELSE previo.FCB
VePunteros == IF Quieto THEN punteros ELSE previo.punteros

\* The file f of the disk grows to the size t with the blocks of s.
LEMMA VeCrecer ==
  ASSUME NEW b, NEW F, NEW e, NEW p, VeAntes(b, F, e, p), NEW f \in Archivos, f \in e,
         NEW b2, NEW F2, NEW p2, VeDespues(b2, F2, e, p2), caido = FALSE, caido' = FALSE,
         NEW t \in Tamanios[f], t > F[f].tam, t <= tam_max_arch,
         NEW n, n = Ocupa(t) - Ocupa(F[f].tam)
                      + (IF Ocupa(t) > 1 /\ F[f].tam <= BLOCK_SIZE THEN 1 ELSE 0),
         NEW s \in Tomas(n, Bloques \ b),
         Crece(b, F, p, FALSE, f, t, s, b2, F2, p2, FALSE)
  PROVE  B!NextB
  <1>1. VeBitmap = b /\ VeFCB = F /\ VePunteros = p
        /\ VeBitmap' = b2 /\ VeFCB' = F2 /\ VePunteros' = p2
    BY DEF VeAntes, VeDespues, VeBitmap, VeFCB, VePunteros
  <1>2. B!asignar_bloques(f, t)
    <2> DEFINE m == Ocupa(t) - Ocupa(VeFCB[f].tam)
                      + (IF Ocupa(t) > 1 /\ VeFCB[f].tam <= BLOCK_SIZE THEN 1 ELSE 0)
    <2>1. s \in B!get_free_block(m)
      BY <1>1, LibresEnB
    <2>2. Crece(VeBitmap, VeFCB, VePunteros, caido, f, t, s, VeBitmap', VeFCB', VePunteros',
                caido')
      BY <1>1
    <2> HIDE DEF B!get_free_block
    <2> QED BY <2>1, <2>2 DEF B!asignar_bloques, Crece, VeBitmap, VeFCB, VePunteros,
                B!Ocupa, Ocupa, B!Indices, Indices, B!SinBloque, SinBloque
  <1> HIDE DEF B!asignar_bloques
  <1>3. B!F_TRUNCATE(f, t)
    BY <1>2, OcupaEnB DEF VeAntes, VeDespues, B!F_TRUNCATE
  <1> QED BY <1>3 DEF B!NextB

\* It shrinks to the size t.
LEMMA VeAchicar ==
  ASSUME NEW b, NEW F, NEW e, NEW p, VeAntes(b, F, e, p), NEW f \in Archivos, f \in e,
         NEW b2, NEW F2, VeDespues(b2, F2, e, p), caido = FALSE, caido' = FALSE,
         NEW t \in Tamanios[f], t < F[f].tam,
         Achica(b, F, p, FALSE, f, t, b2, F2, p, FALSE)
  PROVE  B!NextB
  <1>1. VeBitmap = b /\ VeFCB = F /\ VePunteros = p
        /\ VeBitmap' = b2 /\ VeFCB' = F2 /\ VePunteros' = p
    BY DEF VeAntes, VeDespues, VeBitmap, VeFCB, VePunteros
  <1>2. B!liberar_bloques(f, t)
    <2>1. Achica(VeBitmap, VeFCB, VePunteros, caido, f, t, VeBitmap', VeFCB', VePunteros',
                 caido')
      BY <1>1
    <2>2. \A D : Cardinality(D) = B!Cardinality(D)
      BY CardinalidadEnB
    <2> QED BY <2>1, <2>2 DEF B!liberar_bloques, Achica, VeBitmap, VeFCB, VePunteros,
                B!Ocupa, Ocupa, B!SinBloque, SinBloque
  <1> HIDE DEF B!liberar_bloques
  <1>3. B!F_TRUNCATE(f, t)
    BY <1>2 DEF VeAntes, VeDespues, B!F_TRUNCATE
  <1> QED BY <1>3 DEF B!NextB

-----------------------------------------------------------------------------
(* A request and the step of Bloques it adds up to.                        *)

\* Whether the request takes a direct block, and a block of pointers.
ConDirecto1 == IF peticion.tam_ant = 0 THEN 1 ELSE 0
ConPunteros1 == IF Total > 1 /\ peticion.tam_ant <= BLOCK_SIZE THEN 1 ELSE 0

\* How many blocks it has taken so far, and the i-th of them.
Llevados ==
  IF peticion.paso = "directo" THEN 0
  ELSE IF peticion.paso = "indirecto" THEN ConDirecto1
  ELSE ConDirecto1 + ConPunteros1 + Len(peticion.lista)

Tomado(i) ==
  IF ConDirecto1 = 1 /\ i = 1 THEN peticion.fcb.directo
  ELSE IF ConPunteros1 = 1 /\ i = ConDirecto1 + 1 THEN peticion.fcb.indirecto
  ELSE peticion.lista[i - ConDirecto1 - ConPunteros1]

Tomados == [i \in 1 .. Llevados |-> Tomado(i)]

\* They are the lowest ones that were free, and the bits set are theirs.
Sacados ==
  /\ EnOrden(Tomados, Llevados, Bloques \ previo.bitmap)
  /\ bitmap = previo.bitmap \union ({Tomados[i] : i \in 1 .. Llevados} \ {SinBloque})

\* The new pointers after the old ones.
ElUltimo == IF Antes = 0 THEN 0 ELSE Antes - 1
Escritos ==
  [previo.punteros EXCEPT ![peticion.fcb.indirecto] =
     [i \in Indices |-> IF i - ElUltimo + 1 \in DOMAIN peticion.lista
                        THEN peticion.lista[i - ElUltimo + 1] ELSE @[i]]]

VaCreciendo ==
  LET c == previo.FCB[peticion.f] IN
  /\ peticion.fcb.tam <= tam_max_arch
  /\ Sacados
  /\ ConDirecto1 = 0 => peticion.fcb.directo = c.directo
  /\ ConPunteros1 = 0 => peticion.fcb.indirecto = c.indirecto
  /\ peticion.paso = "directo" => ConDirecto1 = 1
  /\ peticion.paso \in {"indirecto", "guardar_indirecto"} => ConPunteros1 = 1
  /\ peticion.paso = "punteros" => peticion.lista # <<>>
  /\ peticion.paso # "guardar" => punteros = previo.punteros
  /\ peticion.paso = "guardar" =>
       /\ Base(Antes) + Len(peticion.lista) = Total
       /\ \/ peticion.lista = <<>> /\ punteros = previo.punteros
          \/ /\ peticion.lista # <<>> /\ peticion.fcb.indirecto # SinBloque /\ Total > 1
             /\ punteros = Escritos

\* The blocks a reduction takes from the file, and those it has not cleared yet.
QuitaDirecto == IF Total = 0 THEN {peticion.fcb.directo} ELSE {}
QuitaDatos ==
  IF Antes > 1
  THEN {punteros[peticion.fcb.indirecto][i] : i \in Base(Total) - 1 .. Antes - 2}
  ELSE {}
QuitaIndirecto == IF Antes > 1 /\ Total <= 1 THEN {peticion.fcb.indirecto} ELSE {}
Quita == QuitaDirecto \union QuitaDatos \union QuitaIndirecto

Falta ==
  IF peticion.paso \in {"guardar_tam", "limpiar_directo"} THEN Quita
  ELSE IF peticion.paso = "leer" THEN QuitaDatos \union QuitaIndirecto
  ELSE IF peticion.paso = "limpiar_datos"
       THEN {peticion.lista[i] : i \in DOMAIN peticion.lista} \union QuitaIndirecto
  ELSE IF peticion.paso = "limpiar_indirecto" THEN QuitaIndirecto
  ELSE {}

VaAchicando ==
  LET c == previo.FCB[peticion.f] IN
  /\ punteros = previo.punteros
  /\ peticion.fcb = FCB_(peticion.fcb.tam, c.directo, c.indirecto)
  /\ bitmap \ Falta = previo.bitmap \ Quita
  /\ SinBloque \in Quita => SinBloque \in Falta

VaBien ==
  LET f == peticion.f IN
  /\ peticion.paso \in Crecen \union Achican
  /\ previo.existe = existe
  /\ previo.bitmap \subseteq Bloques
  /\ previo.FCB \in [Archivos -> EsFCB]
  /\ previo.punteros \in [Bloques -> [Indices -> Valores]]
  /\ \A g \in Archivos : g # f => FCB[g] = previo.FCB[g]
  /\ peticion.tam_ant = previo.FCB[f].tam
  /\ peticion.fcb.tam \in Tamanios[f]
  /\ peticion.paso \in Crecen => VaCreciendo
  /\ peticion.paso \in Achican => VaAchicando

\* Until a death, a request is on its way to the step that Bloques takes for it.
IVista ==
  /\ caido = FALSE
  /\ caidas = 0 => rotos = {}
  /\ caidas = 0 /\ ~En("libre") => VaBien

-----------------------------------------------------------------------------
(* The steps of a request.                                                 *)

\* How much of a request does not change.
LEMMA VaFijo ==
  ASSUME Cursa, Marco, NEW q, NEW c, NEW k, NEW l, Queda(q, c, k, l), c.tam = peticion.fcb.tam
  PROVE  /\ previo' = previo /\ existe' = existe /\ caidas' = caidas
         /\ peticion'.paso = q /\ peticion'.f = peticion.f
         /\ peticion'.tam_ant = peticion.tam_ant /\ peticion'.fcb = c
         /\ peticion'.faltan = k /\ peticion'.lista = l
         /\ Antes' = Antes /\ Total' = Total
         /\ ConDirecto1' = ConDirecto1 /\ ConPunteros1' = ConPunteros1
         /\ ElUltimo' = ElUltimo
  <1>1. /\ peticion'.paso = q /\ peticion'.f = peticion.f
        /\ peticion'.tam_ant = peticion.tam_ant /\ peticion'.fcb = c
        /\ peticion'.faltan = k /\ peticion'.lista = l
        /\ Antes' = Antes /\ Total' = Total
    BY CamposQueda DEF Total
  <1>2. ConDirecto1' = ConDirecto1 /\ ConPunteros1' = ConPunteros1 /\ ElUltimo' = ElUltimo
    BY <1>1 DEF ConDirecto1, ConPunteros1, ElUltimo
  <1> QED BY <1>1, <1>2 DEF Marco

\* What VaBien needs besides: the file on its own.
LEMMA VaBienSi ==
  ASSUME Cursa, VaBien, Marco, NEW q \in Crecen \union Achican, NEW c, NEW k, NEW l,
         Queda(q, c, k, l), c.tam = peticion.fcb.tam,
         FCB' = FCB \/ FCB' = [FCB EXCEPT ![peticion.f] = peticion.fcb],
         q \in Crecen => VaCreciendo', q \in Achican => VaAchicando'
  PROVE  VaBien'
  <1>1. /\ previo' = previo /\ existe' = existe /\ peticion'.paso = q
        /\ peticion'.f = peticion.f /\ peticion'.tam_ant = peticion.tam_ant
        /\ peticion'.fcb.tam = peticion.fcb.tam
    BY VaFijo
  <1>2. \A g \in Archivos : g # peticion.f => FCB'[g] = FCB[g]
    BY DEF Cursa, TiposC, TypeOKB
  <1>3. /\ previo'.existe = existe' /\ previo'.bitmap \subseteq Bloques
        /\ previo'.FCB \in [Archivos -> EsFCB]
        /\ previo'.punteros \in [Bloques -> [Indices -> Valores]]
    BY <1>1 DEF VaBien
  <1>4. /\ \A g \in Archivos : g # peticion'.f => FCB'[g] = previo'.FCB[g]
        /\ peticion'.tam_ant = previo'.FCB[peticion'.f].tam
        /\ peticion'.fcb.tam \in Tamanios[peticion'.f]
    BY <1>1, <1>2 DEF VaBien
  <1> QED BY <1>1, <1>3, <1>4 DEF VaBien

LEMMA LlevadosEs ==
  ASSUME Cursa
  PROVE  /\ ConDirecto1 \in {0, 1} /\ ConPunteros1 \in {0, 1}
         /\ Len(peticion.lista) \in Nat /\ Llevados \in Nat
         /\ DOMAIN peticion.lista = 1 .. Len(peticion.lista)
  <1>1. peticion.lista \in Seq(Valores)
    BY DEF Cursa, EsPeticion
  <1>2. Len(peticion.lista) \in Nat /\ DOMAIN peticion.lista = 1 .. Len(peticion.lista)
    BY <1>1
  <1>3. ConDirecto1 \in {0, 1} /\ ConPunteros1 \in {0, 1}
    BY DEF ConDirecto1, ConPunteros1
  <1>4. Llevados \in Nat
    <2>1. PICK d, c, l : d = ConDirecto1 /\ c = ConPunteros1 /\ l = Len(peticion.lista)
      OBVIOUS
    <2>2. d \in Nat /\ c \in Nat /\ l \in Nat
      BY <1>2, <1>3, <2>1
    <2>3. Llevados \in {0, d, d + c + l}
      BY <2>1 DEF Llevados
    <2> QED BY <2>2, <2>3
  <1> QED BY <1>2, <1>3, <1>4

\* A step that takes a block.
LEMMA SacaOtro ==
  ASSUME Cursa, Sacados, NEW b, TomarBloque(b), previo' = previo,
         NEW n, n = Llevados, Llevados' = n + 1, Tomado(n + 1)' = b,
         \A i \in 1 .. n : Tomado(i)' = Tomado(i)
  PROVE  Sacados'
  <1>1. PICK L : L = Bloques \ previo.bitmap
    OBVIOUS
  <1>2. PICK s : s = Tomados
    OBVIOUS
  <1>3. PICK r : r = Tomados'
    OBVIOUS
  <1>4. n \in Nat /\ L \in SUBSET Nat /\ ~(SinBloque \in L)
    BY <1>1, LlevadosEs, BloquesAssumption DEF Bloques, SinBloque
  <1>5. /\ EnOrden(s, n, L) /\ s = [i \in 1 .. n |-> Tomado(i)]
        /\ bitmap = previo.bitmap \union ({s[i] : i \in 1 .. n} \ {SinBloque})
    BY <1>1, <1>2 DEF Sacados, Tomados
  <1>6. /\ r = [i \in 1 .. n + 1 |-> Tomado(i)'] /\ Llevados' = n + 1
        /\ Tomado(n + 1)' = b
    BY <1>3 DEF Tomados
  <1>7. /\ r[n + 1] = b /\ \A i \in 1 .. n : r[i] = s[i]
        /\ 1 .. n + 1 = (1 .. n) \union {n + 1}
    BY <1>1, <1>4, <1>5, <1>6
  <1>8. b = MasBajo /\ bitmap' = bitmap \union ({b} \ {SinBloque})
    BY DEF TomarBloque
  <1>9. s \in [1 .. n -> L \union {SinBloque}]
    BY <1>5 DEF EnOrden
  <1>10. Libres = {c \in L : \A j \in 1 .. n : s[j] # c}
    <2>1. \A c : c \in Libres <=> c \in Bloques /\ c \notin bitmap
      BY DEF Libres
    <2>2. \A c \in Bloques : c \in bitmap <=> c \in previo.bitmap \/ \E j \in 1 .. n : s[j] = c
      BY <1>5 DEF Bloques, SinBloque
    <2>3. \A c : c \in L <=> c \in Bloques /\ c \notin previo.bitmap
      BY <1>1
    <2> QED BY <2>1, <2>2, <2>3
  <1>11. b \in L \union {SinBloque}
    BY <1>8, <1>10, MasBajoEs
  <1>12. r \in [1 .. n + 1 -> L \union {SinBloque}]
    BY <1>6, <1>7, <1>9, <1>11
  <1>13. b = SinBloque => \A c \in L : \E j \in 1 .. n : s[j] = c
    BY <1>8, <1>10, MasBajoMinimo
  <1>14. b # SinBloque => /\ b \in L /\ \A j \in 1 .. n : s[j] # b
                          /\ \A c \in L : (\A j \in 1 .. n : s[j] # c) => b <= c
    BY <1>8, <1>10, MasBajoMinimo
  <1>15. EnOrden(r, n + 1, L)
    BY <1>4, <1>5, <1>7, <1>12, <1>13, <1>14, OtroEnOrden
  <1>16. bitmap' = previo.bitmap \union ({r[i] : i \in 1 .. n + 1} \ {SinBloque})
    BY <1>5, <1>7, <1>8
  <1>17. EnOrden(Tomados', Llevados', Bloques \ previo'.bitmap)
    BY <1>1, <1>3, <1>6, <1>15
  <1>18. bitmap' = previo'.bitmap \union ({Tomados'[i] : i \in 1 .. Llevados'} \ {SinBloque})
    BY <1>3, <1>6, <1>16
  <1> QED BY <1>17, <1>18 DEF Sacados, EnOrden, Bloques, SinBloque

\* A step that takes none.
LEMMA SacaIgual ==
  ASSUME Sacados, previo' = previo, bitmap' = bitmap, Llevados' = Llevados,
         \A i \in 1 .. Llevados : Tomado(i)' = Tomado(i)
  PROVE  Sacados'
  <1>1. Tomados' = Tomados
    BY DEF Tomados
  <1> QED BY <1>1 DEF Sacados

\* What VaCreciendo' comes to after a step to q with the FCB c and the list l.
LEMMA CreceSi ==
  ASSUME Cursa, VaBien, VaCreciendo, Marco, NEW q \in Crecen, NEW c \in EsFCB, NEW k, NEW l,
         Queda(q, c, k, l), c.tam = peticion.fcb.tam, Sacados',
         FCB' = FCB \/ FCB' = [FCB EXCEPT ![peticion.f] = peticion.fcb],
         ConDirecto1 = 0 => c.directo = peticion.fcb.directo,
         ConPunteros1 = 0 => c.indirecto = peticion.fcb.indirecto,
         q = "directo" => ConDirecto1 = 1,
         q \in {"indirecto", "guardar_indirecto"} => ConPunteros1 = 1,
         q = "punteros" => l # <<>>,
         q # "guardar" => punteros' = previo.punteros,
         q = "guardar" =>
           /\ Base(Antes) + Len(l) = Total
           /\ \/ l = <<>> /\ punteros' = previo.punteros
              \/ /\ l # <<>> /\ c.indirecto # SinBloque /\ Total > 1
                 /\ punteros' = Escritos'
  PROVE  VaBien'
  <1>1. /\ previo' = previo /\ peticion'.paso = q /\ peticion'.f = peticion.f
        /\ peticion'.fcb = c /\ peticion'.lista = l /\ Antes' = Antes /\ Total' = Total
        /\ ConDirecto1' = ConDirecto1 /\ ConPunteros1' = ConPunteros1
    BY VaFijo
  <1>2. Base(Antes)' = Base(Antes) /\ tam_max_arch' = tam_max_arch
    BY <1>1 DEF Base, tam_max_arch
  <1>3. /\ peticion'.fcb.tam <= tam_max_arch
        /\ ConDirecto1' = 0 => peticion'.fcb.directo = previo'.FCB[peticion'.f].directo
        /\ ConPunteros1' = 0 => peticion'.fcb.indirecto = previo'.FCB[peticion'.f].indirecto
    BY <1>1 DEF VaCreciendo
  <1>4. /\ peticion'.paso = "directo" => ConDirecto1' = 1
        /\ peticion'.paso \in {"indirecto", "guardar_indirecto"} => ConPunteros1' = 1
        /\ peticion'.paso = "punteros" => peticion'.lista # <<>>
        /\ peticion'.paso # "guardar" => punteros' = previo'.punteros
    BY <1>1
  <1>5. peticion'.paso = "guardar" =>
           /\ Base(Antes)' + Len(peticion'.lista) = Total'
           /\ \/ peticion'.lista = <<>> /\ punteros' = previo'.punteros
              \/ /\ peticion'.lista # <<>> /\ peticion'.fcb.indirecto # SinBloque
                 /\ Total' > 1
                 /\ punteros' = Escritos'
    BY <1>1, <1>2
  <1>6. VaCreciendo'
    BY <1>2, <1>3, <1>4, <1>5 DEF VaCreciendo, SinBloque
  <1>7. ~(q \in Achican)
    BY DEF Crecen, Achican
  <1> QED BY <1>6, <1>7, VaBienSi

\* The steps that go on with a growth begin so.
LEMMA VaCreciendoEs ==
  ASSUME VaBien, peticion.paso \in Crecen
  PROVE  VaCreciendo /\ Sacados
  BY DEF VaBien, VaCreciendo

LEMMA AsignarDirectoVa ==
  ASSUME Cursa, VaBien, Marco, AsignarDirecto
  PROVE  VaBien'
  <1>1. peticion.paso = "directo" /\ peticion.paso \in Crecen
    BY DEF AsignarDirecto, En, Crecen
  <1>2. VaCreciendo /\ Sacados
    BY <1>1, VaCreciendoEs
  <1>3. /\ Antes = 0 /\ peticion.lista = <<>> /\ peticion.tam_ant = 0
        /\ ConDirecto1 = 1 /\ Llevados = 0 /\ Total \in Nat /\ Total # 0
        /\ punteros = previo.punteros /\ peticion.fcb \in EsFCB
    <2>1. TypeOKB /\ EsPeticion /\ CuentaCrece
      BY DEF Cursa, TiposC
    <2>2. /\ Antes = 0 <=> peticion.tam_ant = 0
          /\ Total = 0 <=> peticion.fcb.tam = 0
          /\ peticion.tam_ant \in Nat /\ peticion.fcb.tam \in Nat /\ Total \in Nat
          /\ peticion.fcb \in EsFCB
      BY <2>1, Tamanos
    <2>3. Antes = 0 /\ peticion.lista = <<>> /\ peticion.tam_ant < peticion.fcb.tam
      BY <1>1, <2>1 DEF CuentaCrece
    <2> QED BY <1>1, <1>2, <2>2, <2>3 DEF VaCreciendo, Llevados
  <1>4. PICK b \in Valores :
           /\ TomarBloque(b)
           /\ Queda(IF Total > 1 /\ peticion.tam_ant <= BLOCK_SIZE THEN "indirecto"
                    ELSE Sigue(peticion.faltan - 1),
                    FCB_(peticion.fcb.tam, b, peticion.fcb.indirecto),
                    peticion.faltan - 1, peticion.lista)
    BY AsignarDirectoHace DEF Cursa
  <1>5. PICK q, c, k :
          /\ q = IF Total > 1 THEN "indirecto" ELSE "guardar"
          /\ c = FCB_(peticion.fcb.tam, b, peticion.fcb.indirecto)
          /\ Queda(q, c, k, <<>>)
    <2>1. peticion.tam_ant <= BLOCK_SIZE
      BY <1>3, BloquesAssumption
    <2>2. ~(Total > 1) => Sigue(peticion.faltan - 1) = "guardar"
      BY DEF Sigue
    <2> QED BY <1>3, <1>4, <2>1, <2>2
  <1>6. /\ c \in EsFCB /\ c.tam = peticion.fcb.tam /\ c.directo = b
        /\ c.indirecto = peticion.fcb.indirecto
    BY <1>3, <1>4, <1>5, FCBEs
  <1>7. /\ previo' = previo /\ peticion'.paso = q /\ peticion'.fcb = c
        /\ peticion'.lista = <<>>
        /\ ConDirecto1' = 1 /\ ConPunteros1' = ConPunteros1
    BY <1>3, <1>5, <1>6, VaFijo
  <1>8. ConPunteros1 = (IF Total > 1 THEN 1 ELSE 0)
    BY <1>3, BloquesAssumption DEF ConPunteros1
  <1>9. Llevados' = 1
    BY <1>5, <1>7, <1>8 DEF Llevados
  <1>10. \A i : i = 1 => Tomado(i)' = b
    BY <1>6, <1>7 DEF Tomado
  <1>11. Sacados'
    <2>1. PICK n : n = 0
      OBVIOUS
    <2>2. /\ n = Llevados /\ Llevados' = n + 1 /\ Tomado(n + 1)' = b
          /\ \A i \in 1 .. n : Tomado(i)' = Tomado(i)
      BY <1>3, <1>9, <1>10, <2>1
    <2> QED BY <1>2, <1>4, <1>7, <2>2, SacaOtro
  <1>12. q \in Crecen /\ q \notin {"directo", "guardar_indirecto", "punteros"}
    BY <1>5 DEF Crecen
  <1>13. FCB' = FCB /\ punteros' = previo.punteros
    BY <1>3, <1>4 DEF TomarBloque
  <1>14. q = "guardar" => Base(Antes) + Len(<<>>) = Total
    BY <1>3, <1>5 DEF Base
  <1>15. /\ ConDirecto1 = 0 => c.directo = peticion.fcb.directo
         /\ ConPunteros1 = 0 => c.indirecto = peticion.fcb.indirecto
         /\ q = "directo" => ConDirecto1 = 1
         /\ q \in {"indirecto", "guardar_indirecto"} => ConPunteros1 = 1
         /\ q = "punteros" => <<>> # <<>>
    BY <1>3, <1>5, <1>6, <1>8, <1>12
  <1> QED BY <1>2, <1>5, <1>6, <1>11, <1>12, <1>13, <1>14, <1>15, CreceSi

LEMMA AsignarIndirectoVa ==
  ASSUME Cursa, VaBien, Marco, AsignarIndirecto
  PROVE  VaBien'
  <1>1. peticion.paso = "indirecto" /\ peticion.paso \in Crecen
    BY DEF AsignarIndirecto, En, Crecen
  <1>2. VaCreciendo /\ Sacados
    BY <1>1, VaCreciendoEs
  <1>3. /\ peticion.lista = <<>> /\ ConPunteros1 = 1 /\ Llevados = ConDirecto1
        /\ ConDirecto1 \in {0, 1} /\ punteros = previo.punteros /\ peticion.fcb \in EsFCB
    <2>1. TypeOKB /\ EsPeticion /\ CuentaCrece
      BY DEF Cursa, TiposC
    <2>2. peticion.lista = <<>> /\ peticion.fcb \in EsFCB
      BY <1>1, <2>1, Tamanos DEF CuentaCrece
    <2> QED BY <1>1, <1>2, <2>2, LlevadosEs DEF VaCreciendo, Llevados
  <1>4. PICK b \in Valores :
           /\ TomarBloque(b)
           /\ Queda("guardar_indirecto",
                    FCB_(peticion.fcb.tam, peticion.fcb.directo, b),
                    peticion.faltan, peticion.lista)
    BY AsignarIndirectoHace DEF Cursa
  <1>5. PICK c, k : /\ c = FCB_(peticion.fcb.tam, peticion.fcb.directo, b)
                    /\ Queda("guardar_indirecto", c, k, <<>>)
    BY <1>3, <1>4
  <1>6. /\ c \in EsFCB /\ c.tam = peticion.fcb.tam /\ c.indirecto = b
        /\ c.directo = peticion.fcb.directo
    BY <1>3, <1>4, <1>5, FCBEs
  <1>7. /\ previo' = previo /\ peticion'.paso = "guardar_indirecto" /\ peticion'.fcb = c
        /\ peticion'.lista = <<>>
        /\ ConDirecto1' = ConDirecto1 /\ ConPunteros1' = 1
    BY <1>3, <1>5, <1>6, VaFijo
  <1>8. Sacados'
    <2>1. PICK n : n = ConDirecto1
      OBVIOUS
    <2>2. Llevados' = n + 1 /\ n \in {0, 1}
      BY <1>3, <1>7, <2>1 DEF Llevados
    <2>3. \A i : Tomado(i)' = IF n = 1 /\ i = 1 THEN c.directo
                              ELSE IF i = n + 1 THEN c.indirecto
                              ELSE <<>>[i - n - 1]
      BY <1>7, <2>1 DEF Tomado
    <2>4. Tomado(n + 1)' = b
      BY <1>6, <2>2, <2>3
    <2>5. \A i \in 1 .. n : Tomado(i) = peticion.fcb.directo
      BY <2>1, <2>2 DEF Tomado
    <2>6. \A i \in 1 .. n : Tomado(i)' = Tomado(i)
      BY <1>6, <2>2, <2>3, <2>5
    <2> QED BY <1>2, <1>3, <1>4, <1>7, <2>1, <2>2, <2>4, <2>6, SacaOtro
  <1>9. FCB' = FCB /\ punteros' = previo.punteros
    BY <1>3, <1>4 DEF TomarBloque
  <1>10. "guardar_indirecto" \in Crecen
    BY DEF Crecen
  <1> QED BY <1>2, <1>3, <1>5, <1>6, <1>8, <1>9, <1>10, CreceSi

LEMMA GuardarIndirectoVa ==
  ASSUME Cursa, VaBien, Marco, GuardarIndirecto
  PROVE  VaBien'
  <1>1. peticion.paso = "guardar_indirecto" /\ peticion.paso \in Crecen
    BY DEF GuardarIndirecto, En, Crecen
  <1>2. VaCreciendo /\ Sacados
    BY <1>1, VaCreciendoEs
  <1>3. /\ peticion.lista = <<>> /\ Total > 1 /\ peticion.faltan > 0
        /\ peticion.fcb \in EsFCB /\ punteros = previo.punteros
    <2>1. TypeOKB /\ EsPeticion /\ CuentaCrece
      BY DEF Cursa, TiposC
    <2>2. /\ peticion.lista = <<>> /\ Total > 1 /\ peticion.faltan = Total - 1
          /\ peticion.fcb \in EsFCB /\ Total \in Nat
      BY <1>1, <2>1, Tamanos DEF CuentaCrece
    <2> QED BY <1>1, <1>2, <2>2 DEF VaCreciendo
  <1>4. PICK c, k : /\ c = peticion.fcb /\ actualizar_FCB
                    /\ Queda("datos", c, k, <<>>)
    BY <1>3, GuardarIndirectoHace DEF Cursa, Sigue
  <1>5. /\ previo' = previo /\ peticion'.paso = "datos" /\ peticion'.fcb = c
        /\ peticion'.lista = <<>>
        /\ ConDirecto1' = ConDirecto1 /\ ConPunteros1' = ConPunteros1
    BY <1>4, VaFijo
  <1>6. /\ FCB' = [FCB EXCEPT ![peticion.f] = peticion.fcb]
        /\ bitmap' = bitmap /\ punteros' = previo.punteros
    BY <1>3, <1>4 DEF actualizar_FCB
  <1>7. Sacados'
    <2>1. Llevados' = Llevados
      BY <1>1, <1>3, <1>5 DEF Llevados
    <2>2. \A i : Tomado(i)' = Tomado(i)
      BY <1>3, <1>4, <1>5 DEF Tomado
    <2> QED BY <1>2, <1>5, <1>6, <2>1, <2>2, SacaIgual
  <1>8. "datos" \in Crecen
    BY DEF Crecen
  <1> QED BY <1>2, <1>3, <1>4, <1>6, <1>7, <1>8, CreceSi

LEMMA AsignarDatoVa ==
  ASSUME Cursa, VaBien, Marco, AsignarDato
  PROVE  VaBien'
  <1>1. peticion.paso = "datos" /\ peticion.paso \in Crecen
    BY DEF AsignarDato, En, Crecen
  <1>2. VaCreciendo /\ Sacados /\ punteros = previo.punteros
    BY <1>1, VaCreciendoEs DEF VaCreciendo
  <1>3. peticion.lista \in Seq(Valores) /\ peticion.fcb \in EsFCB
    BY DEF Cursa, EsPeticion
  <1>4. PICK b \in Valores :
           /\ TomarBloque(b)
           /\ Queda(IF peticion.faltan - 1 > 0 THEN "datos" ELSE "punteros", peticion.fcb,
                    peticion.faltan - 1, Append(peticion.lista, b))
    BY AsignarDatoHace DEF Cursa
  <1>5. PICK q, k, l, m :
          /\ q \in {"datos", "punteros"} /\ m = peticion.lista /\ l = Append(m, b)
          /\ Queda(q, peticion.fcb, k, l)
    BY <1>4
  <1>6. /\ previo' = previo /\ peticion'.paso = q /\ peticion'.fcb = peticion.fcb
        /\ peticion'.lista = l
        /\ ConDirecto1' = ConDirecto1 /\ ConPunteros1' = ConPunteros1
    BY <1>5, VaFijo
  <1>7. /\ m \in Seq(Valores) /\ Len(l) = Len(m) + 1 /\ Len(m) \in Nat
        /\ l[Len(m) + 1] = b /\ \A i \in 1 .. Len(m) : l[i] = m[i]
        /\ l # <<>>
    BY <1>3, <1>4, <1>5
  <1>8. Sacados'
    <2>1. PICK n, d, p, j : n = d + p + j /\ d = ConDirecto1 /\ p = ConPunteros1 /\ j = Len(m)
      OBVIOUS
    <2>2. d \in {0, 1} /\ p \in {0, 1} /\ j \in Nat /\ n \in Nat
      BY <1>7, <2>1, LlevadosEs
    <2>3. n = Llevados
      BY <1>1, <1>5, <2>1 DEF Llevados
    <2>4. Llevados' = n + 1
      <3>1. Llevados' = d + p + (j + 1)
        BY <1>5, <1>6, <1>7, <2>1 DEF Llevados
      <3> QED BY <2>1, <2>2, <3>1
    <2>5. \A i : /\ Tomado(i)' = IF d = 1 /\ i = 1 THEN peticion.fcb.directo
                                 ELSE IF p = 1 /\ i = d + 1 THEN peticion.fcb.indirecto
                                 ELSE l[i - d - p]
                 /\ Tomado(i) = IF d = 1 /\ i = 1 THEN peticion.fcb.directo
                                ELSE IF p = 1 /\ i = d + 1 THEN peticion.fcb.indirecto
                                ELSE m[i - d - p]
      BY <1>5, <1>6, <2>1 DEF Tomado
    <2>6. Tomado(n + 1)' = b
      <3>1. /\ ~(d = 1 /\ n + 1 = 1) /\ ~(p = 1 /\ n + 1 = d + 1)
            /\ (n + 1) - d - p = Len(m) + 1
        BY <2>1, <2>2
      <3> QED BY <1>7, <2>5, <3>1
    <2>7. ASSUME NEW i \in 1 .. n
          PROVE  Tomado(i)' = Tomado(i)
      <3>1. \/ d = 1 /\ i = 1
            \/ p = 1 /\ i = d + 1
            \/ i - d - p \in 1 .. Len(m)
        BY <2>1, <2>2
      <3> QED BY <1>7, <2>5, <3>1
    <2> QED BY <1>2, <1>4, <1>6, <2>3, <2>4, <2>6, <2>7, SacaOtro
  <1>9. FCB' = FCB /\ punteros' = previo.punteros
    BY <1>2, <1>4 DEF TomarBloque
  <1>10. q \in Crecen /\ q \notin {"directo", "indirecto", "guardar_indirecto", "guardar"}
    BY <1>5 DEF Crecen
  <1> QED BY <1>2, <1>3, <1>5, <1>7, <1>8, <1>9, <1>10, CreceSi

LEMMA EscribirPunterosVa ==
  ASSUME Cursa, VaBien, Marco, EscribirPunteros
  PROVE  VaBien'
  <1>1. peticion.paso = "punteros" /\ peticion.paso \in Crecen
    BY DEF EscribirPunteros, En, Crecen
  <1>2. /\ VaCreciendo /\ Sacados /\ punteros = previo.punteros /\ peticion.lista # <<>>
    BY <1>1, VaCreciendoEs DEF VaCreciendo
  <1>3. /\ Total > 1 /\ Base(Antes) + Len(peticion.lista) = Total
        /\ peticion.fcb \in EsFCB /\ EsPeticion
    BY <1>1 DEF Cursa, EsPeticion, CuentaCrece
  <1>4. /\ peticion.fcb.indirecto # SinBloque
        /\ FCB' = FCB /\ bitmap' = bitmap /\ Ir(peticion, "guardar")
        /\ punteros' = Escritos
    BY <1>2 DEF EscribirPunteros, Escritos, ElUltimo
  <1>5. PICK c, k, l : /\ c = peticion.fcb /\ l = peticion.lista
                       /\ Queda("guardar", c, k, l)
    BY <1>3, <1>4, SoloElPaso
  <1>6. /\ previo' = previo /\ peticion'.paso = "guardar" /\ peticion'.fcb = c
        /\ peticion'.lista = l /\ ElUltimo' = ElUltimo
        /\ ConDirecto1' = ConDirecto1 /\ ConPunteros1' = ConPunteros1
    BY <1>5, VaFijo
  <1>7. Sacados'
    <2>1. Llevados' = Llevados
      BY <1>1, <1>5, <1>6 DEF Llevados
    <2>2. \A i : Tomado(i)' = Tomado(i)
      BY <1>5, <1>6 DEF Tomado
    <2> QED BY <1>2, <1>4, <1>6, <2>1, <2>2, SacaIgual
  <1>8. Escritos' = Escritos
    <2>1. peticion'.fcb = peticion.fcb /\ peticion'.lista = peticion.lista
      BY <1>5, <1>6
    <2> QED BY <1>6, <2>1 DEF Escritos, Indices
  <1>9. "guardar" \in Crecen
    BY DEF Crecen
  <1> QED BY <1>2, <1>3, <1>4, <1>5, <1>7, <1>8, <1>9, CreceSi

\* The last save of a growth is the step that Bloques takes.
LEMMA GuardarFinalVa ==
  ASSUME Cursa, VaBien, Marco, caidas = 0, caido = FALSE, GuardarFinal
  PROVE  B!NextB
  <1>1. peticion.paso = "guardar" /\ peticion.paso \in Crecen
    BY DEF GuardarFinal, En, Crecen
  <1>2. /\ VaCreciendo /\ Sacados
    BY <1>1, VaCreciendoEs
  <1>3. PICK b, F, e, p, f, t, m :
          /\ b = previo.bitmap /\ F = previo.FCB /\ e = previo.existe /\ p = previo.punteros
          /\ f = peticion.f /\ t = peticion.fcb.tam /\ m = peticion.lista
    OBVIOUS
  <1>4. PICK d, c, A, T : /\ d = ConDirecto1 /\ c = ConPunteros1 /\ A = Antes /\ T = Total
    OBVIOUS
  <1>5. PICK s : s = Tomados
    OBVIOUS
  <1>6. PICK pd, pis : pd = peticion.fcb.directo /\ pis = peticion.fcb.indirecto
    OBVIOUS
  \* The counts.
  <1>7. /\ TypeOKB /\ EsPeticion /\ FCB \in [Archivos -> EsFCB]
        /\ f \in Archivos /\ f \in existe /\ peticion.fcb \in EsFCB
        /\ m \in Seq(Valores) /\ Len(m) \in Nat /\ DOMAIN m = 1 .. Len(m)
        /\ t \in Nat /\ peticion.tam_ant \in Nat /\ peticion.tam_ant < t
        /\ A \in Nat /\ T \in Nat /\ T # 0
        /\ A = 0 <=> peticion.tam_ant = 0
    <2>1. TypeOKB /\ EsPeticion /\ CuentaCrece
      BY DEF Cursa, TiposC
    <2>2. FCB \in [Archivos -> EsFCB]
      BY <2>1 DEF TypeOKB, EsFCB, Valores
    <2>3. /\ f \in Archivos /\ f \in existe /\ m \in Seq(Valores)
          /\ peticion.fcb \in EsFCB /\ t \in Nat /\ peticion.tam_ant \in Nat
      BY <1>3, <2>1, Tamanos DEF EsPeticion
    <2>4. peticion.tam_ant < t
      BY <1>1, <1>3, <2>1 DEF CuentaCrece
    <2>5. /\ A \in Nat /\ T \in Nat /\ (A = 0 <=> peticion.tam_ant = 0)
          /\ (T = 0 <=> peticion.fcb.tam = 0)
      BY <1>4, <2>1, Tamanos
    <2>6. Len(m) \in Nat /\ DOMAIN m = 1 .. Len(m)
      BY <2>3
    <2> QED BY <1>3, <2>1, <2>2, <2>3, <2>4, <2>5, <2>6
  <1>8. /\ peticion.tam_ant = F[f].tam /\ t \in Tamanios[f] /\ t <= tam_max_arch
        /\ e = existe /\ b \subseteq Bloques /\ F \in [Archivos -> EsFCB]
        /\ p \in [Bloques -> [Indices -> Valores]]
        /\ \A g \in Archivos : g # f => FCB[g] = F[g]
    BY <1>2, <1>3 DEF VaBien, VaCreciendo
  <1>9. /\ A = Ocupa(F[f].tam) /\ T = Ocupa(t)
        /\ d = IF F[f].tam = 0 THEN 1 ELSE 0
        /\ c = IF T > 1 /\ F[f].tam <= BLOCK_SIZE THEN 1 ELSE 0
    BY <1>3, <1>4, <1>8 DEF Antes, Total, ConDirecto1, ConPunteros1
  <1>10. /\ T - A = d + Len(m) /\ d \in {0, 1} /\ c \in {0, 1}
         /\ Llevados = (T - A) + c
    <2>1. Base(A) + Len(m) = T
      BY <1>1, <1>2, <1>3, <1>4 DEF VaCreciendo
    <2>2. Base(A) = A + d
      BY <1>7, <1>8, <1>9 DEF Base
    <2>3. d \in {0, 1} /\ c \in {0, 1}
      BY <1>9
    <2>4. Llevados = d + c + Len(m)
      BY <1>1, <1>3, <1>4 DEF Llevados
    <2> QED BY <1>7, <2>1, <2>2, <2>3, <2>4
  <1>11. PICK n : n = (T - A) + c
    OBVIOUS
  <1>12. /\ n \in Nat /\ n = d + c + Len(m) /\ n = Llevados
    BY <1>7, <1>10, <1>11
  \* The blocks.
  <1>13. /\ EnOrden(s, n, Bloques \ b) /\ DOMAIN s = 1 .. n
         /\ bitmap = b \union ({s[i] : i \in DOMAIN s} \ {SinBloque})
    BY <1>2, <1>3, <1>5, <1>12 DEF Sacados, Tomados
  <1>14. s \in Tomas(n, Bloques \ b)
    <2>1. IsFiniteSet(Bloques)
      BY FS_Interval, BloquesAssumption DEF Bloques
    <2>2. IsFiniteSet(Bloques \ b)
      BY <2>1, FS_Subset
    <2>3. Bloques \ b \in SUBSET Nat
      BY BloquesAssumption DEF Bloques
    <2> QED BY <1>12, <1>13, <2>2, <2>3, EnOrdenToma
  <1>15. \A i \in 1 .. n : s[i] = IF d = 1 /\ i = 1 THEN pd
                                  ELSE IF c = 1 /\ i = d + 1 THEN pis
                                  ELSE m[i - d - c]
    BY <1>3, <1>4, <1>5, <1>6, <1>12 DEF Tomados, Tomado
  <1>16. /\ pd = IF d = 1 THEN s[1] ELSE F[f].directo
         /\ pis = IF c = 1 THEN s[d + 1] ELSE F[f].indirecto
    <2>1. pd = IF d = 1 THEN s[1] ELSE F[f].directo
      <3>1. CASE d = 1
        <4>1. 1 \in 1 .. n
          BY <1>7, <1>10, <1>12, <3>1
        <4> QED BY <1>15, <3>1, <4>1
      <3>2. CASE d = 0
        BY <1>2, <1>3, <1>4, <1>6, <3>2 DEF VaCreciendo
      <3> QED BY <1>10, <3>1, <3>2
    <2>2. pis = IF c = 1 THEN s[d + 1] ELSE F[f].indirecto
      <3>1. CASE c = 1
        <4>1. d + 1 \in 1 .. n /\ ~(d = 1 /\ d + 1 = 1)
          BY <1>7, <1>10, <1>12, <3>1
        <4> QED BY <1>15, <3>1, <4>1
      <3>2. CASE c = 0
        BY <1>2, <1>3, <1>4, <1>6, <3>2 DEF VaCreciendo
      <3> QED BY <1>10, <3>1, <3>2
    <2> QED BY <2>1, <2>2
  \* The disk after it.
  <1>17. /\ actualizar_FCB /\ peticion' = Ninguna /\ caidas' = 0 /\ caido' = FALSE
         /\ existe' = e /\ previo' = previo
    BY <1>8 DEF GuardarFinal, Terminar, Marco
  <1>18. /\ bitmap' = bitmap /\ punteros' = punteros
         /\ FCB' = [F EXCEPT ![f] = [tam |-> t, directo |-> pd, indirecto |-> pis]]
    <2>1. /\ bitmap' = bitmap /\ punteros' = punteros
          /\ FCB' = [FCB EXCEPT ![f] = peticion.fcb]
      BY <1>3, <1>17 DEF actualizar_FCB
    <2>2. peticion.fcb = [tam |-> t, directo |-> pd, indirecto |-> pis]
      BY <1>3, <1>6, <1>7 DEF EsFCB
    <2>3. [FCB EXCEPT ![f] = peticion.fcb] = [F EXCEPT ![f] = peticion.fcb]
      BY <1>7, <1>8
    <2> QED BY <2>1, <2>2, <2>3
  <1>19. IF T > 1 /\ T - A > d
         THEN /\ FALSE = (pis = SinBloque)
              /\ punteros = IF pis = SinBloque THEN p
                            ELSE [p EXCEPT ![pis] =
                              [i \in Indices |->
                                 IF i - ElUltimo \in 0 .. (T - A) - d - 1
                                 THEN s[d + c + 1 + i - ElUltimo] ELSE @[i]]]
         ELSE punteros = p
    <2>1. \/ m = <<>> /\ punteros = p
          \/ m # <<>> /\ pis # SinBloque /\ T > 1 /\ punteros = Escritos
      BY <1>1, <1>2, <1>3, <1>4, <1>6 DEF VaCreciendo
    <2>2. CASE m = <<>> /\ punteros = p
      <3>1. ~(T - A > d)
        BY <1>10, <2>2
      <3> QED BY <2>2, <3>1
    <2>3. CASE m # <<>> /\ pis # SinBloque /\ T > 1 /\ punteros = Escritos
      <3>1. PICK u : u = ElUltimo
        OBVIOUS
      <3>2. u \in Int
        BY <1>4, <1>7, <3>1 DEF ElUltimo
      <3>3. T > 1 /\ T - A > d /\ (T - A) - d - 1 = Len(m) - 1
        <4>1. Len(m) # 0
          BY <1>7, <2>3
        <4> QED BY <1>7, <1>10, <2>3, <4>1
      <3>4. punteros = [p EXCEPT ![pis] =
                          [i \in Indices |-> IF i - u + 1 \in DOMAIN m
                                             THEN m[i - u + 1] ELSE p[pis][i]]]
        BY <1>3, <1>6, <2>3, <3>1 DEF Escritos
      <3>5. ASSUME NEW i \in Indices
            PROVE  (IF i - u + 1 \in DOMAIN m THEN m[i - u + 1] ELSE p[pis][i])
                     = (IF i - u \in 0 .. (T - A) - d - 1
                        THEN s[d + c + 1 + i - u] ELSE p[pis][i])
        <4>1. i \in Int /\ (i - u + 1 \in 1 .. Len(m) <=> i - u \in 0 .. Len(m) - 1)
          BY <1>7, <3>2, BloquesAssumption DEF Indices
        <4>2. ASSUME i - u \in 0 .. Len(m) - 1
              PROVE  m[i - u + 1] = s[d + c + 1 + i - u]
          <5>1. PICK j : j = d + c + 1 + i - u
            OBVIOUS
          <5>2. /\ j \in 1 .. n /\ ~(d = 1 /\ j = 1) /\ ~(c = 1 /\ j = d + 1)
                /\ j - d - c = i - u + 1
            BY <1>7, <1>10, <1>12, <3>2, <4>1, <4>2, <5>1
          <5> QED BY <1>15, <5>1, <5>2
        <4> QED BY <1>7, <3>3, <4>1, <4>2
      <3>6. [i \in Indices |-> IF i - u + 1 \in DOMAIN m THEN m[i - u + 1] ELSE p[pis][i]]
              = [i \in Indices |-> IF i - u \in 0 .. (T - A) - d - 1
                                   THEN s[d + c + 1 + i - u] ELSE p[pis][i]]
        BY <3>5
      <3> QED BY <2>3, <3>1, <3>3, <3>4, <3>6
    <2> QED BY <2>1, <2>2, <2>3
  <1>20. Crece(b, F, p, FALSE, f, t, s, bitmap', FCB', punteros', FALSE)
    <2>1. ElUltimo = IF Ocupa(F[f].tam) = 0 THEN 0 ELSE Ocupa(F[f].tam) - 1
      BY <1>4, <1>9 DEF ElUltimo
    <2>2. /\ bitmap' = b \union ({s[i] : i \in DOMAIN s} \ {SinBloque})
          /\ FCB' = [F EXCEPT ![f] = [tam |-> t, directo |-> pd, indirecto |-> pis]]
          /\ punteros' = punteros
      BY <1>13, <1>18
    <2>3. IF T > 1 /\ T - A > d
          THEN /\ FALSE = (pis = SinBloque)
               /\ punteros' = IF pis = SinBloque THEN p
                             ELSE [p EXCEPT ![pis] =
                               [i \in Indices |->
                                  IF i - ElUltimo \in 0 .. (T - A) - d - 1
                                  THEN s[d + c + 1 + i - ElUltimo] ELSE @[i]]]
          ELSE <<punteros', FALSE>> = <<p, FALSE>>
      BY <1>19, <2>2
    <2> QED BY <1>9, <1>16, <2>1, <2>2, <2>3 DEF Crece
  <1>21. VeAntes(b, F, e, p)
    <2>1. ~Quieto
      BY <1>1 DEF Quieto, En
    <2> QED BY <1>3, <2>1, VeQuieto
  <1>22. VeDespues(bitmap', FCB', e, punteros')
    <2>1. Quieto'
      BY <1>17 DEF Quieto, En, Ninguna
    <2> QED BY <1>17, <2>1, VeQuieto
  <1>23. n = Ocupa(t) - Ocupa(F[f].tam)
               + (IF Ocupa(t) > 1 /\ F[f].tam <= BLOCK_SIZE THEN 1 ELSE 0)
    BY <1>9, <1>11
  <1>24. PICK b2, F2, p2 : b2 = bitmap' /\ F2 = FCB' /\ p2 = punteros'
    OBVIOUS
  <1>25. /\ VeDespues(b2, F2, e, p2) /\ Crece(b, F, p, FALSE, f, t, s, b2, F2, p2, FALSE)
         /\ t > F[f].tam
    BY <1>7, <1>8, <1>20, <1>22, <1>24
  <1> QED BY <1>7, <1>8, <1>14, <1>17, <1>21, <1>23, <1>25, VeCrecer

\* A step that clears the blocks of x, none or one.
LEMMA AchicaSi ==
  ASSUME Cursa, VaBien, VaAchicando, Marco, NEW q \in Achican, NEW k, NEW l, NEW x,
         Queda(q, peticion.fcb, k, l), SinBloque \notin x,
         FCB' = FCB \/ FCB' = [FCB EXCEPT ![peticion.f] = peticion.fcb],
         punteros' = punteros, bitmap' = bitmap \ x,
         Falta = x \union
           (IF q \in {"guardar_tam", "limpiar_directo"} THEN Quita
            ELSE IF q = "leer" THEN QuitaDatos \union QuitaIndirecto
            ELSE IF q = "limpiar_datos"
                 THEN {l[i] : i \in DOMAIN l} \union QuitaIndirecto
            ELSE IF q = "limpiar_indirecto" THEN QuitaIndirecto
            ELSE {})
  PROVE  VaBien'
  <1>1. /\ previo' = previo /\ peticion'.paso = q /\ peticion'.f = peticion.f
        /\ peticion'.fcb = peticion.fcb /\ peticion'.lista = l
        /\ Antes' = Antes /\ Total' = Total
    BY VaFijo
  <1>2. /\ QuitaDirecto' = QuitaDirecto /\ QuitaIndirecto' = QuitaIndirecto
        /\ QuitaDatos' = QuitaDatos
    <2>1. Base(Total)' = Base(Total)
      BY <1>1 DEF Base
    <2>2. QuitaDirecto' = QuitaDirecto
      BY <1>1 DEF QuitaDirecto
    <2>3. QuitaIndirecto' = QuitaIndirecto
      BY <1>1 DEF QuitaIndirecto
    <2>4. QuitaDatos' = QuitaDatos
      BY <1>1, <2>1 DEF QuitaDatos
    <2> QED BY <2>2, <2>3, <2>4
  <1>3. Quita' = Quita
    BY <1>2 DEF Quita
  <1>4. Falta = x \union Falta'
    BY <1>1, <1>2, <1>3 DEF Falta
  <1>5. bitmap' \ Falta' = previo'.bitmap \ Quita'
    BY <1>1, <1>3, <1>4 DEF VaAchicando
  <1>6. SinBloque \in Quita' => SinBloque \in Falta'
    BY <1>3, <1>4 DEF VaAchicando, SinBloque
  <1>7. peticion'.fcb = FCB_(peticion'.fcb.tam, previo'.FCB[peticion'.f].directo,
                             previo'.FCB[peticion'.f].indirecto)
        /\ punteros' = previo'.punteros
    BY <1>1 DEF VaAchicando
  <1>8. VaAchicando'
    BY <1>5, <1>6, <1>7 DEF VaAchicando, FCB_, SinBloque
  <1>9. ~(q \in Crecen)
    BY DEF Crecen, Achican
  <1> QED BY <1>8, <1>9, VaBienSi

LEMMA VaAchicandoEs ==
  ASSUME Cursa, VaBien, peticion.paso \in Achican
  PROVE  /\ VaAchicando /\ EsPeticion /\ CuentaAchica /\ peticion.fcb \in EsFCB
         /\ Antes \in Nat /\ Total \in Nat /\ Total <= Antes
         /\ Antes <= BLOCK_SIZE + 1
         /\ QuitaDirecto = {} \/ Total = 0
         /\ QuitaIndirecto = {} \/ (Antes > 1 /\ Total <= 1)
         /\ QuitaDatos = {} \/ Antes > 1
         /\ Base(Total) \in Nat /\ Base(Total) = (IF Total = 0 THEN 1 ELSE Total)
  <1>1. VaAchicando /\ EsPeticion /\ CuentaAchica /\ TypeOKB
    BY DEF VaBien, Cursa, TiposC
  <1>2. /\ Antes \in Nat /\ Total \in Nat /\ Total <= Antes /\ Antes <= BLOCK_SIZE + 1
        /\ peticion.fcb \in EsFCB
    BY <1>1, Achicando, Tamanos
  <1>3. Base(Total) \in Nat /\ Base(Total) = (IF Total = 0 THEN 1 ELSE Total)
    BY <1>2 DEF Base
  <1> QED BY <1>1, <1>2, <1>3 DEF QuitaDirecto, QuitaIndirecto, QuitaDatos

LEMMA GuardarTamanioVa ==
  ASSUME Cursa, VaBien, Marco, GuardarTamanio
  PROVE  VaBien'
  <1>1. peticion.paso = "guardar_tam" /\ peticion.paso \in Achican
    BY DEF GuardarTamanio, En, Achican
  <1>2. VaAchicando /\ EsPeticion
    BY <1>1, VaAchicandoEs
  <1>3. PICK q, k, l :
          /\ q = IF Total = 0 THEN "limpiar_directo" ELSE IF Antes > 1 THEN "leer" ELSE "fin"
          /\ Queda(q, peticion.fcb, k, l)
          /\ actualizar_FCB
    BY <1>2, GuardarTamanioHace
  <1>4. /\ FCB' = [FCB EXCEPT ![peticion.f] = peticion.fcb]
        /\ bitmap' = bitmap /\ punteros' = punteros
    BY <1>3 DEF actualizar_FCB
  <1>5. Falta = Quita
    BY <1>1 DEF Falta
  <1>6. /\ q = "leer" => Quita = QuitaDatos \union QuitaIndirecto
        /\ q = "fin" => Quita = {}
    BY <1>1, <1>3, VaAchicandoEs DEF Quita
  <1>7. q \in Achican /\ q \in {"limpiar_directo", "leer", "fin"}
    BY <1>3 DEF Achican
  <1>8. PICK x : x = {}
    OBVIOUS
  <1>9. Falta = x \union
           (IF q \in {"guardar_tam", "limpiar_directo"} THEN Quita
            ELSE IF q = "leer" THEN QuitaDatos \union QuitaIndirecto
            ELSE IF q = "limpiar_datos"
                 THEN {l[i] : i \in DOMAIN l} \union QuitaIndirecto
            ELSE IF q = "limpiar_indirecto" THEN QuitaIndirecto
            ELSE {})
    BY <1>5, <1>6, <1>7, <1>8
  <1>10. bitmap' = bitmap \ x /\ SinBloque \notin x
    BY <1>4, <1>8
  <1> QED BY <1>2, <1>3, <1>4, <1>7, <1>9, <1>10, AchicaSi

LEMMA LimpiarDirectoVa ==
  ASSUME Cursa, VaBien, Marco, LimpiarDirecto
  PROVE  VaBien'
  <1>1. peticion.paso = "limpiar_directo" /\ peticion.paso \in Achican
    BY DEF LimpiarDirecto, En, Achican
  <1>2. VaAchicando /\ EsPeticion /\ Total = 0
    BY <1>1, VaAchicandoEs DEF CuentaAchica
  <1>3. PICK q, k, l :
          /\ q = IF Antes > 1 THEN "leer" ELSE "fin"
          /\ Queda(q, peticion.fcb, k, l)
          /\ Limpiar(peticion.fcb.directo)
    BY <1>2, LimpiarDirectoHace
  <1>4. PICK x : x = {peticion.fcb.directo}
    OBVIOUS
  <1>5. /\ FCB' = FCB /\ bitmap' = bitmap \ x /\ punteros' = punteros /\ SinBloque \notin x
    BY <1>3, <1>4 DEF Limpiar
  <1>6. Falta = Quita /\ QuitaDirecto = x
    BY <1>1, <1>2, <1>4 DEF Falta, QuitaDirecto
  <1>7. q = "fin" => QuitaDatos = {} /\ QuitaIndirecto = {}
    BY <1>1, <1>3, VaAchicandoEs
  <1>8. q \in Achican /\ q \in {"leer", "fin"}
    BY <1>3 DEF Achican
  <1>9. Falta = x \union
           (IF q \in {"guardar_tam", "limpiar_directo"} THEN Quita
            ELSE IF q = "leer" THEN QuitaDatos \union QuitaIndirecto
            ELSE IF q = "limpiar_datos"
                 THEN {l[i] : i \in DOMAIN l} \union QuitaIndirecto
            ELSE IF q = "limpiar_indirecto" THEN QuitaIndirecto
            ELSE {})
    BY <1>6, <1>7, <1>8 DEF Quita
  <1> QED BY <1>2, <1>3, <1>5, <1>8, <1>9, AchicaSi

LEMMA LeerPunterosVa ==
  ASSUME Cursa, VaBien, Marco, LeerPunteros
  PROVE  VaBien'
  <1>1. peticion.paso = "leer" /\ peticion.paso \in Achican
    BY DEF LeerPunteros, En, Achican
  <1>2. /\ VaAchicando /\ EsPeticion /\ Antes > 1 /\ peticion.faltan = Antes - Base(Total)
        /\ Antes \in Nat /\ Total \in Nat /\ Base(Total) \in Nat /\ Total <= Antes
    BY <1>1, VaAchicandoEs DEF CuentaAchica
  <1>3. FCB' = FCB /\ bitmap' = bitmap /\ punteros' = punteros
    BY DEF LeerPunteros
  <1>4. PICK q, k, l :
          /\ Queda(q, peticion.fcb, k, l)
          /\ \/ /\ q = "limpiar_datos"
                /\ l = [j \in 1 .. peticion.faltan |->
                          punteros[peticion.fcb.indirecto][Antes - 1 - peticion.faltan + j - 1]]
             \/ q = TrasDatos /\ peticion.faltan = 0
    BY <1>2, LeerPunterosHace
  <1>5. Falta = QuitaDatos \union QuitaIndirecto
    BY <1>1 DEF Falta
  <1>6. CASE q = TrasDatos /\ peticion.faltan = 0
    <2>1. QuitaDatos = {}
      BY <1>2, <1>6 DEF QuitaDatos
    <2>2. q \in {"limpiar_indirecto", "fin"} /\ q \in Achican
      BY <1>6 DEF TrasDatos, Achican
    <2>3. q = "fin" => QuitaIndirecto = {}
      BY <1>6 DEF TrasDatos, QuitaIndirecto
    <2>4. PICK x : x = {}
      OBVIOUS
    <2>5. Falta = x \union
           (IF q \in {"guardar_tam", "limpiar_directo"} THEN Quita
            ELSE IF q = "leer" THEN QuitaDatos \union QuitaIndirecto
            ELSE IF q = "limpiar_datos"
                 THEN {l[i] : i \in DOMAIN l} \union QuitaIndirecto
            ELSE IF q = "limpiar_indirecto" THEN QuitaIndirecto
            ELSE {})
      BY <1>5, <2>1, <2>2, <2>3, <2>4
    <2>6. bitmap' = bitmap \ x /\ SinBloque \notin x
      BY <1>3, <2>4
    <2> QED BY <1>2, <1>3, <1>4, <2>2, <2>5, <2>6, AchicaSi
  <1>7. CASE /\ q = "limpiar_datos"
             /\ l = [j \in 1 .. peticion.faltan |->
                       punteros[peticion.fcb.indirecto][Antes - 1 - peticion.faltan + j - 1]]
    <2>1. PICK P, n, m : /\ P = punteros[peticion.fcb.indirecto] /\ n = peticion.faltan
                         /\ m = Base(Total) - 1
      OBVIOUS
    <2>2. m \in Int /\ n \in Int /\ Antes - 1 - n = m /\ Antes - 2 = m + n - 1
      BY <1>2, <2>1
    <2>3. l = [j \in 1 .. n |-> P[m + j - 1]] /\ DOMAIN l = 1 .. n
      BY <1>7, <2>1, <2>2
    <2>4. QuitaDatos = {P[i] : i \in m .. m + n - 1}
      BY <1>2, <2>1, <2>2 DEF QuitaDatos
    <2>5. QuitaDatos = {l[j] : j \in DOMAIN l}
      <3>1. ASSUME NEW j \in 1 .. n
            PROVE  l[j] \in QuitaDatos
        <4>1. m + j - 1 \in m .. m + n - 1
          BY <2>2
        <4> QED BY <2>3, <2>4, <4>1
      <3>2. ASSUME NEW i \in m .. m + n - 1
            PROVE  \E j \in 1 .. n : l[j] = P[i]
        <4>1. i - m + 1 \in 1 .. n /\ m + (i - m + 1) - 1 = i
          BY <2>2
        <4> QED BY <2>3, <4>1
      <3> QED BY <2>3, <2>4, <3>1, <3>2
    <2>6. PICK x : x = {}
      OBVIOUS
    <2>7. Falta = x \union
           (IF q \in {"guardar_tam", "limpiar_directo"} THEN Quita
            ELSE IF q = "leer" THEN QuitaDatos \union QuitaIndirecto
            ELSE IF q = "limpiar_datos"
                 THEN {l[i] : i \in DOMAIN l} \union QuitaIndirecto
            ELSE IF q = "limpiar_indirecto" THEN QuitaIndirecto
            ELSE {})
      BY <1>5, <1>7, <2>5, <2>6
    <2>8. bitmap' = bitmap \ x /\ SinBloque \notin x /\ q \in Achican
      BY <1>3, <1>7, <2>6 DEF Achican
    <2> QED BY <1>2, <1>3, <1>4, <2>7, <2>8, AchicaSi
  <1> QED BY <1>4, <1>6, <1>7

LEMMA LimpiarDatoVa ==
  ASSUME Cursa, VaBien, Marco, LimpiarDato
  PROVE  VaBien'
  <1>1. peticion.paso = "limpiar_datos" /\ peticion.paso \in Achican
    BY DEF LimpiarDato, En, Achican
  <1>2. VaAchicando /\ EsPeticion /\ peticion.lista # <<>>
    BY <1>1, VaAchicandoEs DEF CuentaAchica
  <1>3. PICK m : m = peticion.lista
    OBVIOUS
  <1>4. m \in Seq(Valores) /\ m # <<>>
    BY <1>2, <1>3 DEF EsPeticion
  <1>5. PICK q, k, l, x :
          /\ q = IF l = <<>> THEN TrasDatos ELSE "limpiar_datos"
          /\ Queda(q, peticion.fcb, k, l) /\ l = Tail(m) /\ x = {Head(m)}
          /\ Limpiar(Head(m))
    BY <1>2, <1>3, LimpiarDatoHace
  <1>6. /\ FCB' = FCB /\ bitmap' = bitmap \ x /\ punteros' = punteros /\ SinBloque \notin x
    BY <1>5 DEF Limpiar
  <1>7. Falta = {m[i] : i \in DOMAIN m} \union QuitaIndirecto
    BY <1>1, <1>3 DEF Falta
  <1>8. {m[i] : i \in DOMAIN m} = x \union {l[i] : i \in DOMAIN l}
    <2>1. /\ DOMAIN m = 1 .. Len(m) /\ Len(m) \in Nat /\ Len(m) >= 1
          /\ DOMAIN l = 1 .. Len(m) - 1 /\ Head(m) = m[1]
          /\ \A i \in 1 .. Len(m) - 1 : l[i] = m[i + 1]
      BY <1>4, <1>5
    <2>2. ASSUME NEW i \in DOMAIN m
          PROVE  m[i] \in x \union {l[j] : j \in DOMAIN l}
      <3>1. CASE i = 1
        BY <1>5, <2>1, <3>1
      <3>2. CASE i # 1
        <4>1. i - 1 \in DOMAIN l /\ (i - 1) + 1 = i
          BY <2>1, <3>2
        <4> QED BY <2>1, <4>1
      <3> QED BY <3>1, <3>2
    <2>3. ASSUME NEW j \in DOMAIN l
          PROVE  l[j] \in {m[i] : i \in DOMAIN m}
      <3>1. j + 1 \in DOMAIN m /\ l[j] = m[j + 1]
        BY <2>1
      <3> QED BY <3>1
    <2>4. Head(m) \in {m[i] : i \in DOMAIN m}
      BY <2>1
    <2> QED BY <1>5, <2>2, <2>3, <2>4
  <1>9. /\ q \in {"limpiar_datos", "limpiar_indirecto", "fin"} /\ q \in Achican
        /\ q = "fin" => QuitaIndirecto = {}
        /\ q # "limpiar_datos" => l = <<>>
    BY <1>5 DEF TrasDatos, QuitaIndirecto, Achican
  <1>10. l = <<>> => {l[i] : i \in DOMAIN l} = {}
    OBVIOUS
  <1>11. Falta = x \union
           (IF q \in {"guardar_tam", "limpiar_directo"} THEN Quita
            ELSE IF q = "leer" THEN QuitaDatos \union QuitaIndirecto
            ELSE IF q = "limpiar_datos"
                 THEN {l[i] : i \in DOMAIN l} \union QuitaIndirecto
            ELSE IF q = "limpiar_indirecto" THEN QuitaIndirecto
            ELSE {})
    BY <1>7, <1>8, <1>9, <1>10
  <1> QED BY <1>2, <1>5, <1>6, <1>9, <1>11, AchicaSi

LEMMA LimpiarIndirectoVa ==
  ASSUME Cursa, VaBien, Marco, LimpiarIndirecto
  PROVE  VaBien'
  <1>1. peticion.paso = "limpiar_indirecto" /\ peticion.paso \in Achican
    BY DEF LimpiarIndirecto, En, Achican
  <1>2. VaAchicando /\ EsPeticion /\ Antes > 1 /\ Total <= 1
    BY <1>1, VaAchicandoEs DEF CuentaAchica
  <1>3. PICK k, l : Queda("fin", peticion.fcb, k, l)
    BY <1>2, SoloElPaso DEF LimpiarIndirecto
  <1>4. PICK x : x = {peticion.fcb.indirecto}
    OBVIOUS
  <1>5. /\ FCB' = FCB /\ bitmap' = bitmap \ x /\ punteros' = punteros /\ SinBloque \notin x
    BY <1>4 DEF LimpiarIndirecto, Limpiar
  <1>6. Falta = x
    BY <1>1, <1>2, <1>4 DEF Falta, QuitaIndirecto
  <1>7. "fin" \in Achican
    BY DEF Achican
  <1> QED BY <1>2, <1>3, <1>5, <1>6, <1>7, AchicaSi

\* The end of a reduction is the step that Bloques takes.
LEMMA FinDeLiberarVa ==
  ASSUME Cursa, VaBien, Marco, caidas = 0, caido = FALSE, FinDeLiberar
  PROVE  B!NextB
  <1>1. peticion.paso = "fin" /\ peticion.paso \in Achican /\ peticion.paso \in GuardaYa
    BY DEF FinDeLiberar, En, Achican, GuardaYa
  <1>2. /\ VaAchicando /\ EsPeticion /\ CuentaAchica /\ peticion.fcb \in EsFCB
        /\ FCB[peticion.f] = peticion.fcb /\ Total <= Antes
    BY <1>1, VaAchicandoEs, YaGuardado
  <1>3. PICK b, F, e, p, f, t, A, T :
          /\ b = previo.bitmap /\ F = previo.FCB /\ e = previo.existe /\ p = previo.punteros
          /\ f = peticion.f /\ t = peticion.fcb.tam /\ A = Antes /\ T = Total
    OBVIOUS
  <1>4. /\ TypeOKB /\ FCB \in [Archivos -> EsFCB]
        /\ f \in Archivos /\ f \in existe /\ t \in Nat /\ A \in Nat /\ T \in Nat
        /\ t < peticion.tam_ant
    <2>1. TypeOKB
      BY DEF Cursa, TiposC
    <2>2. FCB \in [Archivos -> EsFCB]
      BY <2>1 DEF TypeOKB, EsFCB, Valores
    <2>3. /\ f \in Archivos /\ f \in existe /\ t \in Nat /\ A \in Nat /\ T \in Nat
      BY <1>2, <1>3, <2>1, Tamanos DEF EsPeticion
    <2>4. t < peticion.tam_ant
      BY <1>1, <1>2, <1>3 DEF CuentaAchica
    <2> QED BY <2>1, <2>2, <2>3, <2>4
  <1>5. /\ peticion.tam_ant = F[f].tam /\ t \in Tamanios[f]
        /\ e = existe /\ F \in [Archivos -> EsFCB]
        /\ \A g \in Archivos : g # f => FCB[g] = F[g]
        /\ punteros = p /\ FCB[f] = FCB_(t, F[f].directo, F[f].indirecto)
    BY <1>2, <1>3 DEF VaBien, VaAchicando
  <1>6. A = Ocupa(F[f].tam) /\ T = Ocupa(t)
    BY <1>3, <1>5 DEF Antes, Total
  \* The blocks that go.
  <1>7. PICK D, I, x :
          /\ D = IF T = 0 THEN {F[f].directo} ELSE {}
          /\ I = IF A > 1 /\ T <= 1 THEN {F[f].indirecto} ELSE {}
          /\ x = IF A > 1
                 THEN {p[F[f].indirecto][i] : i \in A - 1 - (A - T - Cardinality(D)) .. A - 2}
                 ELSE {}
    OBVIOUS
  <1>8. peticion.fcb.directo = F[f].directo /\ peticion.fcb.indirecto = F[f].indirecto
    BY <1>2, <1>3, <1>5 DEF FCB_
  <1>9. D = QuitaDirecto /\ I = QuitaIndirecto
    BY <1>3, <1>7, <1>8 DEF QuitaDirecto, QuitaIndirecto
  <1>10. x = QuitaDatos
    <2>1. Cardinality(D) = IF T = 0 THEN 1 ELSE 0
      BY <1>7, FS_Singleton, FS_EmptySet
    <2>2. A - 1 - (A - T - Cardinality(D)) = Base(T) - 1
      BY <1>4, <2>1 DEF Base
    <2>3. PICK P, m, n : P = p[F[f].indirecto] /\ m = Base(T) - 1 /\ n = A - 2
      OBVIOUS
    <2>4. x = IF A > 1 THEN {P[i] : i \in m .. n} ELSE {}
      BY <1>7, <2>2, <2>3
    <2>5. punteros[peticion.fcb.indirecto] = P /\ Base(Total) - 1 = m /\ Antes - 2 = n
      BY <1>3, <1>5, <1>8, <2>3
    <2>6. QuitaDatos = IF A > 1 THEN {P[i] : i \in m .. n} ELSE {}
      BY <1>3, <2>5 DEF QuitaDatos
    <2> QED BY <2>4, <2>6
  <1>11. bitmap = b \ (D \union x \union I) /\ SinBloque \notin D \union x \union I
    <2>1. Falta = {} /\ Quita = D \union x \union I
      BY <1>1, <1>9, <1>10 DEF Falta, Quita
    <2> QED BY <1>2, <1>3, <2>1 DEF VaAchicando
  <1>12. FCB = [F EXCEPT ![f].tam = t]
    <2>1. [F[f] EXCEPT !.tam = t] = FCB_(t, F[f].directo, F[f].indirecto)
      <3>1. F[f] \in EsFCB
        BY <1>4, <1>5
      <3> QED BY <3>1 DEF EsFCB, FCB_
    <2>2. [F EXCEPT ![f] = FCB[f]] = [F EXCEPT ![f].tam = t]
      BY <1>5, <2>1
    <2>3. FCB = [F EXCEPT ![f] = FCB[f]]
      BY <1>4, <1>5
    <2> QED BY <2>2, <2>3
  <1>13. Achica(b, F, p, FALSE, f, t, bitmap, FCB, p, FALSE)
    BY <1>6, <1>7, <1>11, <1>12 DEF Achica
  <1>14. /\ bitmap' = bitmap /\ FCB' = FCB /\ punteros' = p /\ existe' = e
         /\ peticion' = Ninguna /\ caidas' = 0 /\ caido' = FALSE
    BY <1>5 DEF FinDeLiberar, Terminar, Marco
  <1>15. VeAntes(b, F, e, p)
    <2>1. ~Quieto
      BY <1>1 DEF Quieto, En
    <2> QED BY <1>3, <2>1, VeQuieto
  <1>16. VeDespues(bitmap, FCB, e, p)
    <2>1. Quieto'
      BY <1>14 DEF Quieto, En, Ninguna
    <2> QED BY <1>14, <2>1, VeQuieto
  <1>17. PICK b2, F2 : b2 = bitmap /\ F2 = FCB
    OBVIOUS
  <1>18. VeDespues(b2, F2, e, p) /\ Achica(b, F, p, FALSE, f, t, b2, F2, p, FALSE)
    BY <1>13, <1>16, <1>17
  <1> QED BY <1>4, <1>5, <1>14, <1>15, <1>18, VeAchicar

-----------------------------------------------------------------------------
(* The steps between requests, and those after a death.                    *)

\* A request that begins: Bloques does not see it yet.
LEMMA TruncarVa ==
  ASSUME ICaida, IVista, caidas = 0, NEW f \in Archivos, NEW t \in Tamanios[f], Truncar(f, t)
  PROVE  IVista' /\ UNCHANGED B!varsB
  <1>1. /\ En("libre") /\ f \in existe
        /\ FCB' = FCB /\ punteros' = punteros /\ bitmap' = bitmap /\ existe' = existe
        /\ caido' = caido /\ caidas' = caidas /\ rotos' = rotos
        /\ previo' = Disco
    BY DEF Truncar, Recibe, disco
  <1>2. /\ TypeOKB /\ t \in Nat
        /\ FCB \in [Archivos -> EsFCB] /\ FCB[f] \in EsFCB
        /\ punteros \in [Bloques -> [Indices -> Valores]]
    BY BloquesAssumption DEF ICaida, TiposC, TypeOKB, EsFCB, Valores
  <1>3. PICK q, a, c, k :
          /\ peticion' = Peticion_(q, f, a, c, k, <<>>)
          /\ a = FCB[f].tam /\ c = FCB_(t, FCB[f].directo, FCB[f].indirecto)
          /\ k = Cuantos(a, t) /\ q = Empieza(a, t, k)
          /\ t # a /\ (t > a => t <= tam_max_arch)
    BY <1>2, TruncarHace
  <1>4. PICK A, T : A = Ocupa(a) /\ T = Ocupa(t)
    OBVIOUS
  <1>5. /\ a \in Nat /\ A \in Nat /\ T \in Nat
        /\ A = 0 <=> a = 0
        /\ A <= 1 <=> a <= BLOCK_SIZE
        /\ t > a => A <= T
        /\ c.tam = t /\ c.directo = FCB[f].directo /\ c.indirecto = FCB[f].indirecto
    BY <1>2, <1>3, <1>4, OcupaEs, OcupaCasos, OcupaCrece DEF EsFCB, FCB_
  <1>6. /\ peticion'.paso = q /\ peticion'.f = f /\ peticion'.tam_ant = a
        /\ peticion'.fcb = c /\ peticion'.lista = <<>>
    BY <1>3, CamposDe
  <1>7. Antes' = A /\ Total' = T
    BY <1>4, <1>5, <1>6 DEF Antes, Total, Ocupa
  <1>8. PICK b, F, e, p : /\ b = bitmap /\ F = FCB /\ e = existe /\ p = punteros
    OBVIOUS
  <1>9. previo'.bitmap = b /\ previo'.FCB = F /\ previo'.existe = e /\ previo'.punteros = p
    BY <1>1, <1>8 DEF Disco
  \* A growth.
  <1>10. ASSUME t > a
         PROVE  q \in Crecen /\ VaCreciendo'
    <2>1. \/ q = "directo" /\ a = 0
          \/ q = "indirecto" /\ a # 0 /\ T > 1 /\ a <= BLOCK_SIZE
          \/ q \in {"datos", "guardar"} /\ a # 0 /\ ~(T > 1 /\ a <= BLOCK_SIZE)
             /\ (q = "guardar" => A = T)
      <3>1. k = T - A
        BY <1>3, <1>4, <1>10 DEF Cuantos
      <3>2. ~(t < a)
        BY <1>2, <1>5, <1>10
      <3>3. q = IF a = 0 THEN "directo"
                ELSE IF T > 1 /\ a <= BLOCK_SIZE THEN "indirecto"
                ELSE IF T > 1 /\ k > 0 THEN "datos" ELSE "guardar"
        BY <1>3, <1>4, <3>2 DEF Empieza
      <3>4. a # 0 /\ ~(T > 1) => A = T
        BY <1>5, <1>10
      <3>5. ~(k > 0) => A = T
        BY <1>5, <1>10, <3>1
      <3> QED BY <3>3, <3>4, <3>5
    <2>2. /\ ConDirecto1' = IF a = 0 THEN 1 ELSE 0
          /\ ConPunteros1' = IF T > 1 /\ a <= BLOCK_SIZE THEN 1 ELSE 0
      BY <1>6, <1>7 DEF ConDirecto1, ConPunteros1
    <2>3. Llevados' = 0
      BY <1>6, <2>1, <2>2 DEF Llevados
    <2>4. Sacados'
      <3>1. PICK s : s = Tomados'
        OBVIOUS
      <3>2. s \in [1 .. 0 -> (Bloques \ b) \union {SinBloque}]
        BY <2>3, <3>1 DEF Tomados
      <3>3. EnOrden(s, 0, Bloques \ b)
        BY <3>2 DEF EnOrden
      <3>4. bitmap' = b \union ({s[i] : i \in 1 .. 0} \ {SinBloque})
        BY <1>1, <1>8
      <3> QED BY <1>9, <2>3, <3>1, <3>3, <3>4 DEF Sacados, EnOrden, Bloques, SinBloque
    <2>5. q = "guardar" => Base(Antes)' + Len(<<>>) = Total'
      BY <1>5, <1>7, <2>1 DEF Base
    <2>6. /\ peticion'.fcb.tam <= tam_max_arch
          /\ peticion'.fcb.directo = previo'.FCB[peticion'.f].directo
          /\ peticion'.fcb.indirecto = previo'.FCB[peticion'.f].indirecto
          /\ punteros' = previo'.punteros
      BY <1>1, <1>3, <1>5, <1>6, <1>8, <1>9, <1>10
    <2>7. /\ q = "directo" => ConDirecto1' = 1
          /\ q \in {"indirecto", "guardar_indirecto"} => ConPunteros1' = 1
          /\ q # "punteros"
      BY <2>1, <2>2
    <2>8. VaCreciendo'
      BY <1>6, <2>4, <2>5, <2>6, <2>7 DEF VaCreciendo, tam_max_arch
    <2>9. q \in Crecen
      BY <2>1 DEF Crecen
    <2> QED BY <2>8, <2>9
  \* A reduction.
  <1>11. ASSUME ~(t > a)
         PROVE  q \in Achican /\ VaAchicando'
    <2>1. t < a /\ q = "guardar_tam"
      BY <1>2, <1>3, <1>5, <1>11 DEF Empieza
    <2>2. (Falta = Quita)'
      BY <1>6, <2>1 DEF Falta
    <2>3. /\ punteros' = previo'.punteros /\ bitmap' = previo'.bitmap
          /\ peticion'.fcb = FCB_(peticion'.fcb.tam, previo'.FCB[peticion'.f].directo,
                                  previo'.FCB[peticion'.f].indirecto)
      BY <1>1, <1>3, <1>5, <1>6, <1>8, <1>9
    <2>4. VaAchicando'
      BY <2>2, <2>3 DEF VaAchicando, FCB_
    <2>5. q \in Achican
      BY <2>1 DEF Achican
    <2> QED BY <2>4, <2>5
  <1>12. VaBien'
    <2>1. ~(q \in Crecen /\ q \in Achican) /\ q \in Crecen \union Achican
      BY <1>10, <1>11 DEF Crecen, Achican
    <2>2. /\ peticion'.paso \in Crecen => VaCreciendo'
          /\ peticion'.paso \in Achican => VaAchicando'
      BY <1>6, <1>10, <1>11, <2>1
    <2>3. /\ previo'.existe = existe' /\ previo'.bitmap \subseteq Bloques
          /\ previo'.FCB \in [Archivos -> EsFCB]
          /\ previo'.punteros \in [Bloques -> [Indices -> Valores]]
      BY <1>1, <1>2, <1>8, <1>9 DEF TypeOKB
    <2>4. /\ \A g \in Archivos : g # peticion'.f => FCB'[g] = previo'.FCB[g]
          /\ peticion'.tam_ant = previo'.FCB[peticion'.f].tam
          /\ peticion'.fcb.tam \in Tamanios[peticion'.f]
      BY <1>1, <1>3, <1>5, <1>6, <1>8, <1>9
    <2> QED BY <1>6, <2>1, <2>2, <2>3, <2>4 DEF VaBien
  <1>13. IVista'
    BY <1>1, <1>12 DEF IVista
  <1>14. VeAntes(b, F, e, p)
    <2>1. Quieto
      BY <1>1 DEF Quieto
    <2> QED BY <1>8, <2>1, VeQuieto
  <1>15. VeDespues(b, F, e, p)
    <2>1. ~Quieto'
      BY <1>6, <1>10, <1>11, Pasos DEF Quieto, En
    <2> QED BY <1>9, <2>1, VeQuieto
  <1> QED BY <1>1, <1>13, <1>14, <1>15, VeNada

LEMMA CrearVa ==
  ASSUME ICaida, IVista, caidas = 0, NEW f \in Archivos, Crear(f)
  PROVE  IVista' /\ B!NextB
  <1>1. /\ En("libre") /\ f \notin existe
        /\ existe' = existe \union {f}
        /\ FCB' = [FCB EXCEPT ![f] = FCB_(0, SinBloque, SinBloque)]
        /\ punteros' = punteros /\ bitmap' = bitmap
        /\ caido' = caido /\ caidas' = caidas /\ rotos' = rotos /\ peticion' = peticion
    BY DEF Crear, Recibe, F_CREATE, FCB_
  <1>2. Quieto /\ Quieto' /\ caido = FALSE
    BY <1>1 DEF Quieto, En, IVista
  <1>3. PICK b, F, e, p : /\ b = bitmap /\ F = FCB /\ e = existe /\ p = punteros
    OBVIOUS
  <1>4. VeAntes(b, F, e, p)
    BY <1>2, <1>3, VeQuieto
  <1>5. VeDespues(b, [F EXCEPT ![f] = FCB_(0, SinBloque, SinBloque)], e \union {f}, p)
    BY <1>1, <1>2, <1>3, VeQuieto
  <1>6. B!NextB
    BY <1>1, <1>2, <1>3, <1>4, <1>5, VeCrear
  <1>7. IVista'
    BY <1>1, <1>2 DEF IVista, Quieto, En
  <1> QED BY <1>6, <1>7

\* A step of a request.
LEMMA PasoVa ==
  ASSUME ICaida, IVista, caidas = 0, Paso
  PROVE  IVista' /\ (B!NextB \/ UNCHANGED B!varsB)
  <1>1. peticion # Ninguna /\ ~En("libre")
    <2>1. ~En("libre")
      BY DEF Paso, En, AsignarDirecto, AsignarIndirecto, GuardarIndirecto,
         AsignarDato, EscribirPunteros, GuardarFinal, GuardarTamanio, LimpiarDirecto,
         LeerPunteros, LimpiarDato, LimpiarIndirecto, FinDeLiberar
    <2> QED BY <2>1 DEF En, Ninguna
  <1>2. Cursa /\ VaBien /\ caido = FALSE
    BY <1>1, CursaEs DEF IVista
  <1>3. Marco
    BY DEF Paso, Marco
  <1>4. caido' = FALSE /\ caidas' = 0 /\ rotos' = rotos /\ previo' = previo /\ rotos = {}
    BY <1>2, <1>3 DEF Marco, IVista
  <1>5. \/ VaBien'
        \/ B!NextB /\ peticion' = Ninguna
    <2>1. CASE AsignarDirecto
      BY <1>2, <1>3, <2>1, AsignarDirectoVa
    <2>2. CASE AsignarIndirecto
      BY <1>2, <1>3, <2>2, AsignarIndirectoVa
    <2>3. CASE GuardarIndirecto
      BY <1>2, <1>3, <2>3, GuardarIndirectoVa
    <2>4. CASE AsignarDato
      BY <1>2, <1>3, <2>4, AsignarDatoVa
    <2>5. CASE EscribirPunteros
      BY <1>2, <1>3, <2>5, EscribirPunterosVa
    <2>6. CASE GuardarFinal
      <3>1. peticion' = Ninguna
        BY <2>6 DEF GuardarFinal, Terminar
      <3> QED BY <1>2, <1>3, <2>6, <3>1, GuardarFinalVa
    <2>7. CASE GuardarTamanio
      BY <1>2, <1>3, <2>7, GuardarTamanioVa
    <2>8. CASE LimpiarDirecto
      BY <1>2, <1>3, <2>8, LimpiarDirectoVa
    <2>9. CASE LeerPunteros
      BY <1>2, <1>3, <2>9, LeerPunterosVa
    <2>10. CASE LimpiarDato
      BY <1>2, <1>3, <2>10, LimpiarDatoVa
    <2>11. CASE LimpiarIndirecto
      BY <1>2, <1>3, <2>11, LimpiarIndirectoVa
    <2>12. CASE FinDeLiberar
      <3>1. peticion' = Ninguna
        BY <2>12 DEF FinDeLiberar, Terminar
      <3> QED BY <1>2, <1>3, <2>12, <3>1, FinDeLiberarVa
    <2> QED BY <2>1, <2>2, <2>3, <2>4, <2>5, <2>6, <2>7, <2>8, <2>9, <2>10, <2>11, <2>12
            DEF Paso
  <1>6. ASSUME VaBien'
        PROVE  UNCHANGED B!varsB
    <2>1. PICK b, F, e, p : /\ b = previo.bitmap /\ F = previo.FCB /\ e = previo.existe
                            /\ p = previo.punteros
      OBVIOUS
    <2>2. ~Quieto /\ ~Quieto'
      BY <1>1, <1>6, Pasos DEF Quieto, En, VaBien
    <2>3. VeAntes(b, F, e, p) /\ VeDespues(b, F, e, p)
      BY <1>4, <2>1, <2>2, VeQuieto
    <2> QED BY <1>2, <1>4, <2>3, VeNada
  <1>7. IVista'
    <2>1. peticion' = Ninguna => En("libre")'
      BY DEF En, Ninguna
    <2> QED BY <1>4, <1>5, <2>1 DEF IVista
  <1> QED BY <1>5, <1>6, <1>7

\* A death, and whatever comes after one: Bloques keeps the disk it saw.
LEMMA CaidaVa ==
  ASSUME ICaida, IVista, MaxCaidas # 0,
         Caida \/ (caidas # 0 /\ NextC)
  PROVE  IVista' /\ UNCHANGED B!varsB
  <1>1. /\ caidas \in Nat /\ MaxCaidas \in Nat /\ caido = FALSE
    BY CaidaAssumption DEF ICaida, TiposC, IVista
  <1>2. /\ caido' = caido /\ caidas' # 0
        /\ previo' = IF Quieto THEN Disco ELSE previo
    <2>1. CASE Caida
      BY <1>1, <2>1 DEF Caida, Quieto
    <2>2. CASE caidas # 0 /\ Paso
      BY <1>1, <2>2 DEF Paso, Quieto
    <2>3. ASSUME caidas # 0, NEW f \in Archivos, Crear(f)
          PROVE  /\ caido' = caido /\ caidas' # 0
                 /\ previo' = IF Quieto THEN Disco ELSE previo
      BY <2>3 DEF Crear, F_CREATE, Quieto
    <2>4. ASSUME caidas # 0, NEW f \in Archivos, NEW t \in Tamanios[f], Truncar(f, t)
          PROVE  /\ caido' = caido /\ caidas' # 0
                 /\ previo' = IF Quieto THEN Disco ELSE previo
      BY <2>4 DEF Truncar, Quieto
    <2> QED BY <2>1, <2>2, <2>3, <2>4 DEF NextC
  <1>3. IVista'
    BY <1>1, <1>2 DEF IVista
  <1>4. ~Quieto'
    BY <1>2 DEF Quieto
  <1>5. PICK b, F, e, p : VeAntes(b, F, e, p) /\ VeDespues(b, F, e, p)
    <2>1. CASE Quieto
      <3>1. PICK b, F, e, p : /\ b = bitmap /\ F = FCB /\ e = existe /\ p = punteros
        OBVIOUS
      <3>2. VeAntes(b, F, e, p)
        BY <2>1, <3>1, VeQuieto
      <3>3. /\ previo'.bitmap = b /\ previo'.FCB = F /\ previo'.existe = e
            /\ previo'.punteros = p
        BY <1>2, <2>1, <3>1 DEF Disco
      <3>4. VeDespues(b, F, e, p)
        BY <1>4, <3>3, VeQuieto
      <3> QED BY <3>2, <3>4
    <2>2. CASE ~Quieto
      <3>1. PICK b, F, e, p : /\ b = previo.bitmap /\ F = previo.FCB /\ e = previo.existe
                              /\ p = previo.punteros
        OBVIOUS
      <3>2. VeAntes(b, F, e, p)
        BY <2>2, <3>1, VeQuieto
      <3>3. VeDespues(b, F, e, p)
        BY <1>2, <1>4, <2>2, <3>1, VeQuieto
      <3> QED BY <3>2, <3>3
    <2> QED BY <2>1, <2>2
  <1> QED BY <1>2, <1>3, <1>5, VeNada

LEMMA NadaVa ==
  ASSUME IVista, UNCHANGED varsC
  PROVE  IVista' /\ UNCHANGED B!varsB
  <1>1. /\ FCB' = FCB /\ punteros' = punteros /\ bitmap' = bitmap /\ existe' = existe
        /\ caido' = caido /\ caidas' = caidas /\ rotos' = rotos
        /\ peticion' = peticion /\ previo' = previo
    BY DEF varsC, varsB
  <1>2. UNCHANGED B!varsB
    BY <1>1 DEF B!varsB, Quieto, En
  <1>3. ConDirecto1' = ConDirecto1 /\ ConPunteros1' = ConPunteros1
        /\ Antes' = Antes /\ Total' = Total
    BY <1>1 DEF ConDirecto1, ConPunteros1, Antes, Total, Ocupa
  <1>4. Llevados' = Llevados /\ \A i : Tomado(i)' = Tomado(i)
    BY <1>1, <1>3 DEF Llevados, Tomado
  <1>5. Sacados => Sacados'
    BY <1>1, <1>4, SacaIgual
  <1>6. Base(Antes)' = Base(Antes) /\ Base(Total)' = Base(Total) /\ ElUltimo' = ElUltimo
    BY <1>3 DEF Base, ElUltimo
  <1>7. Escritos' = Escritos
    BY <1>1, <1>6 DEF Escritos, Indices
  <1>8. VaCreciendo => VaCreciendo'
    BY <1>1, <1>3, <1>5, <1>6, <1>7 DEF VaCreciendo, tam_max_arch
  <1>9. QuitaDirecto' = QuitaDirecto /\ QuitaDatos' = QuitaDatos
        /\ QuitaIndirecto' = QuitaIndirecto
    BY <1>1, <1>3, <1>6 DEF QuitaDirecto, QuitaDatos, QuitaIndirecto
  <1>10. Quita' = Quita /\ Falta' = Falta
    BY <1>1, <1>9 DEF Quita, Falta
  <1>11. VaAchicando => VaAchicando'
    BY <1>1, <1>10 DEF VaAchicando, FCB_
  <1>12. VaBien => VaBien'
    BY <1>1, <1>8, <1>11 DEF VaBien
  <1>13. IVista'
    BY <1>1, <1>12 DEF IVista, En
  <1> QED BY <1>2, <1>13

LEMMA InicioVa ==
  ASSUME InitC
  PROVE  IVista /\ B!InitB
  <1>1. /\ InitB /\ peticion = Ninguna /\ caidas = 0 /\ rotos = {}
    BY DEF InitC
  <1>2. En("libre") /\ Quieto /\ caido = FALSE
    BY <1>1 DEF En, Ninguna, Quieto, InitB
  <1>3. B!InitB
    BY <1>1, <1>2, OcupaEnB DEF B!InitB, InitB
  <1> QED BY <1>1, <1>2, <1>3 DEF IVista

\* Until a process dies, the stores of each request add up to the one step that
\* Bloques takes for it, and the blocks they take and leave are the same: the two
\* readings of asignar_bloques and liberar_bloques agree.  (With MaxCaidas = 0 a
\* death of the code's own would go uncounted.)
THEOREM LosPasosSumanLaPeticion ==
  ASSUME MaxCaidas # 0
  PROVE  SpecC => ImplementaBloques
  <1>1. InitC => IVista /\ B!InitB
    BY InicioVa
  <1>2. ICaida /\ IVista /\ [NextC]_varsC => IVista' /\ [B!NextB]_(B!varsB)
    <2> SUFFICES ASSUME ICaida, IVista, [NextC]_varsC
                 PROVE  IVista' /\ (B!NextB \/ UNCHANGED B!varsB)
      OBVIOUS
    <2>1. CASE UNCHANGED varsC
      BY <2>1, NadaVa
    <2>2. CASE Caida \/ (caidas # 0 /\ NextC)
      BY <2>2, CaidaVa
    <2>3. CASE caidas = 0 /\ Paso
      BY <2>3, PasoVa
    <2>4. ASSUME caidas = 0, NEW f \in Archivos, Crear(f)
          PROVE  IVista' /\ (B!NextB \/ UNCHANGED B!varsB)
      BY <2>4, CrearVa
    <2>5. ASSUME caidas = 0, NEW f \in Archivos, NEW t \in Tamanios[f], Truncar(f, t)
          PROVE  IVista' /\ (B!NextB \/ UNCHANGED B!varsB)
      BY <2>5, TruncarVa
    <2> QED BY <2>1, <2>2, <2>3, <2>4, <2>5 DEF NextC
  <1> QED BY <1>1, <1>2, CaidaSiempre, PTL DEF SpecC, ImplementaBloques, B!SpecB
=============================================================================

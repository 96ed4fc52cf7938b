SPECIFICATION SpecAB
CONSTANTS
  f1 = f1
  f2 = f2
  Archivos = {f1, f2}
  BLOCK_SIZE = 3
  BLOCK_COUNT = 6
  Tamanios <- Truncan
  Punteros = {2, 5}
  Cantidades = {2, 4, 6}

INVARIANT SinCompartir
INVARIANT BitmapExacto
 
PROPERTY TruncarConserva
CHECK_DEADLOCK FALSE
